---------------------------- MODULE GdsnapProofs ----------------------------
(***************************************************************************)
(* Proofs about Gdsnap, for every set of files, directories and contents,  *)
(* every channel capacity and every number of user actions: the variables  *)
(* keep their types, and no change is lost (GdsnapInv!IInv is inductive).  *)
(***************************************************************************)
EXTENDS GdsnapInv, SequenceTheorems, TLAPS

-----------------------------------------------------------------------------
(* Queues: what is in them after a step at either end.                     *)

\* What a queue holds after something is put at its end.
LEMMA InAppend ==
    ASSUME NEW S, NEW s \in Seq(S), NEW x \in S
    PROVE  /\ Append(s, x) \in Seq(S)
           /\ \A y : InSeq(y, Append(s, x)) <=> (InSeq(y, s) \/ y = x)
<1>1. /\ Append(s, x) \in Seq(S)
      /\ Len(Append(s, x)) = Len(s) + 1
      /\ \A i \in 1..Len(s) : Append(s, x)[i] = s[i]
      /\ Append(s, x)[Len(s) + 1] = x
  BY AppendProperties
<1>2. /\ DOMAIN s = 1..Len(s)
      /\ DOMAIN Append(s, x) = 1..(Len(s) + 1)
      /\ Len(s) \in Nat
  BY <1>1, LenProperties
<1>3. ASSUME NEW y, InSeq(y, s)
      PROVE  InSeq(y, Append(s, x))
  BY <1>1, <1>2, <1>3 DEF InSeq
<1>4. InSeq(x, Append(s, x))
  BY <1>1, <1>2 DEF InSeq
<1>5. ASSUME NEW y, InSeq(y, Append(s, x)), y # x
      PROVE  InSeq(y, s)
  BY <1>1, <1>2, <1>5 DEF InSeq
<1> QED
  BY <1>1, <1>3, <1>4, <1>5

\* What a queue holds after its head is taken.
LEMMA InTail ==
    ASSUME NEW S, NEW s \in Seq(S), s # << >>
    PROVE  /\ Head(s) \in S
           /\ Tail(s) \in Seq(S)
           /\ \A y : InSeq(y, s) <=> (InSeq(y, Tail(s)) \/ y = Head(s))
<1>1. /\ Head(s) \in S
      /\ Tail(s) \in Seq(S)
      /\ Len(Tail(s)) = Len(s) - 1
      /\ \A i \in 1..Len(Tail(s)) : Tail(s)[i] = s[i + 1]
  BY HeadTailProperties
<1>2. /\ DOMAIN s = 1..Len(s)
      /\ DOMAIN Tail(s) = 1..(Len(s) - 1)
      /\ Len(s) \in Nat \ {0}
      /\ Head(s) = s[1]
  BY <1>1, LenProperties, EmptySeq
<1>3. ASSUME NEW y, InSeq(y, Tail(s))
      PROVE  InSeq(y, s)
  BY <1>1, <1>2, <1>3 DEF InSeq
<1>4. InSeq(Head(s), s)
  BY <1>2 DEF InSeq
<1>5. ASSUME NEW y, InSeq(y, s), y # Head(s)
      PROVE  InSeq(y, Tail(s))
  <2>1. PICK i \in 1..Len(s) : s[i] = y
    BY <1>2, <1>5 DEF InSeq
  <2>2. i - 1 \in 1..Len(Tail(s)) /\ Tail(s)[i - 1] = s[i]
    BY <1>1, <1>2, <1>5, <2>1
  <2> QED
    BY <1>1, <1>2, <2>1, <2>2 DEF InSeq
<1> QED
  BY <1>1, <1>3, <1>4, <1>5

\* Nothing is in an empty queue.
LEMMA InEmpty == \A y : ~InSeq(y, << >>)
  BY DEF InSeq

\* A notified event is in the queue, and nothing that was there is dropped.
LEMMA InPost ==
    ASSUME events \in Seq(Event), NEW e \in Event
    PROVE  /\ Post(e) \in Seq(Event)
           /\ \A y : InSeq(y, Post(e)) <=> (InSeq(y, events) \/ y = e)
<1>1. CASE events # << >> /\ events[Len(events)] = e
  <2>1. Post(e) = events
    BY <1>1 DEF Post
  <2>2. Len(events) \in DOMAIN events
    BY <1>1, LenProperties, EmptySeq
  <2> QED
    BY <1>1, <2>1, <2>2 DEF InSeq
<1>2. CASE ~(events # << >> /\ events[Len(events)] = e)
  BY <1>2, InAppend DEF Post
<1> QED
  BY <1>1, <1>2

-----------------------------------------------------------------------------
(* Types.                                                                  *)

USE NamesAssumption, ContentAssumption, BoundsAssumption DEF cache

\* What SavePath sets up is a job.
LEMMA SavePathType ==
    ASSUME TypeOK, NEW f \in File, SavePath(f)
    PROVE  job' \in Job
  BY DEF TypeOK, SavePath, Job, Idle, Stored

\* A visit leads to a job, or to files that are to be walked.
LEMMA VisitType ==
    ASSUME TypeOK, NEW p \in File \cup Dir, Visit(p)
    PROVE  job' \in Job /\ walk' \subseteq File \cup Dir
  BY SavePathType DEF TypeOK, Visit, Entries, Exists

\* The answers tell of each file what Drive has under its name, or nothing;
\* a file to be trashed that they tell nothing of is recorded.
LEMMA ListFilesType ==
    ASSUME TypeOK, ListFiles
    PROVE  /\ files' \in [File -> Info] /\ missed' \in [File -> Reasons]
           /\ unlisted' \subseteq File
           /\ \A f \in File :
                /\ files'[f] \in Listing(f) \/ (files'[f] = Blank /\ f \in unlisted')
                /\ missed[f] # "no" => missed'[f] # "no"
                /\ files'[f] \notin Listing(f) /\ NeedsTrashing(f) =>
                     InSync(f) \/ missed'[f] # "no"
<1>1. PICK g \in [File -> UNION {Answers(f) : f \in File}] :
         /\ \A f \in File : g[f] \in Answers(f)
         /\ files' = g
         /\ unlisted' = {f \in File : g[f] \notin Listing(f)}
         /\ missed' = [f \in File |->
               IF /\ g[f] \notin Listing(f) /\ missed[f] = "no"
                  /\ NeedsTrashing(f) /\ ~InSync(f)
                 THEN "unlisted" ELSE missed[f]]
  BY DEF ListFiles
<1>2. Blank \in Info
  BY DEF Blank, Info
<1>3. ASSUME NEW f \in File PROVE Listing(f) \subseteq Info
  <2>2. ASSUME NEW i \in DOMAIN drive[f] PROVE Metadata(drive[f][i], i) \in Info
    <3>1. drive[f] \in Seq(Object) /\ i \in 1..Len(drive[f]) /\ Len(drive[f]) \in Nat
      BY LenProperties DEF TypeOK
    <3>2. i \in Nat /\ drive[f][i] \in Object
      BY <3>1, ElementOfSeq
    <3> QED
      BY <3>2 DEF Object, Metadata, Info, Stored, Size, Sha, Regular
  <2> QED
    BY <1>2, <2>2 DEF Listing
<1>4. ASSUME NEW f \in File
      PROVE  g[f] \in Info /\ (g[f] \in Listing(f) \/ g[f] = Blank)
  BY <1>1, <1>2, <1>3 DEF Answers
<1>5. missed' \in [File -> Reasons]
  BY <1>1 DEF TypeOK, Reasons
<1> QED
  BY <1>1, <1>4, <1>5

\* The request of a job leaves sequences of objects, and a new entry.
LEMMA RequestType ==
    ASSUME TypeOK, JobOK, CacheOK, job.at = "send"
    PROVE  /\ job.f \in File
           /\ Request(job.f) \in [File -> Seq(Object)]
           /\ NewInfo(job.f) \in Info
           /\ \A g \in File \ {job.f} : Request(job.f)[g] = drive[g]
           /\ files[job.f].st # "none" =>
                /\ files[job.f].id \in DOMAIN drive[job.f]
                /\ DOMAIN Request(job.f)[job.f] = DOMAIN drive[job.f]
                /\ \A i \in DOMAIN drive[job.f] :
                     Request(job.f)[job.f][i] =
                       IF i = files[job.f].id THEN [c |-> job.c, m |-> job.m]
                       ELSE drive[job.f][i]
           /\ files[job.f].st = "none" =>
                LET n == Len(drive[job.f]) + 1 IN
                /\ n \notin DOMAIN drive[job.f]
                /\ DOMAIN Request(job.f)[job.f] = DOMAIN drive[job.f] \cup {n}
                /\ Request(job.f)[job.f][n] = [c |-> job.c, m |-> job.m]
                /\ \A i \in DOMAIN drive[job.f] :
                     Request(job.f)[job.f][i] = drive[job.f][i]
<1> DEFINE f == job.f
           o == [c |-> job.c, m |-> job.m]
<1>1. f \in File /\ job \in Job /\ files[f] \in Info /\ drive[f] \in Seq(Object)
  BY DEF TypeOK, JobOK
<1>2. o \in Object
  BY <1>1 DEF Job, Object
<1>3. NewInfo(f) \in Info
  BY <1>1 DEF NewInfo, Info, Job, Stored, Size, Regular
<1>4. DOMAIN drive[f] = 1..Len(drive[f]) /\ Len(drive[f]) \in Nat
  BY <1>1, LenProperties
<1>5. CASE files[f].st # "none"
  <2>1. files[f].id \in 1..Len(drive[f])
    BY <1>1, <1>4, <1>5 DEF CacheOK, JobOK
  <2>2. Request(f) = [drive EXCEPT ![f] = [drive[f] EXCEPT ![files[f].id] = o]]
    BY <1>1, <1>5 DEF Request, TypeOK
  <2>3. /\ [drive[f] EXCEPT ![files[f].id] = o] \in Seq(Object)
        /\ Len([drive[f] EXCEPT ![files[f].id] = o]) = Len(drive[f])
    BY <1>1, <1>2, <2>1, ExceptSeq
  <2>4. DOMAIN [drive[f] EXCEPT ![files[f].id] = o] = 1..Len(drive[f])
    BY <1>4
  <2> DEFINE t == [drive[f] EXCEPT ![files[f].id] = o]
  <2>a. Request(f) = [drive EXCEPT ![f] = t] /\ t \in Seq(Object)
    BY <2>2, <2>3
  <2> HIDE DEF o, t
  <2>b. /\ Request(f) \in [File -> Seq(Object)] /\ Request(f)[f] = t
        /\ \A g \in File \ {f} : Request(f)[g] = drive[g]
    BY <1>1, <2>a DEF TypeOK
  <2>5. /\ Request(f) \in [File -> Seq(Object)]
        /\ Request(f)[f] = [drive[f] EXCEPT ![files[f].id] = o]
        /\ \A g \in File \ {f} : Request(f)[g] = drive[g]
    BY <2>b DEF t
  <2> QED
    BY <1>1, <1>3, <1>4, <1>5, <2>1, <2>4, <2>5 DEF o
<1>6. CASE files[f].st = "none"
  <2>1. Request(f) = [drive EXCEPT ![f] = Append(drive[f], o)]
    BY <1>1, <1>6 DEF Request, TypeOK
  <2>2. /\ Append(drive[f], o) \in Seq(Object)
        /\ Len(Append(drive[f], o)) = Len(drive[f]) + 1
        /\ \A i \in 1..Len(drive[f]) : Append(drive[f], o)[i] = drive[f][i]
        /\ Append(drive[f], o)[Len(drive[f]) + 1] = o
    BY <1>1, <1>2, AppendProperties
  <2>3. DOMAIN Append(drive[f], o) = 1..(Len(drive[f]) + 1)
    BY <2>2, LenProperties
  <2> HIDE DEF o
  <2>4. /\ Request(f) \in [File -> Seq(Object)]
        /\ Request(f)[f] = Append(drive[f], o)
        /\ \A g \in File \ {f} : Request(f)[g] = drive[g]
    BY <1>1, <2>1, <2>2 DEF TypeOK
  <2> QED
    BY <1>1, <1>3, <1>4, <1>6, <2>2, <2>3, <2>4 DEF o
<1> QED
  BY <1>5, <1>6

\* Initially the variables have their types.
LEMMA TypeInit == Init => TypeOK
<1> SUFFICES ASSUME Init PROVE TypeOK
  OBVIOUS
<1>1. disk \in [File -> [c : Content \cup {Gone}, m : Nat]]
  BY DEF Init, Absent
<1>2. drive \in [File -> Seq(Object)]
  <2>1. \A o \in {Absent} \cup [c : Content, m : {0, 1}] : o \in Object
    BY DEF Absent, Object, Stored
  <2>2. \A o \in Object : <<o>> \in Seq(Object)
    OBVIOUS
  <2>3. << >> \in Seq(Object)
    OBVIOUS
  <2>4. {<< >>} \cup {<<o>> : o \in {Absent} \cup [c : Content, m : {0, 1}]}
          \subseteq Seq(Object)
    BY <2>1, <2>2, <2>3
  <2> QED
    BY <2>4 DEF Init
<1>3. files \in [File -> Info] /\ unlisted \subseteq File
  BY DEF Init, Blank, Info
<1>4. job \in Job /\ job = Idle
  BY DEF Init, Idle, Job, Stored
<1>5. events \in Seq(Event) /\ filech \in Seq(File \cup Dir)
  BY DEF Init
<1>6. missed \in [File -> Reasons]
  BY DEF Init, Reasons
<1>7. /\ dirs \subseteq Dir /\ clock \in Nat /\ phase \in Phases
      /\ touched \subseteq File \cup Dir /\ walk \subseteq File \cup Dir
      /\ watches \subseteq Dir \cup {Top}
      /\ wtodo \subseteq File \cup Dir \cup {Top}
      /\ wname \in File \cup Dir \cup {NoPath}
  BY DEF Init, Phases
<1> QED
  BY <1>1, <1>2, <1>3, <1>4, <1>5, <1>6, <1>7 DEF TypeOK

\* A queued event is an event.
LEMMA NotifyType ==
    ASSUME TypeOK, NEW p \in File \cup Dir, NEW d, NEW k \in Mask, Notify(p, d, k)
    PROVE  /\ events' \in Seq(Event)
           /\ \A y : InSeq(y, events) => InSeq(y, events')
           /\ d \in watches => InSeq([path |-> p, mask |-> k], events')
<1>1. [path |-> p, mask |-> k] \in Event
  BY DEF Event
<1>2. CASE d \in watches
  BY <1>1, <1>2, InPost DEF Notify, TypeOK
<1>3. CASE d \notin watches
  BY <1>3 DEF Notify, TypeOK
<1> QED
  BY <1>2, <1>3

\* A death leaves the variables their types.
LEMMA DieType ==
    ASSUME TypeOK, Die, drive' \in [File -> Seq(Object)]
    PROVE  TypeOK'
<1>1. /\ files' \in [File -> Info] /\ job' \in Job /\ missed' \in [File -> Reasons]
      /\ phase' \in Phases /\ unlisted' \subseteq File
  BY DEF Die, Blank, Info, Idle, Job, Stored, Reasons, Phases
<1>2. events' \in Seq(Event) /\ filech' \in Seq(File \cup Dir)
  BY DEF Die
<1>3. UNCHANGED tree /\ touched' = {} /\ walk' = {} /\ watches' = {} /\ wtodo' = {}
      /\ wname' = NoPath
  BY DEF Die
<1> QED
  BY <1>1, <1>2, <1>3 DEF TypeOK, tree

\* Every step of the user leaves the variables their types.
LEMMA TypeUser ==
    ASSUME TypeOK, User
    PROVE  TypeOK'
<1> USE DEF TypeOK, main, watcher
<1>1. ASSUME NEW f \in File, NEW c \in Content, Write(f, c)
      PROVE  TypeOK'
  <2>1. events' \in Seq(Event)
    BY <1>1, NotifyType DEF Write, Mask
  <2>2. disk' \in [File -> [c : Content \cup {Gone}, m : Nat]] /\ clock' \in Nat
    BY <1>1 DEF Write
  <2>3. missed' \in [File -> Reasons]
    BY <1>1 DEF Write, Unread, Reasons
  <2> QED
    BY <1>1, <2>1, <2>2, <2>3 DEF Write
<1>2. ASSUME NEW f \in File, Delete(f)
      PROVE  TypeOK'
  <2>1. events' \in Seq(Event)
    BY <1>2, NotifyType DEF Delete, Mask
  <2>2. disk' \in [File -> [c : Content \cup {Gone}, m : Nat]]
    BY <1>2 DEF Delete, Absent
  <2>3. missed' \in [File -> Reasons]
    BY <1>2 DEF Delete, Unseen, Reasons
  <2> QED
    BY <1>2, <2>1, <2>2, <2>3 DEF Delete
<1>3. ASSUME NEW d \in Dir, MoveOut(d)
      PROVE  TypeOK'
  <2>1. events' \in Seq(Event)
    BY <1>3, NotifyType DEF MoveOut, Mask
  <2>2. disk' \in [File -> [c : Content \cup {Gone}, m : Nat]]
    BY <1>3 DEF MoveOut, Absent
  <2>3. missed' \in [File -> Reasons]
    BY <1>3 DEF MoveOut, Unseen, Reasons
  <2> QED
    BY <1>3, <2>1, <2>2, <2>3 DEF MoveOut
<1>4. ASSUME NEW d \in Dir,
             NEW new \in [{f \in File : Parent[f] = d} -> Content \cup {Gone}],
             MoveIn(d, new)
      PROVE  TypeOK'
  <2>1. events' \in Seq(Event)
    BY <1>4, NotifyType DEF MoveIn, Mask
  <2>2. disk' \in [File -> [c : Content \cup {Gone}, m : Nat]] /\ clock' \in Nat
    BY <1>4 DEF MoveIn
  <2>3. missed' \in [File -> Reasons]
    BY <1>4 DEF MoveIn, Unread, Reasons
  <2> QED
    BY <1>4, <2>1, <2>2, <2>3 DEF MoveIn
<1> QED
  BY <1>1, <1>2, <1>3, <1>4 DEF User

\* Every step of the watcher does.
LEMMA TypeWatcher ==
    ASSUME TypeOK, Watcher
    PROVE  TypeOK'
<1> USE DEF TypeOK, main, tree
<1>1. ASSUME NEW d \in Dir \cup {Top}, AddWatch(d)
      PROVE  TypeOK'
  BY <1>1 DEF AddWatch, Entries
<1>2. ASSUME NEW f \in File, SendWalked(f)
      PROVE  TypeOK'
  <2>1. filech' \in Seq(File \cup Dir)
    BY <1>2, InAppend DEF SendWalked
  <2> QED
    BY <1>2, <2>1 DEF SendWalked
<1>3. CASE ReadEvent
  <2>1. events' \in Seq(Event) /\ Head(events) \in Event
    BY <1>3, InTail DEF ReadEvent, NextEvent
  <2>2. wname' \in File \cup Dir \cup {NoPath} /\ wtodo' \subseteq File \cup Dir \cup {Top}
    BY <1>3, <2>1 DEF ReadEvent, Event
  <2> QED
    BY <1>3, <2>1, <2>2 DEF ReadEvent
<1>4. CASE SendName
  <2>1. filech' \in Seq(File \cup Dir)
    BY <1>4, InAppend DEF SendName
  <2> QED
    BY <1>4, <2>1 DEF SendName
<1>5. CASE WatchFails
  BY <1>5, DieType DEF WatchFails
<1> QED
  BY <1>1, <1>2, <1>3, <1>4, <1>5 DEF Watcher

\* Every step of the main goroutine, of Drive and of fate does.
LEMMA TypeMain ==
    ASSUME TypeOK, JobOK, CacheOK, Main \/ PutRefused \/ Crash
    PROVE  TypeOK'
<1> USE DEF TypeOK, watcher, tree
<1>1. CASE Start
  <2>1. files' \in [File -> Info]
    BY <1>1, ListFilesType DEF Start
  <2>2. walk' \subseteq File
    BY <1>1 DEF Start
  <2> QED
    BY <1>1, <2>1, <2>2, ListFilesType DEF Start, Phases
<1>2. CASE OldDone
  BY <1>2 DEF OldDone, Phases, Entries
<1>3. CASE NewDone
  BY <1>3 DEF NewDone, Phases
<1>4. CASE DrainVisit
  <2>1. Head(filech) \in File \cup Dir /\ filech' \in Seq(File \cup Dir)
    BY <1>4, InTail DEF DrainVisit
  <2> QED
    BY <1>4, <2>1, VisitType DEF DrainVisit
<1>5. CASE DrainDone
  BY <1>5 DEF DrainDone, Phases
<1>6. CASE Receive
  <2>1. Head(filech) \in File \cup Dir /\ filech' \in Seq(File \cup Dir)
    BY <1>6, InTail DEF Receive
  <2> QED
    BY <1>6, <2>1 DEF Receive
<1>7. CASE StartCycle
  BY <1>7, ListFilesType DEF StartCycle, Phases
<1>8. CASE CycleDone
  BY <1>8 DEF CycleDone, Phases
<1>9. ASSUME NEW f \in File, OldVisit(f)
      PROVE  TypeOK'
  BY <1>9, SavePathType DEF OldVisit
<1>10. ASSUME NEW f \in File, WalkFile(f)
       PROVE  TypeOK'
  BY <1>10, SavePathType DEF WalkFile
<1>11. ASSUME NEW d \in Dir, WalkDir(d)
       PROVE  TypeOK'
  BY <1>11 DEF WalkDir, Entries
<1>12. ASSUME NEW p \in File \cup Dir, CycleVisit(p)
       PROVE  TypeOK'
  BY <1>12, VisitType DEF CycleVisit
<1>13. CASE ReadFile
  <2>1. \A c \in Outcomes(job.f) : c \in Stored
    BY <1>13 DEF JobOK, ReadFile, Outcomes, Stored, Regular
  <2>2. job' \in Job
    BY <1>13, <2>1 DEF ReadFile, Job, Idle, Stored
  <2> QED
    BY <1>13, <2>2 DEF ReadFile
<1>14. CASE Upload
  <2>1. job' \in Job
    BY <1>14 DEF Upload, Idle, Job, Stored
  <2>2. drive' \in [File -> Seq(Object)] /\ files' \in [File -> Info]
    BY <1>14, RequestType DEF Upload
  <2> QED
    BY <1>14, <2>1, <2>2 DEF Upload
<1>15. CASE PutRefused
  <2>1. job' \in Job
    BY <1>15 DEF PutRefused, Idle, Job, Stored
  <2>2. missed' \in [File -> Reasons]
    BY <1>15 DEF PutRefused, Reasons
  <2> QED
    BY <1>15, <2>1, <2>2 DEF PutRefused
<1>16. CASE Crash
  <2>1. drive' \in [File -> Seq(Object)]
    BY <1>16, RequestType DEF Crash
  <2> QED
    BY <1>16, <2>1, DieType DEF Crash
<1> QED
  BY <1>1, <1>2, <1>3, <1>4, <1>5, <1>6, <1>7, <1>8, <1>9, <1>10, <1>11, <1>12,
     <1>13, <1>14, <1>15, <1>16 DEF Main

\* Stuttering does.
LEMMA TypeStep == TypeOK /\ JobOK /\ CacheOK /\ [Next]_vars => TypeOK'
<1>1. ASSUME TypeOK, UNCHANGED vars PROVE TypeOK'
  BY <1>1 DEF TypeOK, vars, tree, main, watcher
<1> QED
  BY <1>1, TypeUser, TypeWatcher, TypeMain DEF Next

-----------------------------------------------------------------------------
(* What a step does to the tree, to Drive and to gs.files, whoever takes   *)
(* it: most parts of the invariant depend on no more than this.            *)

\* A change of the user gives a file a new time, or removes it.
LEMMA UserEffect ==
    ASSUME TypeOK, User
    PROVE  /\ clock' = clock \/ clock' = clock + 1
           /\ \A f \in File : \/ disk'[f] = disk[f]
                             \/ disk'[f] = Absent
                             \/ /\ disk'[f].c \in Content
                                /\ disk'[f].m = clock + 1
                                /\ clock' = clock + 1
           /\ UNCHANGED <<drive, phase, touched, walk, job, files, wtodo, wname,
                          filech>>
<1>1. ASSUME NEW f \in File, NEW c \in Content, Write(f, c)
      PROVE  /\ clock' = clock + 1
             /\ \A g \in File : \/ disk'[g] = disk[g]
                                \/ disk'[g].c \in Content /\ disk'[g].m = clock + 1
  <2>1. clock' = clock + 1 /\ disk' = [disk EXCEPT ![f] = [c |-> c, m |-> clock + 1]]
    BY <1>1 DEF Write
  <2>2. \A g \in File : disk'[g] = IF g = f THEN [c |-> c, m |-> clock + 1] ELSE disk[g]
    BY <2>1 DEF TypeOK
  <2>3. clock \in Nat
    BY DEF TypeOK
  <2> QED
    BY <2>1, <2>2, <2>3
<1>2. ASSUME NEW f \in File, Delete(f)
      PROVE  clock' = clock /\ \A g \in File : disk'[g] \in {disk[g], Absent}
  BY <1>2 DEF Delete, TypeOK
<1>3. ASSUME NEW d \in Dir, MoveOut(d)
      PROVE  clock' = clock /\ \A g \in File : disk'[g] \in {disk[g], Absent}
  BY <1>3 DEF MoveOut, TypeOK
<1>4. ASSUME NEW d \in Dir,
             NEW new \in [{f \in File : Parent[f] = d} -> Content \cup {Gone}],
             MoveIn(d, new)
      PROVE  /\ clock' = clock + 1
             /\ \A g \in File : \/ disk'[g] = disk[g]
                                \/ disk'[g].c \in Content /\ disk'[g].m = clock + 1
  <2>1. /\ clock' = clock + 1
        /\ \A g \in File : disk'[g] = IF Parent[g] = d /\ new[g] # Gone
                                    THEN [c |-> new[g], m |-> clock + 1] ELSE disk[g]
    BY <1>4 DEF MoveIn
  <2>2. \A g \in File : Parent[g] = d /\ new[g] # Gone => new[g] \in Content
    OBVIOUS
  <2>3. ASSUME NEW g \in File, Parent[g] = d, new[g] # Gone
        PROVE  disk'[g].c = new[g] /\ disk'[g].m = clock + 1
    <3>1. disk'[g] = [c |-> new[g], m |-> clock + 1]
      BY <2>1, <2>3, Zenon
    <3> QED
      BY <3>1
  <2>4. ASSUME NEW g \in File, ~(Parent[g] = d /\ new[g] # Gone)
        PROVE  disk'[g] = disk[g]
    BY <2>1, <2>4
  <2> QED
    BY <2>1, <2>2, <2>3, <2>4
<1>5. UNCHANGED <<drive, phase, touched, walk, job, files, wtodo, wname, filech>>
  BY DEF User, Write, Delete, MoveOut, MoveIn, main
<1> QED
  BY <1>1, <1>2, <1>3, <1>4, <1>5 DEF User

Machine == Main \/ Watcher \/ PutRefused \/ Crash

\* No other step changes the tree; a step changes Drive by carrying out the
\* request, and gs.files by that, by a listing or by the end of the process.
LEMMA MachineEffect ==
    ASSUME Machine
    PROVE  /\ UNCHANGED <<disk, dirs, clock>>
           /\ \/ drive' = drive /\ files' = files
              \/ drive' = drive /\ ListFiles /\ phase \in {"down", "wait"} /\ job' = job
              \/ /\ job.at = "send" /\ drive' = Request(job.f) /\ job' = Idle
                 /\ phase' = phase
                 /\ files' = IF job.c \in Large THEN files
                             ELSE [files EXCEPT ![job.f] = NewInfo(job.f)]
              \/ /\ phase' = "down" /\ files' = [f \in File |-> Blank]
                 /\ job' = Idle
                 /\ drive' = drive \/ (job.at = "send" /\ drive' = Request(job.f))
<1> USE DEF tree, main, watcher
<1>1. CASE Start \/ StartCycle
  BY <1>1 DEF Start, StartCycle
<1>2. CASE Upload
  BY <1>2 DEF Upload
<1>3. CASE WatchFails \/ Crash
  BY <1>3 DEF WatchFails, Crash, Die
<1>4. CASE OldDone \/ NewDone \/ DrainVisit \/ DrainDone \/ Receive \/ CycleDone
           \/ ReadFile \/ PutRefused
  BY <1>4 DEF OldDone, NewDone, DrainVisit, DrainDone, Receive, CycleDone, ReadFile,
              PutRefused
<1>5. CASE \/ \E f \in File : OldVisit(f) \/ WalkFile(f)
           \/ \E d \in Dir : WalkDir(d)
           \/ \E p \in File \cup Dir : CycleVisit(p)
  BY <1>5 DEF OldVisit, WalkFile, WalkDir, CycleVisit
<1>6. CASE \/ \E d \in Dir \cup {Top} : AddWatch(d)
           \/ \E f \in File : SendWalked(f)
           \/ ReadEvent \/ SendName
  BY <1>6 DEF AddWatch, SendWalked, ReadEvent, SendName
<1> QED
  BY <1>1, <1>2, <1>3, <1>4, <1>5, <1>6 DEF Machine, Main, Watcher

\* The job is ended, kept, set up by SavePath or carried on by ReadFile.
LEMMA JobEffect ==
    ASSUME Machine
    PROVE  \/ job' = Idle
           \/ /\ job' = job /\ drive' = drive
              /\ files' = files \/ phase \in {"down", "wait"}
           \/ /\ job = Idle /\ UNCHANGED <<files, drive, phase>>
              /\ \E f \in File : SavePath(f)
           \/ ReadFile
<1> USE DEF tree, main, watcher
<1>1. CASE Start \/ StartCycle
  BY <1>1 DEF Start, StartCycle
<1>2. CASE Upload \/ PutRefused
  BY <1>2 DEF Upload, PutRefused
<1>3. CASE WatchFails \/ Crash
  BY <1>3 DEF WatchFails, Crash, Die
<1>4. CASE OldDone \/ NewDone \/ DrainDone \/ Receive \/ CycleDone
  BY <1>4 DEF OldDone, NewDone, DrainDone, Receive, CycleDone
<1>5. CASE DrainVisit \/ \E p \in File \cup Dir : CycleVisit(p)
  BY <1>5 DEF DrainVisit, CycleVisit, Visit, Free
<1>6. ASSUME NEW f \in File, OldVisit(f) \/ WalkFile(f)
      PROVE  \/ job' = Idle
             \/ job = Idle /\ UNCHANGED <<files, drive, phase>> /\ SavePath(f)
  BY <1>6 DEF OldVisit, WalkFile, Free, Walking
<1>7. ASSUME NEW d \in Dir, WalkDir(d)
      PROVE  job' = Idle
  BY <1>7 DEF WalkDir, Walking, Free
<1>8. CASE \/ \E d \in Dir \cup {Top} : AddWatch(d)
           \/ \E f \in File : SendWalked(f)
           \/ ReadEvent \/ SendName
  <2>1. UNCHANGED <<drive, phase, touched, walk, job, files>>
    BY <1>8 DEF AddWatch, SendWalked, ReadEvent, SendName
  <2>2. job' = job /\ files' = files /\ drive' = drive /\ phase' = phase
    BY <2>1
  <2> QED
    BY <1>8, <2>2 DEF AddWatch, SendWalked, ReadEvent, SendName
<1> QED
  BY <1>1, <1>2, <1>3, <1>4, <1>5, <1>6, <1>7, <1>8 DEF Machine, Main, Watcher

-----------------------------------------------------------------------------
(* The parts of the invariant about the tree, the times, Drive, gs.files   *)
(* and the job.                                                            *)

\* Files live in directories that exist, and have a time.
LEMMA DiskStep ==
    ASSUME TypeOK, DiskOK, User \/ Machine
    PROVE  DiskOK'
<1> USE DEF DiskOK, Exists, Present
<1>1. ASSUME NEW f \in File, NEW c \in Content, Write(f, c)
      PROVE  DiskOK'
  <2>1. /\ \A g \in File : disk'[g] = IF g = f THEN [c |-> c, m |-> clock + 1] ELSE disk[g]
        /\ clock \in Nat /\ dirs' = dirs
    BY <1>1 DEF Write, TypeOK
  <2> QED
    BY <1>1, <2>1 DEF Write
<1>2. ASSUME NEW f \in File, Delete(f)
      PROVE  DiskOK'
  <2>1. /\ \A g \in File : disk'[g] = IF g = f THEN Absent ELSE disk[g]
        /\ dirs' = dirs
    BY <1>2 DEF Delete, TypeOK
  <2> QED
    BY <2>1 DEF Absent
<1>3. ASSUME NEW d \in Dir, MoveOut(d)
      PROVE  DiskOK'
  <2>1. /\ \A g \in File : disk'[g] = IF Parent[g] = d THEN Absent ELSE disk[g]
        /\ dirs' = dirs \ {d}
    BY <1>3 DEF MoveOut
  <2> QED
    BY <2>1 DEF Absent
<1>4. ASSUME NEW d \in Dir,
             NEW new \in [{f \in File : Parent[f] = d} -> Content \cup {Gone}],
             MoveIn(d, new)
      PROVE  DiskOK'
  <2>1. /\ \A g \in File : disk'[g] = IF Parent[g] = d /\ new[g] # Gone
                                    THEN [c |-> new[g], m |-> clock + 1] ELSE disk[g]
        /\ dirs' = dirs \cup {d}
        /\ clock \in Nat
    BY <1>4 DEF MoveIn, TypeOK
  <2>2. ASSUME NEW g \in File, Parent[g] = d, new[g] # Gone
        PROVE  disk'[g].m = clock + 1 /\ Present(Parent[g])'
    <3>1. disk'[g] = [c |-> new[g], m |-> clock + 1]
      BY <2>1, <2>2, Zenon
    <3> QED
      BY <2>1, <2>2, <3>1
  <2>3. ASSUME NEW g \in File, ~(Parent[g] = d /\ new[g] # Gone)
        PROVE  disk'[g] = disk[g]
    BY <2>1, <2>3
  <2> QED
    BY <2>1, <2>2, <2>3
<1>5. CASE Machine
  BY <1>5, MachineEffect
<1> QED
  BY <1>1, <1>2, <1>3, <1>4, <1>5 DEF User

\* An object on Drive is one.
LEMMA DriveObject ==
    ASSUME TypeOK, NEW f \in File, NEW i \in DOMAIN drive[f]
    PROVE  /\ drive[f][i] \in Object
           /\ drive[f][i].c \in Stored /\ drive[f][i].m \in Nat
           /\ i \in Nat /\ i # 0
<1>1. drive[f] \in Seq(Object)
  BY DEF TypeOK
<1>2. i \in 1..Len(drive[f]) /\ Len(drive[f]) \in Nat
  BY <1>1, LenProperties
<1>3. drive[f][i] \in Object
  BY <1>1, <1>2, ElementOfSeq
<1> QED
  BY <1>2, <1>3 DEF Object

\* What a listing says, spelled out.
LEMMA ListingFacts ==
    ASSUME TypeOK, NEW f \in File, NEW e \in Listing(f)
    PROVE  \/ e = Blank /\ drive[f] = << >>
           \/ \E i \in DOMAIN drive[f] :
                /\ e.id = i /\ e.m = drive[f][i].m /\ i # 0
                /\ e.st = IF drive[f][i].c = Gone THEN "trashed" ELSE "live"
                /\ e.sha = Sha(drive[f][i].c)
<1>1. CASE drive[f] = << >>
  BY <1>1 DEF Listing
<1>2. CASE drive[f] # << >>
  <2>1. PICK i \in DOMAIN drive[f] : e = Metadata(drive[f][i], i)
    BY <1>2 DEF Listing
  <2>2. i # 0
    BY DriveObject
  <2> QED
    BY <2>1, <2>2 DEF Metadata
<1> QED
  BY <1>1, <1>2

\* A request adds one object to Drive, or changes one, and leaves the rest.
LEMMA RequestFacts ==
    ASSUME TypeOK, JobOK, CacheOK, job.at = "send", drive' = Request(job.f)
    PROVE  \A f \in File : \A i \in DOMAIN drive'[f] :
              \/ i \in DOMAIN drive[f] /\ drive'[f][i] = drive[f][i]
              \/ f = job.f /\ drive'[f][i] = [c |-> job.c, m |-> job.m]
  BY RequestType

\* Times only run forward, from the file to Drive and to gs.files.
LEMMA TimesStep ==
    ASSUME TypeOK, DiskOK, TimesOK, JobOK, CacheOK, User \/ Machine
    PROVE  TimesOK'
<1> USE DEF TimesOK, Exists
<1>0. /\ clock \in Nat
      /\ \A f \in File : disk[f].m \in Nat /\ files[f].m \in Nat
      /\ \A f \in File : \A i \in DOMAIN drive[f] : drive[f][i].m \in Nat
  <2>1. \A f \in File : \A i \in DOMAIN drive[f] : drive[f][i].m \in Nat
    BY DriveObject
  <2> QED
    BY <2>1 DEF TypeOK, Info
<1>1. CASE User
  <2>1. /\ clock' \in {clock, clock + 1} /\ drive' = drive /\ files' = files
        /\ \A f \in File : \/ disk'[f] = disk[f]
                           \/ disk'[f] = Absent
                           \/ disk'[f].m = clock + 1 /\ clock' = clock + 1
    BY <1>1, UserEffect
  <2> QED
    BY <1>0, <2>1 DEF Absent
<1>2. CASE Machine
  <2>1. UNCHANGED <<disk, dirs, clock>>
    BY <1>2, MachineEffect
  <2>2. CASE job.at = "send"
    <3>1. /\ job.f \in File /\ job.m \in Nat /\ job.m <= clock
          /\ Exists(job.f) => job.m <= disk[job.f].m
      BY <1>0, <2>2 DEF JobOK, TypeOK, Job
    <3>2. drive' = drive \/ drive' = Request(job.f)
      BY <1>2, MachineEffect
    <3>3. \A f \in File : \A i \in DOMAIN drive'[f] :
             /\ drive'[f][i].m <= clock
             /\ Exists(f) => drive'[f][i].m <= disk[f].m
      BY <1>0, <2>2, <3>1, <3>2, RequestFacts
    <3>4. \A f \in File : \/ files'[f] = files[f]
                          \/ files'[f] = Blank
                          \/ f = job.f /\ files'[f] = NewInfo(job.f)
                          \/ drive' = drive /\ files'[f] \in Listing(f)
      BY <1>2, MachineEffect, ListFilesType DEF TypeOK
    <3>5. ASSUME NEW f \in File
          PROVE  files'[f].m <= clock /\ (Exists(f) => files'[f].m <= disk[f].m)
      <4>1. CASE files'[f] = files[f]
        BY <4>1
      <4>2. CASE files'[f] = Blank
        BY <1>0, <4>2 DEF Blank
      <4>3. CASE f = job.f /\ files'[f] = NewInfo(job.f)
        BY <1>0, <3>1, <4>3 DEF NewInfo
      <4>4. CASE files'[f] \in Listing(f)
        BY <1>0, <4>4, ListingFacts DEF Blank
      <4> QED
        BY <3>4, <4>1, <4>2, <4>3, <4>4
    <3> QED
      BY <2>1, <3>3, <3>5
  <2>3. CASE job.at # "send"
    <3>1. drive' = drive
      BY <1>2, <2>3, MachineEffect
    <3>2. \A f \in File : \/ files'[f] = files[f]
                          \/ files'[f] = Blank
                          \/ files'[f] \in Listing(f)
      BY <1>2, <2>3, MachineEffect, ListFilesType
    <3>3. ASSUME NEW f \in File
          PROVE  files'[f].m <= clock /\ (Exists(f) => files'[f].m <= disk[f].m)
      <4>1. CASE files'[f] = files[f]
        BY <4>1
      <4>2. CASE files'[f] = Blank
        BY <1>0, <4>2 DEF Blank
      <4>3. CASE files'[f] \in Listing(f)
        BY <1>0, <4>3, ListingFacts DEF Blank
      <4> QED
        BY <3>2, <4>1, <4>2, <4>3
    <3> QED
      BY <2>1, <3>1, <3>3
  <2> QED
    BY <2>2, <2>3
<1> QED
  BY <1>1, <1>2

\* The time of an object tells its content.
LEMMA DriveStep ==
    ASSUME TypeOK, DiskOK, TimesOK, JobOK, CacheOK, DriveOK, User \/ Machine
    PROVE  DriveOK'
<1> USE DEF Exists
<1>1. CASE User
  <2>1. /\ drive' = drive
        /\ \A f \in File : \/ disk'[f] = disk[f]
                           \/ disk'[f] = Absent
                           \/ disk'[f].m = clock + 1
    BY <1>1, UserEffect
  <2>2. \A f \in File : \A i \in DOMAIN drive[f] :
           drive[f][i].m <= clock /\ drive[f][i].m \in Nat /\ clock \in Nat
    BY DriveObject DEF TimesOK, TypeOK
  <2>3. ASSUME NEW f \in File, NEW i \in DOMAIN drive[f], Exists(f)',
               drive[f][i].m = disk'[f].m
        PROVE  drive[f][i].c = disk'[f].c
    BY <2>1, <2>2, <2>3 DEF DriveOK, Absent
  <2> QED
    BY <2>1, <2>3 DEF DriveOK
<1>2. CASE Machine
  <2>1. disk' = disk
    BY <1>2, MachineEffect
  <2>2. CASE drive' = drive
    BY <2>1, <2>2 DEF DriveOK
  <2>3. CASE job.at = "send" /\ drive' = Request(job.f)
    <3>1. /\ job.f \in File
          /\ job.c = Gone => job.m = 0
          /\ Exists(job.f) /\ job.m = disk[job.f].m => job.c = disk[job.f].c
      BY <2>3 DEF JobOK, DiskOK
    <3> QED
      BY <2>1, <2>3, <3>1, RequestFacts DEF DriveOK
  <2> QED
    BY <1>2, <2>2, <2>3, MachineEffect
<1> QED
  BY <1>1, <1>2

\* gs.files is right about a file whose time it has.
LEMMA CacheStep ==
    ASSUME TypeOK, DiskOK, TimesOK, JobOK, DriveOK, CacheOK, User \/ Machine
    PROVE  CacheOK'
<1> USE DEF Exists, Listed
<1>1. CASE User
  <2>1. /\ drive' = drive /\ files' = files
        /\ \A f \in File : \/ disk'[f] = disk[f]
                           \/ disk'[f] = Absent
                           \/ disk'[f].m = clock + 1
    BY <1>1, UserEffect
  <2>2. \A f \in File : files[f].m <= clock /\ files[f].m \in Nat /\ clock \in Nat
    BY DEF TimesOK, TypeOK, Info
  <2> QED
    BY <2>1, <2>2 DEF CacheOK, Absent
<1>2. ASSUME disk' = disk, drive' = drive, NEW f \in File,
             files'[f] \in Listing(f) \cup {Blank}
      PROVE  /\ files'[f].st # "none" /\ files'[f].id # 0 => files'[f].id \in DOMAIN drive[f]
             /\ files'[f].st = "none" => files'[f] = Blank
             /\ Exists(f) /\ files'[f].st = "live" /\ files'[f].m = disk[f].m =>
                  \E i \in DOMAIN drive[f] : drive[f][i].c = disk[f].c
  <2>1. CASE files'[f] = Blank
    BY <2>1 DEF Blank
  <2>2. CASE \E i \in DOMAIN drive[f] :
                /\ files'[f].id = i /\ files'[f].m = drive[f][i].m
                /\ files'[f].st = IF drive[f][i].c = Gone THEN "trashed" ELSE "live"
    BY <2>2 DEF DriveOK
  <2> QED
    BY <1>2, <2>1, <2>2, ListingFacts
<1>3. CASE Machine /\ drive' = drive /\ (files' = files \/ ListFiles)
  <2>1. disk' = disk
    BY <1>3, MachineEffect
  <2>2. CASE files' = files
    BY <1>3, <2>1, <2>2 DEF CacheOK
  <2>3. CASE ListFiles
    BY <1>2, <1>3, <2>1, <2>3, ListFilesType DEF CacheOK
  <2> QED
    BY <1>3, <2>2, <2>3
<1>4. CASE /\ Machine /\ job.at = "send" /\ drive' = Request(job.f)
           /\ files' = IF job.c \in Large THEN files
                       ELSE [files EXCEPT ![job.f] = NewInfo(job.f)]
  <2>1. disk' = disk
    BY <1>4, MachineEffect
  <2>2. \A f \in File \ {job.f} : drive'[f] = drive[f] /\ files'[f] = files[f]
    BY <1>4, RequestType DEF TypeOK
  <2>3. /\ job.f \in File
        /\ DOMAIN drive[job.f] \subseteq DOMAIN drive'[job.f]
        /\ \E i \in DOMAIN drive'[job.f] : drive'[job.f][i] = [c |-> job.c, m |-> job.m]
    BY <1>4, RequestType
  <2>4. CASE job.c \in Large
    <3>1. files' = files /\ job.c # Gone
      BY <1>4, <2>4
    <3>2. ~(Exists(job.f) /\ Listed(job.f) /\ files[job.f].m = disk[job.f].m)
      <4>1. /\ files[job.f].m \in Nat /\ job.m \in Nat /\ disk[job.f].m \in Nat
        BY <2>3 DEF TypeOK, Info, Job
      <4>2. /\ files[job.f].st = "trashed" \/ files[job.f].m < job.m
            /\ Exists(job.f) => job.m <= disk[job.f].m
        BY <1>4, <3>1 DEF JobOK
      <4> QED
        BY <4>1, <4>2
    <3> QED
      BY <2>1, <2>2, <2>3, <3>1, <3>2 DEF CacheOK
  <2>5. CASE job.c \notin Large
    <3>1. files'[job.f] = NewInfo(job.f)
      BY <1>4, <2>3, <2>5 DEF TypeOK
    <3>2. /\ NewInfo(job.f).st \in {"live", "trashed"}
          /\ NewInfo(job.f).id = files[job.f].id
          /\ NewInfo(job.f).st = "live" => NewInfo(job.f).m = job.m /\ job.c # Gone
      BY DEF NewInfo
    <3>3. files[job.f].id # 0 => files[job.f].id \in DOMAIN drive[job.f]
      BY <2>3 DEF CacheOK, Blank
    <3>4. Exists(job.f) /\ job.m = disk[job.f].m /\ job.c # Gone => job.c = disk[job.f].c
      BY <1>4 DEF JobOK
    <3> QED
      BY <2>1, <2>2, <2>3, <3>1, <3>2, <3>3, <3>4 DEF CacheOK
  <2> QED
    BY <2>4, <2>5
<1>5. CASE files' = [f \in File |-> Blank]
  BY <1>5 DEF CacheOK, Blank
<1> QED
  BY <1>1, <1>3, <1>4, <1>5, MachineEffect

\* A job stands on what Lstat and gs.files said.
LEMMA JobStep ==
    ASSUME TypeOK, DiskOK, TimesOK, MainOK, JobOK, User \/ Machine
    PROVE  JobOK'
<1> USE DEF Exists, Listed
<1>0. /\ clock \in Nat
      /\ \A f \in File : disk[f].m \in Nat /\ files[f].m \in Nat
  BY DEF TypeOK, Info
<1>1. CASE User
  <2>1. /\ job' = job /\ files' = files /\ clock' \in {clock, clock + 1}
        /\ \A f \in File : \/ disk'[f] = disk[f]
                           \/ disk'[f] = Absent
                           \/ disk'[f].m = clock + 1
    BY <1>1, UserEffect
  <2>2. job.m \in Nat
    BY DEF TypeOK, Job
  <2> QED
    BY <1>0, <2>1, <2>2 DEF JobOK, Absent
<1>2. CASE Machine
  <2>1. disk' = disk /\ clock' = clock
    BY <1>2, MachineEffect
  <2>2. CASE job' = Idle
    BY <2>2 DEF JobOK, Idle
  <2>3. CASE job' = job /\ (files' = files \/ phase \in {"down", "wait"})
    <3>1. CASE files' = files
      BY <2>1, <2>3, <3>1 DEF JobOK
    <3>2. CASE phase \in {"down", "wait"}
      BY <2>3, <3>2 DEF JobOK, MainOK, Idle
    <3> QED
      BY <2>3, <3>1, <3>2
  <2>4. ASSUME NEW f \in File, SavePath(f), files' = files
        PROVE  JobOK'
    <3>1. CASE job' = Idle
      BY <3>1 DEF JobOK, Idle
    <3>2. CASE /\ ~Skipped(f) /\ NeedsTrashing(f)
               /\ job' = [at |-> "send", f |-> f, m |-> 0, c |-> Gone]
      BY <2>1, <2>4, <3>2 DEF JobOK, Skipped, NeedsTrashing
    <3>3. CASE /\ ~Skipped(f) /\ ~NeedsTrashing(f) /\ ~SameTime(f)
               /\ job' = [at |-> IF disk[f].c \in Link THEN "readlink" ELSE "read",
                          f |-> f, m |-> disk[f].m, c |-> Gone]
      <4>1. /\ job'.f = f /\ job'.m = disk[f].m
            /\ job'.at = IF disk[f].c \in Link THEN "readlink" ELSE "read"
        BY <3>3
      <4>2. /\ f \notin Ignored /\ Exists(f) /\ disk[f].m > 0 /\ disk[f].m <= clock
            /\ files[f].st = "trashed" \/ files[f].m < disk[f].m
            /\ files[f].st # "none" => files[f].id # 0
        BY <1>0, <3>3 DEF NeedsTrashing, SameTime, Skipped, DiskOK, TimesOK
      <4> QED
        BY <1>0, <2>1, <2>4, <4>1, <4>2 DEF JobOK
    <3> QED
      BY <2>4, <3>1, <3>2, <3>3 DEF SavePath
  <2>5. CASE ReadFile
    <3>1. PICK c \in Outcomes(job.f) :
             job' = IF c = Gone \/ SameSha(job.f, c) THEN Idle
                    ELSE [at |-> "send", f |-> job.f, m |-> job.m, c |-> c]
      BY <2>5 DEF ReadFile
    <3>2. CASE job' = Idle
      BY <3>2 DEF JobOK, Idle
    <3>3. CASE c # Gone /\ job' = [at |-> "send", f |-> job.f, m |-> job.m, c |-> c]
      <4>1. job.at \in {"read", "readlink"} /\ files' = files
        BY <2>5 DEF ReadFile
      <4>2. job.m = disk[job.f].m => c = disk[job.f].c
        BY <4>1 DEF JobOK, Outcomes
      <4> QED
        BY <2>1, <3>3, <4>1, <4>2 DEF JobOK
    <3> QED
      BY <3>1, <3>2, <3>3
  <2> QED
    BY <1>2, <2>2, <2>3, <2>4, <2>5, JobEffect
<1> QED
  BY <1>1, <1>2

\* What is in a queue has its type.
LEMMA InSeqType ==
    ASSUME NEW S, NEW s \in Seq(S), NEW x, InSeq(x, s)
    PROVE  x \in S
<1>1. PICK i \in DOMAIN s : s[i] = x
  BY DEF InSeq
<1>2. i \in 1..Len(s)
  BY LenProperties
<1> QED
  BY <1>1, <1>2, ElementOfSeq

\* A step of the main goroutine leaves its variables fitting the phase.
LEMMA MainStep ==
    ASSUME TypeOK, JobOK, MainOK, User \/ Machine
    PROVE  MainOK'
<1> USE DEF MainOK
<1>0. phase \in Phases
  BY DEF TypeOK
<1>1. CASE User
  <2>1. UNCHANGED <<phase, touched, walk, job, files>>
    BY <1>1, UserEffect
  <2> QED
    BY <2>1
<1>2. CASE \/ \E d \in Dir \cup {Top} : AddWatch(d)
           \/ \E f \in File : SendWalked(f)
           \/ ReadEvent \/ SendName
  <2>1. UNCHANGED <<phase, touched, walk, job, files>>
    BY <1>2 DEF AddWatch, SendWalked, ReadEvent, SendName, main
  <2> QED
    BY <2>1
<1>3. CASE WatchFails \/ Crash
  BY <1>3 DEF WatchFails, Crash, Die
<1>4. CASE ReadFile \/ Upload \/ PutRefused
  <2>1. UNCHANGED <<phase, touched, walk>> /\ job # Idle
    BY <1>4 DEF ReadFile, Upload, PutRefused, Idle
  <2> QED
    BY <2>1
<1>5. CASE Start
  BY <1>5 DEF Start
<1>6. CASE StartCycle
  BY <1>6 DEF StartCycle
<1>7. CASE OldDone
  BY <1>7 DEF OldDone
<1>8. CASE NewDone \/ DrainDone \/ CycleDone
  BY <1>8 DEF NewDone, DrainDone, CycleDone, Free
<1>9. CASE Receive
  BY <1>9 DEF Receive
<1>10. ASSUME NEW p \in File \cup Dir, Visit(p), walk = {}
       PROVE  walk' \subseteq File
  BY <1>10 DEF Visit, Entries
<1>11. CASE DrainVisit
  <2>1. Head(filech) \in File \cup Dir
    BY <1>11, InTail DEF DrainVisit, TypeOK
  <2>2. walk' \subseteq File /\ phase = "drain" /\ UNCHANGED <<phase, touched, files>>
    BY <1>10, <1>11, <2>1 DEF DrainVisit
  <2> QED
    BY <2>2
<1>12. ASSUME NEW p \in File \cup Dir, CycleVisit(p)
       PROVE  MainOK'
  <2>1. walk' \subseteq File /\ phase = "cycle" /\ UNCHANGED <<phase, files>>
    BY <1>10, <1>12 DEF CycleVisit
  <2> QED
    BY <2>1
<1>13. ASSUME NEW f \in File, OldVisit(f) \/ WalkFile(f)
       PROVE  MainOK'
  <2>1. /\ walk' \subseteq walk /\ UNCHANGED <<phase, touched, files>>
        /\ phase \notin {"down", "wait"}
    BY <1>13 DEF OldVisit, WalkFile, Walking
  <2> QED
    BY <2>1
<1>14. ASSUME NEW d \in Dir, WalkDir(d)
       PROVE  MainOK'
  <2>1. phase = "new" /\ UNCHANGED <<phase, touched, files>>
    BY <1>14 DEF WalkDir
  <2> QED
    BY <2>1
<1> QED
  BY <1>1, <1>2, <1>3, <1>4, <1>5, <1>6, <1>7, <1>8, <1>9, <1>11, <1>12, <1>13, <1>14
     DEF Machine, Main, Watcher

\* Until the watcher runs it has nothing; then it covers every directory.
LEMMA WatcherStep ==
    ASSUME TypeOK, WatcherOK, User \/ Machine
    PROVE  WatcherOK'
<1> DEFINE Nothing == /\ watches = {} /\ wtodo = {} /\ wname = NoPath
                      /\ events = << >> /\ filech = << >>
           Covered(d) == \/ d \in watches
                         \/ wtodo \cap {d, Top} # {}
                         \/ InSeq([path |-> d, mask |-> "new"], events)
<1>0. /\ watches \subseteq dirs \cup {Top}
      /\ ~Running => Nothing
      /\ Running => \A d \in dirs \cup {Top} : Covered(d)
      /\ phase \in Phases /\ dirs \subseteq Dir
  BY DEF WatcherOK, WatchCovers, Running, TypeOK
<1>a. SUFFICES /\ watches' \subseteq dirs' \cup {Top}
               /\ ~Running' => Nothing'
               /\ Running' => \A d \in dirs' \cup {Top} : Covered(d)'
  BY DEF WatcherOK, WatchCovers, Running
<1> DEFINE Goal == /\ watches' \subseteq dirs' \cup {Top}
                   /\ ~Running' => Nothing'
                   /\ Running' => \A d \in dirs' \cup {Top} : Covered(d)'
<1>1. ASSUME User
      PROVE  Goal
  <2>1. UNCHANGED <<phase, wtodo, wname, filech>>
    BY <1>1, UserEffect
  <2>2. ASSUME NEW f \in File, (\E c \in Content : Write(f, c)) \/ Delete(f)
        PROVE  Goal
    <3>1. PICK k \in Mask : Notify(f, Parent[f], k)
      BY <2>2 DEF Write, Delete, Mask
    <3>2. watches' = watches /\ dirs' = dirs
      BY <2>2 DEF Write, Delete
    <3>3. \A y : InSeq(y, events) => InSeq(y, events')
      BY <3>1, NotifyType
    <3>4. watches = {} => events' = events
      BY <3>1 DEF Notify
    <3> QED
      BY <1>0, <2>1, <3>2, <3>3, <3>4 DEF Running
  <2>3. ASSUME NEW d \in Dir, MoveOut(d)
        PROVE  Goal
    <3>1. Notify(d, Top, "change") /\ watches' = watches \ {d} /\ dirs' = dirs \ {d}
      BY <2>3 DEF MoveOut
    <3>2. \A y : InSeq(y, events) => InSeq(y, events')
      BY <3>1, NotifyType DEF Mask
    <3>3. watches = {} => events' = events
      BY <3>1 DEF Notify
    <3> QED
      BY <1>0, <2>1, <3>1, <3>2, <3>3 DEF Running
  <2>4. ASSUME NEW d \in Dir,
               NEW new \in [{f \in File : Parent[f] = d} -> Content \cup {Gone}],
               MoveIn(d, new)
        PROVE  Goal
    <3>1. Notify(d, Top, "new") /\ watches' = watches /\ dirs' = dirs \cup {d}
      BY <2>4 DEF MoveIn
    <3>2. /\ \A y : InSeq(y, events) => InSeq(y, events')
          /\ Top \in watches => InSeq([path |-> d, mask |-> "new"], events')
      BY <3>1, NotifyType DEF Mask
    <3>3. watches = {} => events' = events
      BY <3>1 DEF Notify
    <3>4. ~InSeq([path |-> Top, mask |-> "new"], events)
      BY InSeqType DEF TypeOK, Event
    <3> QED
      BY <1>0, <2>1, <3>1, <3>2, <3>3, <3>4 DEF Running
  <2> QED
    BY <1>1, <2>2, <2>3, <2>4 DEF User
<1>2. ASSUME NEW d \in Dir \cup {Top}, AddWatch(d)
      PROVE  Goal
  <2>1. /\ d \in wtodo /\ Present(d)
        /\ watches' = watches \cup {d} /\ wtodo' = (wtodo \ {d}) \cup Entries(d)
        /\ UNCHANGED <<phase, dirs, wname, events, filech>>
    BY <1>2 DEF AddWatch, tree, main
  <2>2. d = Top => dirs \subseteq wtodo'
    BY <2>1 DEF Entries
  <2> QED
    BY <1>0, <2>1, <2>2 DEF Running, Present
<1>3. ASSUME NEW f \in File, SendWalked(f)
      PROVE  Goal
  <2>1. /\ f \in wtodo /\ wtodo' = wtodo \ {f}
        /\ UNCHANGED <<phase, dirs, watches, wname, events>>
    BY <1>3 DEF SendWalked, tree, main
  <2> QED
    BY <1>0, <2>1 DEF Running
<1>4. ASSUME ReadEvent
      PROVE  Goal
  <2>1. /\ events # << >> /\ wtodo = {} /\ events' = Tail(events)
        /\ wtodo' = IF Head(events).mask = "new" /\ Head(events).path \in dirs
                      THEN {Head(events).path} ELSE {}
        /\ UNCHANGED <<phase, dirs, watches, filech>>
    BY <1>4 DEF ReadEvent, NextEvent, tree, main
  <2>2. \A y : InSeq(y, events) => InSeq(y, events') \/ y = Head(events)
    BY <2>1, InTail DEF TypeOK
  <2>3. ASSUME NEW d \in dirs \cup {Top}, Covered(d)
        PROVE  Covered(d)'
    <3>1. CASE d \in watches
      BY <2>1, <3>1
    <3>2. CASE InSeq([path |-> d, mask |-> "new"], events)
      <4>1. CASE [path |-> d, mask |-> "new"] = Head(events)
        <5>1. Head(events).path = d /\ Head(events).mask = "new"
          BY <4>1
        <5>2. d # Top
          BY <3>2, InSeqType DEF TypeOK, Event
        <5> QED
          BY <2>1, <5>1, <5>2
      <4>2. CASE [path |-> d, mask |-> "new"] # Head(events)
        BY <2>2, <3>2, <4>2
      <4> QED
        BY <4>1, <4>2
    <3> QED
      BY <2>1, <2>3, <3>1, <3>2
  <2> QED
    BY <1>0, <2>1, <2>3 DEF Running
<1>5. ASSUME SendName
      PROVE  Goal
  BY <1>0, <1>5 DEF SendName, tree, main, Running
<1>6. ASSUME WatchFails \/ Crash
      PROVE  Goal
  BY <1>6 DEF WatchFails, Crash, Die, Running
<1>7. ASSUME NewDone
      PROVE  Goal
  <2>1. /\ ~Running /\ Running' /\ wtodo' = {Top}
        /\ UNCHANGED <<watches, dirs>>
    BY <1>7 DEF NewDone, tree, Running
  <2> QED
    BY <1>0, <2>1
<1>8. ASSUME \/ Start \/ OldDone \/ DrainDone \/ StartCycle \/ CycleDone
             \/ ReadFile \/ Upload \/ PutRefused
             \/ \E f \in File : OldVisit(f) \/ WalkFile(f)
             \/ \E d \in Dir : WalkDir(d)
             \/ \E p \in File \cup Dir : CycleVisit(p)
      PROVE  Goal
  <2>1. UNCHANGED <<dirs, watches, wtodo, wname, events, filech>>
    BY <1>8 DEF Start, OldDone, DrainDone, StartCycle, CycleDone, ReadFile, Upload,
                PutRefused, OldVisit, WalkFile, WalkDir, CycleVisit, tree, watcher
  <2>2. Running' = Running
    BY <1>8 DEF Start, OldDone, DrainDone, StartCycle, CycleDone, ReadFile, Upload,
                PutRefused, OldVisit, WalkFile, WalkDir, CycleVisit, Running
  <2> QED
    BY <1>0, <2>1, <2>2
<1>9. ASSUME DrainVisit \/ Receive
      PROVE  Goal
  <2>1. UNCHANGED <<dirs, watches, wtodo, wname, events, phase>> /\ Running
    BY <1>9 DEF DrainVisit, Receive, tree, watcher, Running
  <2> QED
    BY <1>0, <2>1 DEF Running
<1> QED
  BY <1>1, <1>2, <1>3, <1>4, <1>5, <1>6, <1>7, <1>8, <1>9 DEF Machine, Main, Watcher

-----------------------------------------------------------------------------
(***************************************************************************)
(* The argument that the news of a change is never dropped.  A step of     *)
(* the user makes news, one of the watcher passes it on, and a visit of    *)
(* the main goroutine uses it up; each has a lemma.                        *)
(***************************************************************************)
USE NamesAssumption, ContentAssumption, BoundsAssumption

\* A step that changes nothing of f but possibly the record of its absence.
Same(f) == /\ Exists(f)' = Exists(f)
           /\ Exists(f) => disk'[f] = disk[f]

\* A path that is on its way stays so.
Kept == \A p \in File \cup Dir \cup {Top} : Coming(p) => Coming(p)'

\* The names of a file are paths, and it has no other than its directory.
LEMMA NamesFacts ==
    ASSUME TypeOK, NEW f \in File
    PROVE  /\ f \in Names(f)
           /\ Names(f) \subseteq {f, Parent[f]}
           /\ Parent[f] \in Dir \cup {Top}
           /\ Parent[f] \notin File
           /\ NoPath \notin Names(f)
  BY DEF Names

\* Where the disk has not changed, Drive is or is not right as before.
LEMMA SameSync ==
    ASSUME TypeOK, TypeOK', NEW f \in File, Same(f), drive' = drive
    PROVE  /\ Wanted(f)' = Wanted(f)
           /\ InSync(f)' = InSync(f)
           /\ disk'[f].c = disk[f].c
<1>1. disk'[f].c = disk[f].c
  BY DEF Same, Exists
<1>2. Wanted(f)' = Wanted(f)
  BY <1>1 DEF Wanted
<1> QED
  BY <1>1, <1>2 DEF InSync

\* News that is ahead of the main goroutine is news it has in hand.
LEMMA AheadPending ==
    ASSUME NEW f \in File, Ahead(f)
    PROVE  Pending(f)
  BY DEF Ahead, Pending, Announced, Received, Undiscovered

-----------------------------------------------------------------------------
(* The user.                                                               *)

\* Before the main loop is entered: a file that is there, and that the scan,
\* the walk of the watcher or an event leads to with an entry that tells of it.
Found(f) == /\ phase \in Booting /\ Exists(f)
            /\ Fresh(f) /\ job.f # f /\ Pending(f)

\* A change is on its way, or explained; what has not changed keeps its
\* news, unless its directory has come back without it.
LEMMA UserNews ==
    ASSUME TypeOK, DiskOK, TimesOK, WatcherOK, User
    PROVE  /\ Kept
           /\ \A f \in File :
                \/ Ahead(f)' \/ Excused(f)' \/ Found(f)'
                \/ phase = "down" /\ Exists(f)'
                \/ Same(f) /\ missed'[f] = missed[f] /\ Names(f) \subseteq Names(f)'
                \/ Same(f) /\ ~Exists(f) /\ Clean(f)'
<1>0. UNCHANGED <<drive, phase, touched, walk, job, files, wtodo, wname, filech>>
  BY UserEffect
<1>1. phase \in Phases /\ (Steady \/ phase = "down" \/ phase \in Booting)
  BY DEF TypeOK, Phases, Steady, Booting
<1>2. ASSUME NEW p \in File \cup Dir, NEW d, NEW k \in Mask, Notify(p, d, k)
      PROVE  /\ Kept
             /\ d \in watches => Coming(p)'
  BY <1>0, <1>2, NotifyType DEF Kept, Coming
<1>3. ASSUME NEW f \in File, Steady, Exists(f)', Parent[f] \in dirs \cup {Top},
             Parent[f] \notin watches, Kept
      PROVE  Ahead(f)'
  <2>1. \/ wtodo \cap {Parent[f], Top} # {}
        \/ InSeq([path |-> Parent[f], mask |-> "new"], events)
    BY <1>3 DEF WatcherOK, WatchCovers, Steady
  <2>2. CASE wtodo \cap {Parent[f], Top} # {}
    BY <1>0, <1>3, <2>2 DEF Ahead, Steady
  <2>3. CASE InSeq([path |-> Parent[f], mask |-> "new"], events)
    <3>1. Coming(Parent[f])'
      BY <1>3, <2>3 DEF Coming, Kept, Mask
    <3> QED
      BY <1>0, <1>3, <3>1 DEF Ahead, Steady, Names
  <2> QED
    BY <2>1, <2>2, <2>3
<1>b. ASSUME NEW f \in File, phase \in Booting, Exists(f)', Kept,
             Told(f), job.f # f,
             \/ phase # "drain" \/ wtodo \cap {Parent[f], Top} # {}
             \/ Coming(f)' \/ Coming(Parent[f])'
             \/ Parent[f] \in (dirs \cup {Top}) \ watches
      PROVE  Found(f)'
  <2>1. Fresh(f)'
    <3>1. files'[f] = files[f] /\ Listing(f)' = Listing(f) /\ Exists(f)'
      BY <1>0, <1>b DEF Listing
    <3> QED
      BY <1>b, <3>1 DEF Told, Fresh, NeedsTrashing
  <2>2. CASE phase # "drain"
    <3>1. Undiscovered(f)'
      BY <1>0, <1>b, <2>2 DEF Undiscovered, Booting
    <3> QED
      BY <1>0, <1>b, <2>1, <3>1 DEF Found, Pending
  <2>3. CASE Coming(f)' \/ Coming(Parent[f])'
    <3>1. Announced(f)'
      BY <1>b, <2>3 DEF Announced, Names
    <3> QED
      BY <1>0, <1>b, <2>1, <3>1 DEF Found, Pending
  <2>4. CASE wtodo \cap {Parent[f], Top} # {}
    <3>1. Undiscovered(f)'
      BY <1>0, <1>b, <2>4 DEF Undiscovered
    <3> QED
      BY <1>0, <1>b, <2>1, <3>1 DEF Found, Pending
  <2>5. CASE phase = "drain" /\ Parent[f] \in (dirs \cup {Top}) \ watches
    <3>1. \/ wtodo \cap {Parent[f], Top} # {}
          \/ InSeq([path |-> Parent[f], mask |-> "new"], events)
      BY <2>5 DEF WatcherOK, WatchCovers
    <3>2. Coming(Parent[f]) => Coming(Parent[f])'
      BY <1>b DEF Kept
    <3> QED
      BY <2>3, <2>4, <3>1, <3>2 DEF Coming, Mask
  <2> QED
    BY <1>b, <2>2, <2>3, <2>4, <2>5
<1>c. ASSUME NEW f \in File, phase \in Booting, missed'[f] = Unread(f)
      PROVE  Excused(f)' \/ (Told(f) /\ job.f # f)
  BY <1>c DEF Excused, Unread
<1>4. ASSUME NEW f \in File, Coming(f)', Steady
      PROVE  Ahead(f)'
  BY <1>0, <1>4 DEF Ahead, Steady, Names
<1>5. ASSUME NEW f \in File, NEW c \in Content, Write(f, c), NEW g \in File
      PROVE  /\ Kept
             /\ \/ Ahead(g)' \/ Excused(g)' \/ Found(g)'
                \/ phase = "down" /\ Exists(g)'
                \/ Same(g) /\ missed'[g] = missed[g] /\ Names(g) \subseteq Names(g)'
  <2>1. PICK k \in Mask : Notify(f, Parent[f], k)
    BY <1>5 DEF Write, Mask
  <2>2. Kept /\ (Parent[f] \in watches => Coming(f)')
    BY <1>2, <2>1
  <2>3. /\ \A h \in File \ {f} : disk'[h] = disk[h] /\ missed'[h] = missed[h]
        /\ Exists(f)' /\ missed'[f] = Unread(f) /\ dirs' = dirs
        /\ Present(Parent[f])
    BY <1>5 DEF Write, TypeOK, Exists
  <2>4. CASE g # f
    BY <2>2, <2>3, <2>4 DEF Same, Exists, Names
  <2>5. CASE g = f /\ Steady
    BY <1>3, <1>4, <2>2, <2>3, <2>5 DEF Present
  <2>6. CASE g = f /\ phase \in Booting
    <3>1. Parent[f] \in dirs \cup {Top}
      BY <2>3 DEF Present
    <3>2. Told(f) /\ job.f # f => Found(f)'
      BY <1>b, <2>2, <2>3, <2>6, <3>1
    <3> QED
      BY <1>c, <2>2, <2>3, <2>6, <3>2
  <2> QED
    BY <1>1, <2>2, <2>3, <2>4, <2>5, <2>6
<1>6. ASSUME NEW f \in File, Delete(f), NEW g \in File
      PROVE  /\ Kept
             /\ \/ Ahead(g)' \/ Excused(g)'
                \/ Same(g) /\ missed'[g] = missed[g] /\ Names(g) \subseteq Names(g)'
  <2>1. Notify(f, Parent[f], "change")
    BY <1>6 DEF Delete
  <2>2. Kept /\ (Parent[f] \in watches => Coming(f)')
    BY <1>2, <2>1 DEF Mask
  <2>3. /\ \A h \in File \ {f} : disk'[h] = disk[h] /\ missed'[h] = missed[h]
        /\ missed'[f] = Unseen(Parent[f]) /\ dirs' = dirs
    BY <1>6 DEF Delete, TypeOK
  <2>4. CASE g # f
    BY <2>2, <2>3, <2>4 DEF Same, Exists, Names
  <2>5. CASE g = f /\ Parent[f] \in watches /\ Steady
    BY <1>4, <2>2, <2>5
  <2>6. CASE g = f /\ (Parent[f] \notin watches \/ ~Steady)
    BY <1>1, <2>2, <2>3, <2>6 DEF Excused, Unseen, Steady
  <2> QED
    BY <2>4, <2>5, <2>6
<1>7. ASSUME NEW d \in Dir, MoveOut(d), NEW g \in File
      PROVE  /\ Kept
             /\ \/ Ahead(g)' \/ Excused(g)'
                \/ Same(g) /\ missed'[g] = missed[g] /\ Names(g) \subseteq Names(g)'
  <2>1. Notify(d, Top, "change")
    BY <1>7 DEF MoveOut
  <2>2. Kept /\ (Top \in watches => Coming(d)')
    BY <1>2, <2>1 DEF Mask
  <2>3. /\ disk'[g] = IF Parent[g] = d THEN Absent ELSE disk[g]
        /\ missed'[g] = IF Parent[g] = d /\ Exists(g) THEN Unseen(Top) ELSE missed[g]
        /\ dirs' = dirs \ {d}
    BY <1>7 DEF MoveOut
  <2>4. CASE ~(Parent[g] = d /\ Exists(g))
    BY <2>2, <2>3, <2>4 DEF Same, Exists, Names, Absent
  <2>5. CASE Parent[g] = d /\ Exists(g) /\ Top \in watches /\ Steady
    BY <1>0, <2>2, <2>3, <2>5 DEF Ahead, Steady, Names
  <2>6. CASE Parent[g] = d /\ Exists(g) /\ (Top \notin watches \/ ~Steady)
    BY <1>1, <2>2, <2>3, <2>6 DEF Excused, Unseen, Steady
  <2> QED
    BY <2>4, <2>5, <2>6
<1>8. ASSUME NEW d \in Dir,
             NEW new \in [{f \in File : Parent[f] = d} -> Content \cup {Gone}],
             MoveIn(d, new), NEW g \in File
      PROVE  /\ Kept
             /\ \/ Ahead(g)' \/ Excused(g)' \/ Found(g)'
                \/ phase = "down" /\ Exists(g)'
                \/ Same(g) /\ missed'[g] = missed[g] /\ Names(g) \subseteq Names(g)'
                \/ Same(g) /\ ~Exists(g) /\ Clean(g)'
  <2>1. Notify(d, Top, "new")
    BY <1>8 DEF MoveIn
  <2>2. Kept /\ (Top \in watches => Coming(d)')
    BY <1>2, <2>1 DEF Mask
  <2>3. /\ d \notin dirs /\ dirs' = dirs \cup {d}
        /\ disk'[g] = IF Parent[g] = d /\ new[g] # Gone
                        THEN [c |-> new[g], m |-> clock + 1] ELSE disk[g]
        /\ missed'[g] = CASE Parent[g] # d -> missed[g]
                          [] Parent[g] = d /\ new[g] # Gone -> Unread(g)
                          [] OTHER -> IF missed[g] = "no" /\ ~Clean(g)
                                        THEN "swapped" ELSE missed[g]
    BY <1>8 DEF MoveIn
  <2>4. CASE Parent[g] # d
    BY <2>2, <2>3, <2>4 DEF Same, Exists, Names
  <2>5. CASE Parent[g] = d /\ new[g] # Gone
    <3>1. disk'[g] = [c |-> new[g], m |-> clock + 1] /\ missed'[g] = Unread(g)
      BY <2>3, <2>5, Zenon
    <3>2. Exists(g)'
      BY <2>5, <3>1 DEF Exists
    <3>3. CASE Steady /\ Top \in watches
      BY <1>0, <2>2, <2>5, <3>2, <3>3 DEF Ahead, Steady, Names
    <3>4. CASE Steady /\ Top \notin watches
      <4>1. ~InSeq([path |-> Top, mask |-> "new"], events)
        BY InSeqType DEF TypeOK, Event
      <4>2. Top \in wtodo
        BY <3>4, <4>1 DEF WatcherOK, WatchCovers, Steady
      <4> QED
        BY <1>0, <2>2, <3>2, <3>4, <4>2 DEF Ahead, Steady
    <3>5. CASE phase \in Booting
      <4>1. ~InSeq([path |-> Top, mask |-> "new"], events)
        BY InSeqType DEF TypeOK, Event
      <4>2. ASSUME Told(g), job.f # g
                PROVE  Found(g)'
        <5>1. Top \in watches => Coming(Parent[g])'
          BY <2>2, <2>5
        <5>2. phase = "drain" /\ Top \notin watches => Top \in wtodo
          BY <4>1 DEF WatcherOK, WatchCovers
        <5>3. \/ phase # "drain" \/ wtodo \cap {Parent[g], Top} # {}
              \/ Coming(g)' \/ Coming(Parent[g])'
              \/ Parent[g] \in (dirs \cup {Top}) \ watches
          BY <5>1, <5>2
        <5> QED
          BY <1>b, <2>2, <3>2, <3>5, <4>2, <5>3, Zenon
      <4>3. Excused(g)' \/ (Told(g) /\ job.f # g)
        BY <1>c, <3>1, <3>5, Zenon
      <4> QED
        BY <2>2, <4>2, <4>3
    <3> QED
      BY <1>1, <2>2, <3>2, <3>3, <3>4, <3>5
  <2>6. CASE Parent[g] = d /\ new[g] = Gone
    <3>1. disk'[g] = disk[g]
      BY <2>3, <2>6
    <3>2. missed'[g] = IF missed[g] = "no" /\ ~Clean(g) THEN "swapped" ELSE missed[g]
      BY <2>3, <2>6, Zenon
    <3>3. ~Exists(g)
      BY <2>3, <2>6 DEF DiskOK, Present
    <3>4. Clean(g)' = Clean(g) /\ Same(g)
      BY <1>0, <3>1 DEF Clean, InSync, Wanted, Same, Exists
    <3> QED
      BY <2>2, <3>2, <3>3, <3>4 DEF Excused
  <2> QED
    BY <2>4, <2>5, <2>6
<1>9. Kept
  <2>1. \E p \in File \cup Dir, k \in Mask : \E d \in Dir \cup {Top} : Notify(p, d, k)
    BY DEF User, Write, Delete, MoveOut, MoveIn, Mask
  <2> QED
    BY <1>2, <2>1
<1>10. ASSUME NEW g \in File
       PROVE  \/ Ahead(g)' \/ Excused(g)' \/ Found(g)'
              \/ phase = "down" /\ Exists(g)'
              \/ Same(g) /\ missed'[g] = missed[g] /\ Names(g) \subseteq Names(g)'
              \/ Same(g) /\ ~Exists(g) /\ Clean(g)'
  BY <1>5, <1>6, <1>7, <1>8 DEF User
<1> QED
  BY <1>9, <1>10

\* A step of the user breaks no part of the invariant.
LEMMA UserSafe ==
    ASSUME IInv, TypeOK', DiskOK', User
    PROVE  StaleOK' /\ JobStaleOK' /\ BootOK' /\ NoLostChange'
<1> USE DEF IInv
<1>0. UNCHANGED <<drive, phase, touched, walk, job, files, wtodo, wname, filech>>
  BY UserEffect
<1>1. Kept /\ phase \in Phases
  BY UserNews DEF TypeOK
<1>2. ASSUME NEW f \in File, Names(f) \subseteq Names(f)', Same(f)
      PROVE  (Ahead(f) => Ahead(f)') /\ (Pending(f) => Pending(f)')
  <2>1. \A p \in Names(f) : (Coming(p) => Coming(p)') /\ (Received(p) => Received(p)')
    BY <1>0, <1>1, NamesFacts DEF Kept, Received
  <2>2. Exists(f)' = Exists(f)
    BY <1>2 DEF Same
  <2>3. Ahead(f) => Ahead(f)'
    BY <1>0, <1>2, <2>1, <2>2 DEF Ahead, Steady
  <2>4. Pending(f) => Pending(f)'
    BY <1>0, <1>2, <2>1, <2>2 DEF Pending, Announced, Undiscovered
  <2> QED
    BY <2>3, <2>4
<1>3. ASSUME NEW f \in File
      PROVE  /\ phase # "down" =>
                  (Fresh(f) \/ InSync(f) \/ Ahead(f) \/ Excused(f))'
             /\ job.at # "idle" /\ job.f = f =>
                  (JobMatches \/ Ahead(f) \/ Excused(f))'
             /\ ~Steady /\ ~Exists(f)' => (InSync(f) \/ Excused(f))'
             /\ (InSync(f) \/ Pending(f) \/ disk[f].c \in Refused \/ missed[f] # "no")'
  <2>1. CASE Ahead(f)'
    <3>1. Pending(f)'
      BY <2>1 DEF Ahead, Pending, Announced, Received, Undiscovered
    <3> QED
      BY <1>0, <2>1, <3>1 DEF Ahead, Steady
  <2>2. CASE Excused(f)'
    BY <2>2 DEF Excused
  <2>3. CASE phase = "down" /\ Exists(f)'
    BY <1>0, <2>3 DEF Pending, Undiscovered, MainOK, Idle
  <2>4. CASE Same(f) /\ missed'[f] = missed[f] /\ Names(f) \subseteq Names(f)'
    <3>1. (Ahead(f) => Ahead(f)') /\ (Pending(f) => Pending(f)')
      BY <1>2, <2>4
    <3>2. InSync(f)' = InSync(f) /\ disk'[f].c = disk[f].c
      BY <1>0, <2>4, SameSync
    <3>3. Fresh(f)' = Fresh(f) /\ Excused(f)' = Excused(f)
      BY <1>0, <2>4 DEF Fresh, Listing, NeedsTrashing, Excused, Same
    <3>4. job.f = f => JobMatches' = JobMatches
      BY <1>0, <2>4 DEF JobMatches, NeedsTrashing, Same
    <3> QED
      BY <1>0, <2>4, <3>1, <3>2, <3>3, <3>4
         DEF StaleOK, JobStaleOK, BootOK, NoLostChange, Same, Excused
  <2>5. CASE Same(f) /\ ~Exists(f) /\ Clean(f)'
    BY <1>0, <2>5 DEF Clean
  <2>6. CASE Found(f)'
    BY <1>0, <2>6 DEF Found
  <2> QED
    BY <2>1, <2>2, <2>3, <2>4, <2>5, <2>6, UserNews
<1>4. StaleOK'
  BY <1>0, <1>3 DEF StaleOK
<1>5. JobStaleOK'
  BY <1>0, <1>3 DEF JobStaleOK, JobOK
<1>6. BootOK'
  BY <1>0, <1>3 DEF BootOK, Steady
<1>7. NoLostChange'
  BY <1>3 DEF NoLostChange
<1> QED
  BY <1>4, <1>5, <1>6, <1>7

-----------------------------------------------------------------------------
(* The watcher.                                                            *)

\* The directory of a file that is there, or the root, is to be walked.
ToWalk(f) == f \in wtodo \/ (Exists(f) /\ wtodo \cap {Parent[f], Top} # {})

\* The watcher passes the news on.
LEMMA WatcherNews ==
    ASSUME TypeOK, DiskOK, NEW f \in File,
           \/ \E d \in Dir \cup {Top} : AddWatch(d)
           \/ \E g \in File : SendWalked(g)
           \/ ReadEvent \/ SendName
    PROVE  /\ \A p \in Names(f) : Coming(p) => Coming(p)'
           /\ ToWalk(f) => ToWalk(f)' \/ Coming(f)'
<1> USE DEF tree, main
<1>0. NoPath \notin Names(f) /\ Parent[f] \notin File
  BY NamesFacts
<1>1. ASSUME NEW d \in Dir \cup {Top}, AddWatch(d)
      PROVE  /\ \A p \in Names(f) : Coming(p) => Coming(p)'
             /\ ToWalk(f) => ToWalk(f)'
  <2>1. /\ wtodo' = (wtodo \ {d}) \cup Entries(d)
        /\ UNCHANGED <<disk, dirs, events, wname, filech>>
    BY <1>1 DEF AddWatch
  <2>2. ASSUME Exists(f), d \in {Parent[f], Top}
        PROVE  f \in Entries(d) \/ Parent[f] \in Entries(d)
    BY <2>2 DEF Entries, DiskOK, Present
  <2> QED
    BY <2>1, <2>2 DEF Coming, ToWalk, Exists
<1>2. ASSUME NEW g \in File, SendWalked(g)
      PROVE  /\ \A p \in Names(f) : Coming(p) => Coming(p)'
             /\ ToWalk(f) => ToWalk(f)' \/ Coming(f)'
  <2>1. /\ wtodo' = wtodo \ {g} /\ filech' = Append(filech, g)
        /\ UNCHANGED <<disk, events, wname>>
        /\ filech \in Seq(File \cup Dir) /\ g \in File \cup Dir
    BY <1>2 DEF SendWalked, TypeOK
  <2>2. \A y : InSeq(y, Append(filech, g)) <=> (InSeq(y, filech) \/ y = g)
    BY <2>1, InAppend
  <2> QED
    BY <1>0, <2>1, <2>2 DEF Coming, ToWalk, Exists
<1>3. CASE ReadEvent
  <2>1. /\ wtodo = {} /\ wname = NoPath /\ events # << >>
        /\ events' = Tail(events) /\ wname' = Head(events).path
        /\ filech' = filech
    BY <1>3 DEF ReadEvent, NextEvent
  <2>2. \A y : InSeq(y, events) => InSeq(y, events') \/ y = Head(events)
    BY <2>1, InTail DEF TypeOK
  <2>3. ASSUME NEW p, NEW k \in Mask, [path |-> p, mask |-> k] = Head(events)
        PROVE  wname' = p
    <3>1. [path |-> p, mask |-> k].path = p
      OBVIOUS
    <3> QED
      BY <2>1, <2>3, <3>1
  <2> QED
    BY <1>0, <2>1, <2>2, <2>3 DEF Coming, ToWalk
<1>4. CASE SendName
  <2>1. /\ filech' = Append(filech, wname) /\ wname # NoPath
        /\ UNCHANGED <<disk, events, wtodo>>
        /\ filech \in Seq(File \cup Dir) /\ wname \in File \cup Dir
    BY <1>4 DEF SendName, TypeOK
  <2>2. \A y : InSeq(y, Append(filech, wname)) <=> (InSeq(y, filech) \/ y = wname)
    BY <2>1, InAppend
  <2> QED
    BY <1>0, <2>1, <2>2 DEF Coming, ToWalk, Exists
<1> QED
  BY <1>1, <1>2, <1>3, <1>4

\* The next run finds everything that is there, and what is gone is recorded.
LEMMA DeathSafe ==
    ASSUME Die
    PROVE  StaleOK' /\ JobStaleOK' /\ BootOK' /\ NoLostChange'
<1>1. /\ phase' = "down" /\ job' = Idle /\ disk' = disk
      /\ \A f \in File : ~Exists(f) => InSync(f)' \/ missed'[f] # "no"
  BY DEF Die, tree
<1>2. \A f \in File : Exists(f)' = Exists(f)
  BY <1>1 DEF Exists
<1>3. StaleOK' /\ JobStaleOK'
  BY <1>1 DEF StaleOK, JobStaleOK, Idle
<1>4. BootOK'
  BY <1>1, <1>2 DEF BootOK, Excused
<1>5. NoLostChange'
  BY <1>1, <1>2 DEF NoLostChange, Pending, Undiscovered
<1> QED
  BY <1>3, <1>4, <1>5

\* Neither a step of the watcher nor the end of the process breaks a part of
\* the invariant.
LEMMA WatcherSafe ==
    ASSUME IInv, TypeOK', Watcher
    PROVE  StaleOK' /\ JobStaleOK' /\ BootOK' /\ NoLostChange'
<1> USE DEF IInv
<1>1. CASE \/ \E d \in Dir \cup {Top} : AddWatch(d)
           \/ \E g \in File : SendWalked(g)
           \/ ReadEvent \/ SendName
  <2>1. UNCHANGED <<disk, dirs, drive, files, phase, touched, walk, job, missed>>
    BY <1>1 DEF AddWatch, SendWalked, ReadEvent, SendName, tree, main
  <2>2. ASSUME NEW f \in File
        PROVE  (Ahead(f) => Ahead(f)') /\ (Pending(f) => Pending(f)')
    <3>1. /\ \A p \in Names(f) : Coming(p) => Coming(p)'
          /\ ToWalk(f) => ToWalk(f)' \/ Coming(f)'
          /\ Names(f)' = Names(f) /\ f \in Names(f) /\ Exists(f)' = Exists(f)
      BY <1>1, <2>1, WatcherNews DEF Names, Exists
    <3>2. Ahead(f) => Ahead(f)'
      BY <2>1, <3>1 DEF Ahead, Steady, ToWalk
    <3>3. Pending(f) => Pending(f)'
      BY <2>1, <3>1 DEF Pending, Announced, Received, Undiscovered, ToWalk
    <3> QED
      BY <3>2, <3>3
  <2>3. \A f \in File : InSync(f)' = InSync(f) /\ Fresh(f)' = Fresh(f)
    BY <2>1 DEF InSync, Wanted, Fresh, Listing, NeedsTrashing, Exists
  <2>4. JobMatches' = JobMatches
    BY <2>1 DEF JobMatches, NeedsTrashing, Exists
  <2>5. StaleOK'
    BY <2>1, <2>2, <2>3 DEF StaleOK, Excused
  <2>6. JobStaleOK'
    BY <2>1, <2>2, <2>4 DEF JobStaleOK, Excused, JobOK
  <2>7. BootOK'
    BY <2>1, <2>3 DEF BootOK, Excused, Steady, Exists
  <2>8. NoLostChange'
    BY <2>1, <2>2, <2>3 DEF NoLostChange
  <2> QED
    BY <2>5, <2>6, <2>7, <2>8
<1>2. CASE WatchFails
  BY <1>2, DeathSafe DEF WatchFails
<1> QED
  BY <1>1, <1>2 DEF Watcher

-----------------------------------------------------------------------------
(* The main goroutine.                                                     *)

\* After the answers, gs.files tells of a file, or nothing of one that is to
\* be uploaded, or the file is right on Drive, or what they left out is
\* recorded.
LEMMA ListedFresh ==
    ASSUME TypeOK, ListFiles, UNCHANGED <<disk, drive>>, NEW f \in File
    PROVE  (Fresh(f) \/ InSync(f) \/ Excused(f))'
<1>1. /\ Listing(f)' = Listing(f) /\ NeedsTrashing(f)' = NeedsTrashing(f)
      /\ InSync(f)' = InSync(f)
  BY DEF Listing, NeedsTrashing, Exists, InSync, Wanted
<1>2. CASE files'[f] \in Listing(f)
  BY <1>1, <1>2 DEF Fresh
<1>3. CASE files'[f] \notin Listing(f)
  BY <1>1, <1>3, ListFilesType DEF Fresh, Excused
<1> QED
  BY <1>2, <1>3

\* What a listing says of a file for which Drive has nothing live.
LEMMA NothingLive ==
    ASSUME TypeOK, NEW f \in File, Fresh(f), ~Listed(f), Wanted(f) = Gone
    PROVE  InSync(f)
<1>0. files[f] \in Listing(f)
  BY DEF Fresh, NeedsTrashing, Wanted, Exists
<1>1. CASE drive[f] = << >>
  BY <1>1 DEF InSync
<1>2. CASE drive[f] # << >>
  <2>1. PICK i \in DOMAIN drive[f] : files[f] = Metadata(drive[f][i], i)
    BY <1>0, <1>2 DEF Listing
  <2>2. drive[f][i].c = Gone
    BY <2>1 DEF Metadata, Listed
  <2> QED
    BY <1>2, <2>2 DEF InSync
<1> QED
  BY <1>1, <1>2

\* A visit of a file settles it, or leaves it in hand.
LEMMA VisitSettles ==
    ASSUME IInv, NEW f \in File, SavePath(f), phase # "down"
    PROVE  \/ InSync(f) \/ Ahead(f) \/ Excused(f) \/ disk[f].c \in Refused
           \/ job'.f = f
<1> USE DEF IInv, Exists, Listed
<1>1. SUFFICES ASSUME ~Ahead(f), ~Excused(f), ~InSync(f)
               PROVE  disk[f].c \in Refused \/ job'.f = f
  OBVIOUS
<1>2. Fresh(f)
  BY <1>1 DEF StaleOK
<1>3. ~(~Listed(f) /\ Wanted(f) = Gone)
  BY <1>1, <1>2, NothingLive
<1>4. files[f].st = "none" \/ files[f].id # 0
  <2>1. files[f] = Blank \/ \E i \in DOMAIN drive[f] : files[f].id = i /\ i # 0
    BY <1>2, ListingFacts DEF Fresh
  <2> QED
    BY <2>1 DEF Blank
<1>5. ~Skipped(f)
  BY <1>3, <1>4 DEF Skipped, Wanted
<1>6. CASE NeedsTrashing(f)
  <2>1. job' = [at |-> "send", f |-> f, m |-> 0, c |-> Gone]
    BY <1>5, <1>6 DEF SavePath
  <2> QED
    BY <2>1
<1>7. CASE ~NeedsTrashing(f) /\ SameTime(f)
  <2>1. files[f].st # "trashed" /\ disk[f].m = files[f].m /\ disk[f].m > 0
        /\ Wanted(f) = disk[f].c
    BY <1>7 DEF NeedsTrashing, SameTime, DiskOK, Wanted
  <2>2. files[f].st = "live"
    BY <2>1 DEF CacheOK, Blank, TypeOK, Info
  <2>3. \E i \in DOMAIN drive[f] : drive[f][i].c = disk[f].c
    BY <1>7, <2>1, <2>2 DEF CacheOK, NeedsTrashing
  <2>4. drive[f] # << >>
    BY <2>3
  <2> QED
    BY <1>1, <2>1, <2>3, <2>4 DEF InSync
<1>8. CASE ~NeedsTrashing(f) /\ ~SameTime(f) /\ disk[f].c \notin Refused
  <2>1. job' = [at |-> IF disk[f].c \in Link THEN "readlink" ELSE "read",
                f |-> f, m |-> disk[f].m, c |-> Gone]
    BY <1>5, <1>8 DEF SavePath
  <2> QED
    BY <2>1
<1> QED
  BY <1>6, <1>7, <1>8

\* The job it leaves matches the disk.
LEMMA VisitMatches ==
    ASSUME NEW f \in File, SavePath(f), disk' = disk, job'.at # "idle"
    PROVE  JobMatches'
<1>1. CASE job' = Idle
  BY <1>1 DEF Idle
<1>2. CASE NeedsTrashing(f) /\ job' = [at |-> "send", f |-> f, m |-> 0, c |-> Gone]
  BY <1>2 DEF JobMatches, NeedsTrashing, Exists
<1>3. CASE /\ ~NeedsTrashing(f)
           /\ job' = [at |-> IF disk[f].c \in Link THEN "readlink" ELSE "read",
                      f |-> f, m |-> disk[f].m, c |-> Gone]
  BY <1>3 DEF JobMatches, NeedsTrashing, Exists
<1> QED
  BY <1>1, <1>2, <1>3 DEF SavePath

\* A file that gs.files does not know is on Drive or never was.
LEMMA UnknownSettled ==
    ASSUME IInv, NEW f \in File, ~Exists(f), files[f].st = "none", phase # "down"
    PROVE  InSync(f) \/ Ahead(f) \/ Excused(f)
<1>1. Wanted(f) = Gone
  BY DEF Wanted, Exists
<1> QED
  BY <1>1, NothingLive DEF IInv, StaleOK, Listed

\* Where nothing is read, listed or uploaded, the parts about gs.files and
\* the disk stay as they are, if the phase does or only enters the main loop.
LEMMA QuietSafe ==
    ASSUME IInv,
           UNCHANGED <<disk, dirs, drive, files, missed>>,
           job' = Idle \/ job' = job \/ (\E f \in File : SavePath(f)),
           phase # "down", Steady => Steady',
           \A f \in File : Ahead(f) => Ahead(f)'
    PROVE  StaleOK' /\ JobStaleOK' /\ BootOK'
<1>0. StaleOK /\ JobStaleOK /\ BootOK /\ JobOK
  BY DEF IInv
<1>1. \A f \in File : /\ InSync(f)' = InSync(f) /\ Fresh(f)' = Fresh(f)
                      /\ Excused(f)' = Excused(f) /\ Exists(f)' = Exists(f)
  BY DEF InSync, Wanted, Fresh, Listing, NeedsTrashing, Excused, Exists
<1>2. StaleOK' /\ BootOK'
  BY <1>0, <1>1 DEF StaleOK, BootOK
<1>3. JobStaleOK'
  <2>1. CASE job' = Idle
    BY <2>1 DEF JobStaleOK, Idle
  <2>2. CASE job' = job
    <3>1. JobMatches' = JobMatches
      BY <2>2 DEF JobMatches, NeedsTrashing, Exists
    <3> QED
      BY <1>0, <1>1, <2>2, <3>1 DEF JobStaleOK, JobOK
  <2>3. CASE \E f \in File : SavePath(f)
    BY <2>3, VisitMatches DEF JobStaleOK
  <2> QED
    BY <2>1, <2>2, <2>3
<1> QED
  BY <1>2, <1>3

\* A file that is still in hand where nothing on the disk or on Drive has
\* changed is one that no change is lost of.
LEMMA PendingSafe ==
    ASSUME IInv, UNCHANGED <<disk, drive>>,
           \A f \in File : missed[f] # "no" => missed'[f] # "no",
           \A f \in File : Pending(f) =>
               (InSync(f) \/ Pending(f)' \/ disk[f].c \in Refused \/ missed[f] # "no")
    PROVE  NoLostChange'
<1>1. \A f \in File : InSync(f)' = InSync(f)
  BY DEF InSync, Wanted
<1> QED
  BY <1>1 DEF NoLostChange, IInv

\* Until the main loop is entered it is enough to keep the files there are in
\* hand.
LEMMA BootPending ==
    ASSUME IInv, ~Steady, UNCHANGED <<disk, drive>>,
           \A f \in File : missed[f] # "no" => missed'[f] # "no",
           \A f \in File : Exists(f) /\ Pending(f) =>
               (InSync(f) \/ Pending(f)' \/ disk[f].c \in Refused \/ missed[f] # "no")
    PROVE  NoLostChange'
<1>1. \A f \in File : ~Exists(f) => InSync(f) \/ missed[f] # "no"
  BY DEF IInv, BootOK, Excused
<1> QED
  BY <1>1, PendingSafe

\* Ahead and what is coming do not depend on the job or the walk.
LEMMA StillAhead ==
    ASSUME UNCHANGED <<disk, dirs, wtodo, wname, events, filech>>
    PROVE  /\ \A f \in File : Names(f)' = Names(f) /\ Exists(f)' = Exists(f)
           /\ \A p \in File \cup Dir \cup {Top} : Coming(p)' = Coming(p)
           /\ phase' = phase /\ (phase = "wait" => touched \subseteq touched') =>
                \A f \in File : Ahead(f) => Ahead(f)'
<1>1. \A f \in File : Names(f)' = Names(f) /\ Exists(f)' = Exists(f)
  BY DEF Names, Exists
<1>2. \A p \in File \cup Dir \cup {Top} : Coming(p)' = Coming(p)
  BY DEF Coming
<1>3. ASSUME phase' = phase, phase = "wait" => touched \subseteq touched',
             NEW f \in File, Ahead(f)
      PROVE  Ahead(f)'
  <2>1. \A p \in Names(f) : Coming(p)' = Coming(p)
    BY <1>2 DEF Names
  <2> QED
    BY <1>1, <1>3, <2>1 DEF Ahead, Steady
<1> QED
  BY <1>1, <1>2, <1>3

\* A visit of a path settles every file it names, or takes it in hand.
LEMMA VisitNamed ==
    ASSUME IInv, NEW p \in File \cup Dir, Visit(p), phase # "down",
           NEW f \in File, p \in Names(f)
    PROVE  \/ InSync(f) \/ Ahead(f) \/ Excused(f) \/ disk[f].c \in Refused
           \/ job'.f = f \/ f \in walk'
<1>0. TypeOK /\ DiskOK
  BY DEF IInv
<1>1. CASE p \in File
  <2>1. p = f
    BY <1>0, <1>1, NamesFacts
  <2> QED
    BY <1>1, <2>1, VisitSettles DEF Visit
<1>2. CASE p \notin File
  <2>1. p = Parent[f]
    BY <1>0, <1>2, NamesFacts
  <2>2. CASE p \in dirs
    BY <1>2, <2>1, <2>2 DEF Visit, Names, Entries
  <2>3. CASE p \notin dirs
    <3>1. ~Exists(f)
      BY <1>0, <1>2, <2>1, <2>3 DEF DiskOK, Present
    <3>2. f \in walk' \/ files[f].st = "none"
      BY <1>2, <2>1, <2>3 DEF Visit
    <3> QED
      BY <3>1, <3>2, UnknownSettled
  <2> QED
    BY <2>2, <2>3
<1> QED
  BY <1>1, <1>2

\* The startup scans lose nothing.
LEMMA ScanSafe ==
    ASSUME IInv, TypeOK',
           \/ Start \/ OldDone \/ NewDone
           \/ \E f \in File : OldVisit(f)
           \/ \E d \in Dir : WalkDir(d)
    PROVE  StaleOK' /\ JobStaleOK' /\ BootOK' /\ NoLostChange'
<1> USE DEF tree, watcher
<1>0. /\ TypeOK /\ DiskOK /\ MainOK /\ WatcherOK /\ BootOK /\ NoLostChange
      /\ \A f \in File : Exists(f) => Present(Parent[f])
  BY DEF IInv, DiskOK
<1>1. CASE Start
  <2>1. /\ phase = "down" /\ phase' = "old" /\ job = Idle /\ job' = job
        /\ UNCHANGED <<disk, drive>>
        /\ \A f \in File : missed[f] # "no" => missed'[f] # "no"
    BY <1>0, <1>1, ListFilesType DEF Start, MainOK
  <2>2. \A f \in File : (Fresh(f) \/ InSync(f) \/ Excused(f))'
    BY <1>0, <1>1, ListedFresh DEF Start
  <2>3. StaleOK' /\ JobStaleOK'
    BY <2>1, <2>2 DEF StaleOK, JobStaleOK, Idle
  <2>4. \A f \in File : InSync(f)' = InSync(f) /\ Exists(f)' = Exists(f)
    BY <2>1 DEF InSync, Wanted, Exists
  <2>5. BootOK'
    BY <1>0, <2>1, <2>4 DEF BootOK, Steady, Excused
  <2>6. NoLostChange'
    BY <2>1, BootPending DEF Steady, Pending, Undiscovered, Exists
  <2> QED
    BY <2>3, <2>5, <2>6
<1>2. ASSUME NEW f \in File, OldVisit(f)
      PROVE  StaleOK' /\ JobStaleOK' /\ BootOK' /\ NoLostChange'
  <2>1. /\ phase = "old" /\ UNCHANGED <<disk, dirs, drive, phase, files, missed>>
        /\ job' = job \/ SavePath(f)
    BY <1>2 DEF OldVisit
  <2>2. StaleOK' /\ JobStaleOK' /\ BootOK'
    BY <2>1, QuietSafe DEF Ahead, Steady
  <2>3. NoLostChange'
    BY <2>1, BootPending DEF Steady, Pending, Undiscovered, Exists
  <2> QED
    BY <2>2, <2>3
<1>3. CASE OldDone
  <2>1. /\ phase = "old" /\ phase' = "new" /\ walk' = Entries(Top) /\ job' = job
        /\ UNCHANGED <<disk, dirs, drive, files, missed>>
    BY <1>3 DEF OldDone
  <2>2. StaleOK' /\ JobStaleOK' /\ BootOK'
    BY <2>1, QuietSafe DEF Ahead, Steady
  <2>3. ASSUME NEW f \in File, Exists(f)
        PROVE  \E p \in Names(f) : p \in walk'
    BY <1>0, <2>1, <2>3 DEF Entries, Present, Names
  <2>4. \A f \in File : Names(f)' = Names(f)
    BY <2>1 DEF Names, Exists
  <2>5. NoLostChange'
    BY <2>1, <2>3, <2>4, BootPending DEF Steady, Pending, Announced, Received
  <2> QED
    BY <2>2, <2>5
<1>4. CASE NewDone
  <2>1. /\ phase = "new" /\ phase' = "drain" /\ wtodo' = {Top} /\ job' = job
        /\ UNCHANGED <<disk, dirs, drive, files, missed>>
    BY <1>4 DEF NewDone
  <2>2. StaleOK' /\ JobStaleOK' /\ BootOK'
    BY <2>1, QuietSafe DEF Ahead, Steady
  <2>3. NoLostChange'
    BY <2>1, BootPending DEF Steady, Pending, Undiscovered, Exists
  <2> QED
    BY <2>2, <2>3
<1>5. ASSUME NEW d \in Dir, WalkDir(d)
      PROVE  StaleOK' /\ JobStaleOK' /\ BootOK' /\ NoLostChange'
  <2>1. /\ phase = "new" /\ walk' = (walk \ {d}) \cup Entries(d)
        /\ UNCHANGED <<disk, dirs, drive, files, missed, phase, job, touched,
                       wtodo, wname, events, filech>>
    BY <1>0, <1>5 DEF WalkDir, MainOK
  <2>2. StaleOK' /\ JobStaleOK' /\ BootOK'
    BY <2>1, QuietSafe DEF Ahead, Steady
  <2>3. ASSUME NEW f \in File, Exists(f), Pending(f)
        PROVE  Pending(f)'
    <3>1. /\ Names(f)' = Names(f) /\ Exists(f)' = Exists(f)
          /\ \A p \in Names(f) : Coming(p)' = Coming(p)
          /\ f \in Names(f)
      BY <2>1, NamesFacts DEF Names, Exists, Coming
    <3>2. CASE \E p \in Names(f) : p \in walk
      <4>1. PICK p \in Names(f) : p \in walk
        BY <3>2
      <4>2. CASE p = d
        <5>1. Parent[f] = d
          BY <1>0, <4>2, NamesFacts
        <5>2. f \in walk'
          BY <2>1, <2>3, <5>1 DEF Entries
        <5> QED
          BY <3>1, <5>2 DEF Pending, Announced, Received
      <4>3. CASE p # d
        BY <2>1, <3>1, <4>1, <4>3 DEF Pending, Announced, Received
      <4> QED
        BY <4>2, <4>3
    <3>3. CASE ~\E p \in Names(f) : p \in walk
      BY <2>1, <2>3, <3>1, <3>3 DEF Pending, Announced, Received, Undiscovered
    <3> QED
      BY <3>2, <3>3
  <2>4. NoLostChange'
    BY <2>1, <2>3, BootPending DEF Steady
  <2> QED
    BY <2>2, <2>4
<1> QED
  BY <1>1, <1>2, <1>3, <1>4, <1>5

\* The visits lose nothing: of the files of a walk, and of the paths received.
LEMMA VisitSafe ==
    ASSUME IInv,
           \/ \E f \in File : WalkFile(f)
           \/ DrainVisit
           \/ \E p \in File \cup Dir : CycleVisit(p)
    PROVE  StaleOK' /\ JobStaleOK' /\ BootOK' /\ NoLostChange'
<1> USE DEF tree, watcher
<1>0. TypeOK /\ DiskOK
  BY DEF IInv
<1>1. ASSUME NEW g \in File, WalkFile(g)
      PROVE  StaleOK' /\ JobStaleOK' /\ BootOK' /\ NoLostChange'
  <2>1. /\ phase \in {"new", "drain", "cycle"} /\ job = Idle /\ walk' = walk \ {g}
        /\ UNCHANGED <<disk, dirs, drive, phase, touched, files, missed, wtodo,
                       wname, events, filech>>
        /\ SavePath(g)
    BY <1>1 DEF WalkFile, Walking, Free
  <2>2. StaleOK' /\ JobStaleOK' /\ BootOK'
    BY <2>1, QuietSafe, StillAhead DEF Steady
  <2>3. ASSUME NEW f \in File, Pending(f)
        PROVE  \/ InSync(f) \/ Pending(f)' \/ disk[f].c \in Refused
               \/ missed[f] # "no"
    <3>1. /\ Names(f)' = Names(f) /\ Exists(f)' = Exists(f)
          /\ \A p \in Names(f) : Coming(p)' = Coming(p)
          /\ job.f # f
      BY <2>1 DEF Names, Exists, Coming, Idle
    <3>2. CASE f = g
      <4>1. \/ InSync(f) \/ Ahead(f) \/ Excused(f) \/ disk[f].c \in Refused
            \/ job'.f = f
        BY <2>1, <3>2, VisitSettles
      <4>2. Ahead(f) => Pending(f)'
        BY <2>1, StillAhead, AheadPending DEF Ahead, Steady, Pending, Announced,
           Received, Undiscovered
      <4> QED
        BY <4>1, <4>2 DEF Excused, Pending
    <3>3. CASE f # g
      <4>1. \A p \in Names(f) : Received(p) => Received(p)'
        BY <1>0, <2>1, <3>3, NamesFacts DEF Received
      <4> QED
        BY <2>1, <2>3, <3>1, <4>1 DEF Pending, Announced, Undiscovered
    <3> QED
      BY <3>2, <3>3
  <2> QED
    BY <2>1, <2>2, <2>3, PendingSafe
<1>2. ASSUME NEW p \in File \cup Dir, Visit(p), phase \in {"drain", "cycle"}, Free,
             walk = {}, UNCHANGED <<disk, dirs, drive, phase, files, missed, wtodo,
                                    wname, events>>,
             phase = "cycle" => filech' = filech,
             \A q : q # p => /\ q \in touched => q \in touched'
                             /\ InSeq(q, filech) => InSeq(q, filech')
      PROVE  StaleOK' /\ JobStaleOK' /\ BootOK' /\ NoLostChange'
  <2>1. \A f \in File : Ahead(f) => Ahead(f)'
    <3>1. CASE phase = "drain"
      BY <3>1 DEF Ahead, Steady
    <3>2. CASE phase = "cycle"
      BY <1>2, <3>2, StillAhead
    <3> QED
      BY <1>2, <3>1, <3>2
  <2>2. job' = job \/ \E f \in File : SavePath(f)
    BY <1>2 DEF Visit
  <2>3. StaleOK' /\ JobStaleOK' /\ BootOK'
    BY <1>2, <2>1, <2>2, QuietSafe DEF Steady
  <2>4. \A q \in File \cup Dir \cup {Top} :
           q # p => (Coming(q) => Coming(q)') /\ (Received(q) => Received(q)')
    <3>1. ASSUME NEW q, q # p, Coming(q)
          PROVE  Coming(q)'
      BY <1>2, <3>1 DEF Coming
    <3>2. ASSUME NEW q, q # p, Received(q)
          PROVE  Received(q)'
      BY <1>2, <3>2 DEF Received
    <3> QED
      BY <3>1, <3>2
  <2>5. ASSUME NEW f \in File, Pending(f)
        PROVE  \/ InSync(f) \/ Pending(f)' \/ disk[f].c \in Refused
               \/ missed[f] # "no"
    <3>1. Names(f)' = Names(f) /\ Exists(f)' = Exists(f) /\ job.f # f
      BY <1>2 DEF Names, Exists, Idle, Free
    <3>2. CASE p \in Names(f)
      <4>1. \/ InSync(f) \/ Ahead(f) \/ Excused(f) \/ disk[f].c \in Refused
            \/ job'.f = f \/ f \in walk'
        BY <1>2, <3>2, VisitNamed
      <4>2. Ahead(f) => Pending(f)'
        BY <2>1 DEF Ahead, Pending, Announced, Received, Undiscovered
      <4>3. f \in walk' => Pending(f)'
        BY <1>0, <3>1, NamesFacts DEF Pending, Announced, Received
      <4> QED
        BY <4>1, <4>2, <4>3 DEF Excused, Pending
    <3>3. CASE p \notin Names(f)
      <4>1. \A q \in Names(f) : (Coming(q) => Coming(q)') /\ (Received(q) => Received(q)')
        BY <1>0, <2>4, <3>3, NamesFacts
      <4> QED
        BY <1>2, <2>5, <3>1, <4>1 DEF Pending, Announced, Undiscovered
    <3> QED
      BY <3>2, <3>3
  <2> QED
    BY <1>2, <2>3, <2>5, PendingSafe
<1>3. CASE DrainVisit
  <2>1. /\ Visit(Head(filech)) /\ phase = "drain" /\ Free /\ walk = {}
        /\ filech # << >> /\ filech' = Tail(filech)
        /\ UNCHANGED <<disk, dirs, drive, phase, touched, files, missed, wtodo,
                       wname, events>>
    BY <1>3 DEF DrainVisit
  <2>2. /\ Head(filech) \in File \cup Dir
        /\ \A q : InSeq(q, filech) => InSeq(q, Tail(filech)) \/ q = Head(filech)
    BY <1>0, <2>1, InTail DEF TypeOK
  <2> QED
    BY <1>2, <2>1, <2>2
<1>4. ASSUME NEW p \in File \cup Dir, CycleVisit(p)
      PROVE  StaleOK' /\ JobStaleOK' /\ BootOK' /\ NoLostChange'
  <2>1. /\ Visit(p) /\ phase = "cycle" /\ Free /\ walk = {} /\ touched' = touched \ {p}
        /\ UNCHANGED <<disk, dirs, drive, phase, files, missed, wtodo, wname, events,
                       filech>>
    BY <1>4 DEF CycleVisit
  <2>2. \A q : q # p => (q \in touched => q \in touched')
    BY <2>1
  <2> QED
    BY <1>2, <2>1, <2>2
<1> QED
  BY <1>1, <1>3, <1>4

\* The main loop loses nothing between its cycles.
LEMMA LoopSafe ==
    ASSUME IInv, TypeOK', DrainDone \/ Receive \/ StartCycle \/ CycleDone
    PROVE  StaleOK' /\ JobStaleOK' /\ BootOK' /\ NoLostChange'
<1> USE DEF tree, watcher
<1>0. TypeOK /\ MainOK
  BY DEF IInv
<1>1. CASE DrainDone \/ CycleDone
  <2>1. /\ phase \in {"drain", "cycle"} /\ phase' = "wait" /\ job' = job
        /\ UNCHANGED <<disk, dirs, drive, files, missed, touched, walk, wtodo,
                       wname, events, filech>>
    BY <1>1 DEF DrainDone, CycleDone
  <2>2. \A f \in File : /\ Names(f)' = Names(f) /\ Exists(f)' = Exists(f)
                        /\ \A p \in Names(f) : Coming(p)' = Coming(p)
    BY <2>1 DEF Names, Exists, Coming
  <2>3. \A f \in File : Ahead(f) => Ahead(f)'
    BY <2>1, <2>2 DEF Ahead, Steady
  <2>4. StaleOK' /\ JobStaleOK' /\ BootOK'
    BY <2>1, <2>3, QuietSafe DEF Steady
  <2>5. \A f \in File : Pending(f) => Pending(f)'
    BY <2>1, <2>2 DEF Pending, Announced, Received, Undiscovered
  <2> QED
    BY <2>1, <2>4, <2>5, PendingSafe
<1>2. CASE Receive
  <2>1. /\ phase = "wait" /\ phase' = "wait" /\ job' = job /\ filech # << >>
        /\ filech' = Tail(filech) /\ touched' = touched \cup {Head(filech)}
        /\ UNCHANGED <<disk, dirs, drive, files, missed, walk, wtodo, wname, events>>
    BY <1>2 DEF Receive
  <2>2. \A q : InSeq(q, filech) => InSeq(q, filech') \/ q \in touched'
    BY <1>0, <2>1, InTail DEF TypeOK
  <2>3. \A f \in File : /\ Names(f)' = Names(f) /\ Exists(f)' = Exists(f)
                        /\ \A p \in Names(f) : Coming(p) => Coming(p)' \/ p \in touched'
    BY <2>1, <2>2 DEF Names, Exists, Coming
  <2>4. \A f \in File : Ahead(f) => Ahead(f)'
    BY <2>1, <2>3 DEF Ahead, Steady
  <2>5. StaleOK' /\ JobStaleOK' /\ BootOK'
    BY <2>1, <2>4, QuietSafe DEF Steady
  <2>6. \A f \in File : Pending(f) => Pending(f)'
    BY <2>1, <2>3 DEF Pending, Announced, Received, Undiscovered
  <2> QED
    BY <2>1, <2>5, <2>6, PendingSafe
<1>3. CASE StartCycle
  <2>1. /\ phase = "wait" /\ phase' = "cycle" /\ job = Idle /\ job' = job
        /\ UNCHANGED <<disk, dirs, drive, touched, walk, wtodo, wname,
                       events, filech>>
        /\ \A f \in File : missed[f] # "no" => missed'[f] # "no"
    BY <1>0, <1>3, ListFilesType DEF StartCycle, MainOK
  <2>2. \A f \in File : (Fresh(f) \/ InSync(f) \/ Excused(f))'
    BY <1>0, <1>3, ListedFresh DEF StartCycle
  <2>3. StaleOK' /\ JobStaleOK' /\ BootOK'
    BY <2>1, <2>2 DEF StaleOK, JobStaleOK, BootOK, Steady, Idle
  <2>4. \A f \in File : /\ Names(f)' = Names(f) /\ Exists(f)' = Exists(f)
                        /\ \A p \in Names(f) : Coming(p)' = Coming(p)
    BY <2>1 DEF Names, Exists, Coming
  <2>5. \A f \in File : Pending(f) => Pending(f)'
    BY <2>1, <2>4 DEF Pending, Announced, Received, Undiscovered
  <2> QED
    BY <2>1, <2>3, <2>5, PendingSafe
<1> QED
  BY <1>1, <1>2, <1>3

-----------------------------------------------------------------------------
(* The job.                                                                *)

\* A file that is read and turns out to be on Drive is dropped; any other is
\* still in hand.
LEMMA ReadSafe ==
    ASSUME IInv, ReadFile
    PROVE  StaleOK' /\ JobStaleOK' /\ BootOK' /\ NoLostChange'
<1> USE DEF tree, watcher, Exists
<1>0. /\ TypeOK /\ MainOK /\ JobOK /\ StaleOK /\ JobStaleOK /\ BootOK
      /\ job.f \in File /\ phase \notin {"down", "wait"}
  BY DEF IInv, MainOK, JobOK, Idle, ReadFile
<1>1. /\ job.at \in {"read", "readlink"}
      /\ UNCHANGED <<disk, dirs, drive, phase, touched, walk, files, missed, wtodo,
                     wname, events, filech>>
  BY DEF ReadFile
<1>2. PICK c \in Outcomes(job.f) :
         job' = IF c = Gone \/ SameSha(job.f, c) THEN Idle
                ELSE [at |-> "send", f |-> job.f, m |-> job.m, c |-> c]
  BY DEF ReadFile
<1>3. \A f \in File : Ahead(f) => Ahead(f)'
  BY <1>0, <1>1, StillAhead
<1>4. \A f \in File : /\ InSync(f)' = InSync(f) /\ Fresh(f)' = Fresh(f)
                      /\ Excused(f)' = Excused(f) /\ Exists(f)' = Exists(f)
  BY <1>1 DEF InSync, Wanted, Fresh, Listing, NeedsTrashing, Excused, Exists
<1>5. StaleOK' /\ BootOK'
  BY <1>0, <1>1, <1>3, <1>4 DEF StaleOK, BootOK, Steady
<1>6. ASSUME NEW f \in File, f # job.f \/ job'.f = f, Pending(f)
      PROVE  Pending(f)'
  <2>1. /\ Names(f)' = Names(f) /\ Exists(f)' = Exists(f)
        /\ \A p \in Names(f) : Coming(p)' = Coming(p)
    BY <1>1 DEF Names, Coming
  <2> QED
    BY <1>1, <1>6, <2>1 DEF Pending, Announced, Received, Undiscovered
<1>7. CASE c = Gone \/ SameSha(job.f, c)
  <2>1. job' = Idle
    BY <1>2, <1>7
  <2>2. JobStaleOK'
    BY <2>1 DEF JobStaleOK, Idle
  <2>3. ASSUME JobMatches
        PROVE  Fresh(job.f) => InSync(job.f)
    <3>1. Exists(job.f) /\ disk[job.f].m = job.m /\ job.f \notin Ignored
      BY <1>0, <1>1, <2>3 DEF JobMatches, JobOK
    <3>2. c = disk[job.f].c
      BY <1>0, <1>1, <1>2, <3>1 DEF JobOK, Outcomes
    <3>3. c \in Regular /\ files[job.f].sha = c /\ c # NoSha
      BY <1>7, <3>1, <3>2 DEF SameSha, Regular
    <3>4. ASSUME Fresh(job.f)
          PROVE  \E i \in DOMAIN drive[job.f] : drive[job.f][i].c = c
      BY <1>0, <3>3, <3>4, ListingFacts DEF Fresh, Blank, Sha
    <3>5. Wanted(job.f) = c
      BY <3>1, <3>2 DEF Wanted
    <3>6. drive[job.f] = << >> => DOMAIN drive[job.f] = {}
      OBVIOUS
    <3> QED
      BY <3>4, <3>5, <3>6 DEF InSync
  <2>4. InSync(job.f) \/ Ahead(job.f) \/ Excused(job.f)
    BY <1>0, <1>1, <2>3 DEF JobStaleOK, StaleOK
  <2>5. \A f \in File : Ahead(f) => Pending(f)'
    BY <1>0, <1>3 DEF Ahead, Pending, Announced, Received, Undiscovered
  <2>6. NoLostChange'
    BY <1>1, <1>6, <2>4, <2>5, PendingSafe DEF Excused
  <2> QED
    BY <1>5, <2>2, <2>6
<1>8. CASE c # Gone /\ job' = [at |-> "send", f |-> job.f, m |-> job.m, c |-> c]
  <2>1. job'.f = job.f /\ job'.m = job.m /\ job'.c # Gone
    BY <1>8
  <2>2. JobMatches => JobMatches'
    BY <1>1, <2>1 DEF JobMatches
  <2>3. JobStaleOK'
    BY <1>0, <1>1, <1>3, <1>4, <2>1, <2>2 DEF JobStaleOK
  <2>4. NoLostChange'
    BY <1>1, <1>6, <2>1, PendingSafe
  <2> QED
    BY <1>5, <2>3, <2>4
<1> QED
  BY <1>2, <1>7, <1>8

\* A request puts the file right, or a later change of it is on its way.
LEMMA UploadSafe ==
    ASSUME IInv, TypeOK', Upload
    PROVE  StaleOK' /\ JobStaleOK' /\ BootOK' /\ NoLostChange'
<1> USE DEF tree, watcher
<1>0. /\ TypeOK /\ MainOK /\ JobOK /\ CacheOK /\ StaleOK /\ JobStaleOK /\ BootOK
      /\ NoLostChange
      /\ job.f \in File /\ phase \notin {"down", "wait"}
  BY DEF IInv, MainOK, JobOK, Idle, Upload
<1>1. /\ job.at = "send" /\ job' = Idle /\ drive' = Request(job.f)
      /\ UNCHANGED <<disk, dirs, phase, touched, walk, missed, wtodo, wname, events,
                     filech>>
      /\ files' = IF job.c \in Large THEN files
                  ELSE [files EXCEPT ![job.f] = NewInfo(job.f)]
  BY DEF Upload
<1>a. PICK g \in File : g = job.f
  BY <1>0
<1>2. \A f \in File \ {g} : drive'[f] = drive[f] /\ files'[f] = files[f]
  BY <1>0, <1>1, <1>a, RequestType DEF TypeOK
<1>3. \A f \in File : Ahead(f) => Ahead(f)'
  BY <1>0, <1>1, <1>a, StillAhead
<1>4. ASSUME NEW f \in File \ {g}
      PROVE  InSync(f)' = InSync(f) /\ Fresh(f)' = Fresh(f)
  <2>1. drive'[f] = drive[f] /\ files'[f] = files[f] /\ disk' = disk
    BY <1>1, <1>2
  <2>2. Fresh(f)' = Fresh(f)
    BY <2>1 DEF Fresh, Listing, NeedsTrashing, Exists
  <2> QED
    BY <2>1, <2>2 DEF InSync, Wanted
<1>5. \A f \in File : Excused(f)' = Excused(f) /\ Exists(f)' = Exists(f)
  BY <1>1, <1>a DEF Excused, Exists
<1>6. ASSUME JobMatches
      PROVE  InSync(g)'
  <2>1. job.c = Wanted(g)
    <3>1. CASE job.c = Gone
      BY <1>1, <1>a, <1>6, <3>1 DEF JobMatches, NeedsTrashing, Wanted, Exists
    <3>2. CASE job.c # Gone
      BY <1>0, <1>1, <1>a, <1>6, <3>2 DEF JobMatches, JobOK, Wanted
    <3> QED
      BY <3>1, <3>2
  <2>2. PICK i \in DOMAIN drive'[g] : drive'[g][i] = [c |-> job.c, m |-> job.m]
    BY <1>0, <1>1, <1>a, RequestType
  <2>3. drive'[g][i].c = Wanted(g)'
    BY <1>1, <1>a, <2>1, <2>2 DEF Wanted
  <2>4. drive'[g] # << >>
    BY <2>2
  <2> QED
    BY <2>3, <2>4 DEF InSync
<1>7. (InSync(g) \/ Ahead(g) \/ Excused(g))'
  BY <1>0, <1>1, <1>a, <1>3, <1>5, <1>6 DEF JobStaleOK
<1>8. StaleOK'
  BY <1>0, <1>1, <1>a, <1>3, <1>4, <1>5, <1>7 DEF StaleOK
<1>9. JobStaleOK'
  BY <1>1, <1>a DEF JobStaleOK, Idle
<1>10. BootOK'
  BY <1>0, <1>1, <1>a, <1>4, <1>5, <1>7 DEF BootOK, Ahead, Steady
<1>11. ASSUME NEW f \in File
       PROVE  (InSync(f) \/ Pending(f) \/ disk[f].c \in Refused \/ missed[f] # "no")'
  <2>1. CASE f = g
    BY <1>7, <2>1 DEF Excused, Ahead, Pending, Announced, Received, Undiscovered
  <2>2. CASE f # g
    <3>1. /\ Names(f)' = Names(f) /\ Exists(f)' = Exists(f)
          /\ \A p \in Names(f) : Coming(p)' = Coming(p)
      BY <1>1, <1>a DEF Names, Exists, Coming
    <3>2. Pending(f) => Pending(f)'
      BY <1>1, <1>a, <2>2, <3>1 DEF Pending, Announced, Received, Undiscovered
    <3> QED
      BY <1>0, <1>1, <1>a, <1>4, <2>2, <3>2 DEF NoLostChange
  <2> QED
    BY <2>1, <2>2
<1> QED
  BY <1>8, <1>9, <1>10, <1>11 DEF NoLostChange

\* A PUT that is refused is recorded.
LEMMA PutSafe ==
    ASSUME IInv, PutRefused
    PROVE  StaleOK' /\ JobStaleOK' /\ BootOK' /\ NoLostChange'
<1> USE DEF tree, watcher
<1>0. /\ TypeOK /\ MainOK /\ StaleOK /\ BootOK /\ NoLostChange
      /\ job.f \in File /\ phase \notin {"down", "wait"}
  BY DEF IInv, MainOK, JobOK, Idle, PutRefused
<1>1. /\ job' = Idle
      /\ UNCHANGED <<disk, dirs, drive, phase, touched, walk, files, wtodo, wname,
                     events, filech>>
      /\ missed'[job.f] # "no"
      /\ \A f \in File : missed[f] # "no" => missed'[f] # "no"
  BY <1>0 DEF PutRefused, TypeOK
<1>2. \A f \in File : Ahead(f) => Ahead(f)'
  BY <1>0, <1>1, StillAhead
<1>3. \A f \in File : /\ InSync(f)' = InSync(f) /\ Fresh(f)' = Fresh(f)
                      /\ Exists(f)' = Exists(f)
  BY <1>1 DEF InSync, Wanted, Fresh, Listing, NeedsTrashing, Exists
<1>4. StaleOK' /\ BootOK'
  BY <1>0, <1>1, <1>2, <1>3 DEF StaleOK, BootOK, Steady, Excused
<1>5. JobStaleOK'
  BY <1>1 DEF JobStaleOK, Idle
<1>6. ASSUME NEW f \in File, f # job.f, Pending(f)
      PROVE  Pending(f)'
  <2>1. /\ Names(f)' = Names(f) /\ Exists(f)' = Exists(f)
        /\ \A p \in Names(f) : Coming(p)' = Coming(p)
    BY <1>1 DEF Names, Exists, Coming
  <2> QED
    BY <1>1, <1>6, <2>1 DEF Pending, Announced, Received, Undiscovered
<1>7. NoLostChange'
  BY <1>0, <1>1, <1>3, <1>6 DEF NoLostChange
<1> QED
  BY <1>4, <1>5, <1>7

-----------------------------------------------------------------------------
(* The theorems.                                                           *)

\* What an earlier run, and the user since, left behind satisfies the
\* invariant.
LEMMA InitSafe == Init => IInv
<1> SUFFICES ASSUME Init PROVE IInv
  OBVIOUS
<1>1. TypeOK
  BY TypeInit
<1>2. /\ clock = 1 /\ phase = "down" /\ job = Idle /\ touched = {} /\ walk = {}
      /\ watches = {} /\ wtodo = {} /\ wname = NoPath /\ events = << >> /\ filech = << >>
      /\ \A f \in File : files[f] = Blank
      /\ \A f \in File : Exists(f) => Present(Parent[f])
      /\ \A f \in File : ~Exists(f) /\ ~InSync(f) => missed[f] # "no"
  BY DEF Init
<1>3. ASSUME NEW f \in File
      PROVE  disk[f].m \in {0, 1} /\ (Exists(f) => disk[f].m = 1)
  BY DEF Init, Absent, Exists
<1>4. ASSUME NEW f \in File, NEW i \in DOMAIN drive[f]
      PROVE  /\ drive[f][i].m \in {0, 1}
             /\ drive[f][i].m = 1 => drive[f][i].c = disk[f].c
             /\ drive[f][i].c = Gone => drive[f][i].m = 0
  <2>1. drive[f] # << >>
    BY <1>4
  <2>2. PICK o \in {Absent} \cup [c : Content, m : {0, 1}] : drive[f] = <<o>>
    BY <2>1 DEF Init
  <2>3. i = 1 /\ drive[f][1] = o
    BY <1>4, <2>2
  <2>4. /\ drive[f][1].m = 1 => drive[f][1].c = disk[f].c
        /\ drive[f][1].c = Gone => drive[f][1].m = 0
    BY <2>1 DEF Init
  <2>5. o.m \in {0, 1}
    BY <2>2 DEF Absent
  <2> QED
    BY <2>3, <2>4, <2>5
<1>5. DiskOK
  BY <1>2, <1>3 DEF DiskOK
<1>6. TimesOK
  <2>1. ASSUME NEW f \in File
        PROVE  /\ disk[f].m <= clock /\ files[f].m <= clock
               /\ \A i \in DOMAIN drive[f] : drive[f][i].m <= clock
               /\ Exists(f) => /\ files[f].m <= disk[f].m
                               /\ \A i \in DOMAIN drive[f] : drive[f][i].m <= disk[f].m
    BY <1>2, <1>3, <1>4 DEF Blank
  <2> QED
    BY <2>1 DEF TimesOK
<1>7. MainOK
  BY <1>2 DEF MainOK, Init
<1>8. WatcherOK
  BY <1>2 DEF WatcherOK, WatchCovers, Running
<1>9. JobOK /\ JobStaleOK
  BY <1>2 DEF JobOK, JobStaleOK, Idle
<1>10. DriveOK
  BY <1>3, <1>4 DEF DriveOK
<1>11. CacheOK
  <2>1. Blank.st = "none"
    BY DEF Blank
  <2> QED
    BY <1>2, <2>1 DEF CacheOK, Listed
<1>12. StaleOK /\ BootOK
  BY <1>2 DEF StaleOK, BootOK, Excused
<1>13. NoLostChange
  BY <1>2 DEF NoLostChange, Pending, Undiscovered
<1> QED
  BY <1>1, <1>5, <1>6, <1>7, <1>8, <1>9, <1>10, <1>11, <1>12, <1>13 DEF IInv

\* The invariant is inductive: no step breaks it.
LEMMA StepSafe == IInv /\ [Next]_vars => IInv'
<1> SUFFICES ASSUME IInv, [Next]_vars PROVE IInv'
  OBVIOUS
<1>1. CASE Next
  <2>1. User \/ Machine
    BY <1>1 DEF Next, Machine
  <2>2. /\ TypeOK /\ DiskOK /\ TimesOK /\ MainOK /\ WatcherOK /\ JobOK /\ DriveOK
        /\ CacheOK
    BY DEF IInv
  <2>3. TypeOK'
    BY <2>2, TypeStep
  <2>4. /\ DiskOK' /\ TimesOK' /\ MainOK' /\ WatcherOK' /\ JobOK' /\ DriveOK'
        /\ CacheOK'
    BY <2>1, <2>2, DiskStep, TimesStep, MainStep, WatcherStep, JobStep, DriveStep,
       CacheStep
  <2>5. StaleOK' /\ JobStaleOK' /\ BootOK' /\ NoLostChange'
    <3>1. CASE User
      BY <2>3, <2>4, <3>1, UserSafe
    <3>2. CASE Main
      BY <2>3, <3>2, ScanSafe, VisitSafe, LoopSafe, ReadSafe, UploadSafe DEF Main
    <3>3. CASE Watcher
      BY <2>3, <3>3, WatcherSafe
    <3>4. CASE PutRefused
      BY <3>4, PutSafe
    <3>5. CASE Crash
      BY <3>5, DeathSafe DEF Crash
    <3> QED
      BY <1>1, <3>1, <3>2, <3>3, <3>4, <3>5 DEF Next
  <2> QED
    BY <2>3, <2>4, <2>5 DEF IInv
<1>2. CASE UNCHANGED vars
  <2>1. /\ UNCHANGED <<disk, dirs, clock, drive, phase, touched, walk, job, files,
                       unlisted>>
        /\ UNCHANGED <<watches, wtodo, wname, events, filech, missed>>
    BY <1>2 DEF vars, tree, main, watcher
  <2>2. TypeOK' /\ DiskOK' /\ TimesOK'
    BY <2>1 DEF IInv, TypeOK, DiskOK, TimesOK, Exists, Present
  <2>3. MainOK' /\ WatcherOK'
    BY <2>1 DEF IInv, MainOK, WatcherOK, WatchCovers, Running
  <2>4. JobOK' /\ DriveOK' /\ CacheOK'
    BY <2>1 DEF IInv, JobOK, DriveOK, CacheOK, Listed, Exists
  <2>5. \A f \in File : /\ InSync(f)' = InSync(f) /\ Fresh(f)' = Fresh(f)
                        /\ Excused(f)' = Excused(f) /\ Exists(f)' = Exists(f)
    BY <2>1 DEF InSync, Wanted, Fresh, Listing, NeedsTrashing, Excused, Exists
  <2>6. \A f \in File : Ahead(f) => Ahead(f)'
    BY <2>1, StillAhead
  <2>7. StaleOK' /\ BootOK'
    BY <2>1, <2>5, <2>6 DEF IInv, StaleOK, BootOK, Steady
  <2>8. JobMatches' = JobMatches
    BY <2>1 DEF JobMatches, NeedsTrashing, Exists
  <2>9. JobStaleOK'
    BY <2>1, <2>5, <2>6, <2>8 DEF IInv, JobStaleOK, JobOK
  <2>10. \A f \in File : Pending(f)' = Pending(f)
    BY <2>1 DEF Pending, Announced, Received, Coming, Names, Undiscovered, Exists
  <2>11. NoLostChange'
    BY <2>1, <2>5, <2>10 DEF IInv, NoLostChange
  <2> QED
    BY <2>2, <2>3, <2>4, <2>7, <2>9, <2>11 DEF IInv
<1> QED
  BY <1>1, <1>2

\* Every part of the invariant always holds: what gs.files tells of Drive and
\* a job of the disk is out of date only when news of the change is coming.
THEOREM Invariant == Spec => []IInv
<1>1. Init => IInv
  BY InitSafe
<1>2. IInv /\ [Next]_vars => IInv'
  BY StepSafe
<1> QED
  BY <1>1, <1>2, PTL DEF Spec

\* Every variable of the daemon, the tree and Drive always has its type.
THEOREM TypeCorrect == Spec => []TypeOK
<1>1. IInv => TypeOK
  BY DEF IInv
<1> QED
  BY <1>1, Invariant, PTL

\* No change of the user is lost, whatever savepath, the walks, the watches
\* and the queues are at when it happens: its file is right on Drive, still
\* in hand, refused for its size, or one of the cases that `missed' names.
THEOREM NothingLost == Spec => []NoLostChange
<1>1. IInv => NoLostChange
  BY DEF IInv
<1> QED
  BY <1>1, Invariant, PTL

\* While the watcher runs, every directory has a watch, or watchpath or an
\* event is on the way to it.
THEOREM WatchesCover == Spec => []WatchCovers
<1>1. IInv => WatchCovers
  BY DEF IInv, WatcherOK
<1> QED
  BY <1>1, Invariant, PTL

-----------------------------------------------------------------------------
(* One object per file.                                                    *)

HasLarge(f) == \E i \in DOMAIN drive[f] : drive[f][i].c \in Large

\* While the daemon runs, gs.files has an entry, if only one without an ID,
\* for every file that has an object, unless the object is large or was left
\* out of the last listing.
Known ==
    phase # "down" =>
        \A f \in File : drive[f] # << >> =>
            files[f].st # "none" \/ f \in unlisted \/ HasLarge(f)

\* The daemon leaves the state in which it knows nothing by listing Drive.
LEMMA WakesByListing ==
    ASSUME Machine, phase = "down"
    PROVE  phase' = "down" \/ (ListFiles /\ drive' = drive)
<1> USE DEF tree, main, watcher
<1>1. CASE Main
  <2>1. CASE Start
    BY <2>1 DEF Start
  <2>2. CASE ReadFile \/ Upload
    BY <2>2 DEF ReadFile, Upload
  <2> QED
    BY <1>1, <2>1, <2>2 DEF Main, OldDone, NewDone, DrainVisit, DrainDone, Receive,
       StartCycle, CycleDone, OldVisit, WalkFile, WalkDir, Walking, CycleVisit
<1>2. CASE Watcher
  BY <1>2 DEF Watcher, AddWatch, SendWalked, ReadEvent, SendName, WatchFails, Die
<1>3. CASE PutRefused \/ Crash
  BY <1>3 DEF PutRefused, Crash
<1> QED
  BY <1>1, <1>2, <1>3 DEF Machine

\* What a step of the daemon does to what is left out: a listing sets it, an
\* upload takes its file off, and a death forgets it.
LEMMA UnlistedEffect ==
    ASSUME Machine
    PROVE  \/ ListFiles /\ drive' = drive
           \/ UNCHANGED <<files, unlisted, drive>>
           \/ Upload
           \/ phase' = "down"
<1> USE DEF tree, main, watcher
<1>1. CASE Main
  BY <1>1 DEF Main, Start, StartCycle, ReadFile, OldDone, NewDone, DrainVisit,
     DrainDone, Receive, CycleDone, OldVisit, WalkFile, WalkDir, CycleVisit
<1>2. CASE Watcher
  BY <1>2 DEF Watcher, AddWatch, SendWalked, ReadEvent, SendName, WatchFails, Die
<1>3. CASE PutRefused \/ Crash
  BY <1>3 DEF PutRefused, Crash, Die
<1> QED
  BY <1>1, <1>2, <1>3 DEF Machine

\* A listing has an entry for every file that has an object and that it does
\* not leave out.
LEMMA ListingKnows ==
    ASSUME TypeOK, ListFiles, drive' = drive
    PROVE  Known'
<1>1. ASSUME NEW f \in File, drive[f] # << >>, f \notin unlisted'
      PROVE  files'[f].st # "none"
  <2>1. files'[f] \in Listing(f)
    BY <1>1, ListFilesType
  <2>2. PICK i \in DOMAIN drive[f] : files'[f] = Metadata(drive[f][i], i)
    BY <1>1, <2>1 DEF Listing
  <2> QED
    BY <2>2 DEF Metadata
<1> QED
  BY <1>1 DEF Known

\* An upload leaves an entry, or a large object.
LEMMA UploadKnows ==
    ASSUME IInv, Known, Upload
    PROVE  Known'
<1>0. TypeOK /\ JobOK /\ CacheOK
  BY DEF IInv
<1>1. /\ job.at = "send" /\ drive' = Request(job.f) /\ phase' = phase
      /\ files' = IF job.c \in Large THEN files
                  ELSE [files EXCEPT ![job.f] = NewInfo(job.f)]
      /\ unlisted' = unlisted \ {job.f}
  BY DEF Upload
<1>a. PICK g \in File : g = job.f
  BY <1>0, <1>1, RequestType
<1>2. ASSUME NEW f \in File \ {g}
      PROVE  /\ drive'[f] = drive[f] /\ files'[f] = files[f]
             /\ f \in unlisted => f \in unlisted'
  BY <1>0, <1>1, <1>a, RequestType DEF TypeOK
<1>3. CASE job.c \in Large
  <2>1. PICK i \in DOMAIN drive'[g] : drive'[g][i] = [c |-> job.c, m |-> job.m]
    BY <1>0, <1>1, <1>a, RequestType
  <2>2. HasLarge(g)'
    BY <1>3, <2>1 DEF HasLarge
  <2> QED
    BY <1>1, <1>2, <2>2 DEF Known, HasLarge
<1>4. CASE job.c \notin Large
  <2>1. files'[g] = NewInfo(g) /\ NewInfo(g).st # "none"
    BY <1>0, <1>1, <1>4, <1>a DEF TypeOK, NewInfo
  <2> QED
    BY <1>1, <1>2, <2>1 DEF Known, HasLarge
<1> QED
  BY <1>3, <1>4

\* Only a path that has no object yet is created, but for the exceptions.
LEMMA OneObjectStep ==
    ASSUME IInv, Known, [Next]_vars
    PROVE  /\ Known'
           /\ \A f \in File : Len(drive'[f]) > Len(drive[f]) =>
                 drive[f] = << >> \/ f \in unlisted \/ HasLarge(f)
<1>0. TypeOK /\ JobOK /\ CacheOK /\ MainOK
  BY DEF IInv
<1>a. \A f \in File : drive[f] \in Seq(Object) /\ Len(drive[f]) \in Nat
  BY <1>0, LenProperties DEF TypeOK
<1>1. CASE User \/ UNCHANGED vars
  <2>1. UNCHANGED <<drive, files, phase, unlisted>>
    BY <1>0, <1>1, UserEffect DEF vars, main, User, Write, Delete, MoveOut, MoveIn
  <2> QED
    BY <1>a, <2>1 DEF Known, HasLarge
<1>2. CASE Machine
  <2>1. Known'
    <3>1. CASE ListFiles /\ drive' = drive
      BY <1>0, <3>1, ListingKnows
    <3>2. CASE UNCHANGED <<files, unlisted, drive>>
      <4>1. phase # "down" \/ phase' = "down" \/ Known'
        BY <1>0, <1>2, WakesByListing, ListingKnows
      <4> QED
        BY <3>2, <4>1 DEF Known, HasLarge
    <3>3. CASE Upload
      BY <3>3, UploadKnows
    <3>4. CASE phase' = "down"
      BY <3>4 DEF Known
    <3> QED
      BY <1>2, <3>1, <3>2, <3>3, <3>4, UnlistedEffect
  <2>2. ASSUME NEW f \in File, Len(drive'[f]) > Len(drive[f])
        PROVE  drive[f] = << >> \/ f \in unlisted \/ HasLarge(f)
    <3>1. drive' # drive
      BY <1>a, <2>2
    <3>2. job.at = "send" /\ drive' = Request(job.f)
      BY <1>2, <3>1, MachineEffect
    <3>3. /\ job.f \in File /\ phase # "down"
          /\ \A g \in File \ {job.f} : drive'[g] = drive[g]
      BY <1>0, <3>2, RequestType DEF MainOK, Idle
    <3>4. f = job.f
      BY <1>a, <2>2, <3>3
    <3>5. files[f].st = "none"
      <4>1. SUFFICES ASSUME files[f].st # "none" PROVE FALSE
        OBVIOUS
      <4>2. DOMAIN drive'[f] = DOMAIN drive[f] /\ drive'[f] \in Seq(Object)
        BY <1>0, <3>2, <3>4, <4>1, RequestType
      <4>3. 1..Len(drive'[f]) = 1..Len(drive[f]) /\ Len(drive'[f]) \in Nat
        BY <1>a, <4>2, LenProperties
      <4>4. Len(drive'[f]) \in 1..Len(drive'[f])
        BY <1>a, <2>2, <4>3
      <4> QED
        BY <1>a, <2>2, <4>3, <4>4
    <3> QED
      BY <3>3, <3>5 DEF Known
  <2> QED
    BY <2>1, <2>2
<1> QED
  BY <1>1, <1>2 DEF Next, Machine

\* savepath does not create an object for a path that has one before the next
\* listing has told it of the last, over any number of runs, deaths, requests
\* carried out unheard and listings cut short; but that of a file the listing
\* left out, and of one whose upload took two requests.
THEOREM OneObject == Spec => OneObjectPerFile
<1>1. Init => Known
  BY DEF Init, Known
<1>2. IInv /\ Known /\ [Next]_vars => Known'
  BY OneObjectStep
<1>3. IInv /\ Known /\ [Next]_vars =>
        [\A f \in File : Len(drive'[f]) > Len(drive[f]) =>
           \/ drive[f] = << >> \/ f \in unlisted
           \/ \E i \in DOMAIN drive[f] : drive[f][i].c \in Large]_vars
  BY OneObjectStep DEF HasLarge
<1> QED
  BY <1>1, <1>2, <1>3, Invariant, PTL DEF Spec, OneObjectPerFile
=============================================================================
