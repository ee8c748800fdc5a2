---------------------------- MODULE MakecfgProofs ----------------------------
(***************************************************************************)
(* Proofs about Makecfg, for any names, processors, changes and cut-off    *)
(* runs: what a run that gets through has installed, which steps destroy a *)
(* file of the user's own, and that a further run changes nothing.         *)
(***************************************************************************)
EXTENDS Makecfg, FiniteSetTheorems, TLAPS

\* What may stand at a path, and when it was put there.
Shapes ==
    /\ ybb <= clock
    /\ \A n \in Name : src[n] > 0 /\ src[n] <= clock /\ building[n] <= src[n]
    /\ IsFiniteSet(Busy)
    /\ \A p \in Path :
         /\ fs[p].m <= clock
         /\ fs[p].v \in {"ybb", "util", "dot"} => fs[p] = LinkTo(fs[p].v)
         /\ fs[p].v \in {"built", "own"} => fs[p].k = "file"
    /\ \A n \in Name : fs[Bin(n)].v # "dot"

\* What a section visits, and what it has in hand.
Scope(n) ==
    /\ pc = "ybb"     => kind[n] = "tool"
    /\ pc = "dots"    => n \in DotName /\ dots[n].plain >= 0
    /\ pc = "regen"   => n \in DotName /\ dots[n].gen > 0
    /\ pc = "clear"   => n \in Unwanted
    /\ pc = "build"   => kind[n] \in {"script", "source"}
    /\ pc = "compile" => n \in jobs
    /\ pc # "trash"

Plan ==
    /\ Resting => todo = {} /\ hand = NoName /\ jobs = {} /\ Busy = {}
    /\ \A n \in todo : Scope(n)
    /\ hand # NoName => hand \notin todo /\ Linking(hand) /\ Scope(hand)
    /\ \A n \in jobs : kind[n] = "source"
    /\ jobs # {} => pc \in {"build", "compile", "trash"}
    /\ Busy \subseteq jobs /\ Busy \cap todo = {}
    /\ Busy # {} => pc = "compile"

\* A binary that is not older than its source is of that source, or the source
\* was saved while it was being compiled; what is to be compiled is out of date.
Pending(n) == (pc = "build" /\ n \in jobs) \/ (pc = "compile" /\ n \in todo)

Versions ==
    \A n \in Name :
        /\ fs[Bin(n)].v = "built" /\ fs[Bin(n)].m >= src[n] =>
              fs[Bin(n)].ver = src[n] \/ n \in raced
        /\ n \in Busy => building[n] = src[n] \/ n \in raced
        /\ n \in Busy => ~(Exists(Bin(n)) /\ ModTime(n) >= building[n])
        /\ Pending(n) => ~UpToDate(n)

Current(n) ==
    /\ since # "changed" => UpToDate(n)
    /\ \/ fs[Bin(n)].v = "built" /\ fs[Bin(n)].ver = src[n]
       \/ since = "changed" /\ ModTime(n) < src[n]
       \/ Fooled(n)

\* What the sections have done so far.
Left(n) == n \in todo \/ n = hand

Tools == \A n \in Name : kind[n] = "tool" =>
    \/ pc = "idle" \/ (pc = "ybb" /\ Left(n))
    \/ fs[Bin(n)] = LinkTo("ybb")
Dots == \A n \in DotName : dots[n].plain >= 0 =>
    \/ pc \in {"idle", "ybb"} \/ (pc = "dots" /\ Left(n))
    \/ fs[Dot(n)] = LinkTo("dot")
Gens == \A n \in DotName : dots[n].gen > 0 =>
    \/ pc \in {"idle", "ybb", "dots"} \/ (pc = "regen" /\ n \in todo)
    \/ ReadDot(n) = dots[n].gen
Nones == \A n \in Name : kind[n] = "none" =>
    \/ pc \in {"idle", "ybb", "dots", "regen"} \/ (pc = "clear" /\ n \in todo)
    \/ fs[Bin(n)] = Nothing
Scripts == \A n \in Name : kind[n] = "script" =>
    \/ pc \in {"idle", "ybb", "dots", "regen", "clear"} \/ (pc = "build" /\ Left(n))
    \/ fs[Bin(n)] = LinkTo("util")
Sources == \A n \in Name : kind[n] = "source" =>
    \/ pc \in {"idle", "ybb", "dots", "regen", "clear"}
    \/ pc = "build" /\ n \in todo \cup jobs
    \/ pc = "compile" /\ n \in todo \cup Busy
    \/ Current(n)

\* After a run without a change there is nothing to do.
Settled ==
    since = "settled" =>
        /\ hand = NoName /\ jobs = {}
        /\ \A n \in Name :
             /\ trash[n] = Nothing
             /\ kind[n] = "tool"   => fs[Bin(n)] = LinkTo("ybb")
             /\ kind[n] = "none"   => fs[Bin(n)] = Nothing
             /\ kind[n] = "script" => fs[Bin(n)] = LinkTo("util")
             /\ kind[n] = "source" => UpToDate(n)
        /\ \A n \in DotName :
             /\ dots[n].plain >= 0 => fs[Dot(n)] = LinkTo("dot")
             /\ dots[n].gen > 0    => ReadDot(n) = dots[n].gen

MInv == /\ TypeOK /\ Shapes /\ Plan /\ Versions
        /\ Tools /\ Dots /\ Gens /\ Nones /\ Scripts /\ Sources /\ Settled

-----------------------------------------------------------------------------
(* The lemmas.                                                             *)

\* A path is in ~/.bin or in the home directory.
LEMMA PathFacts ==
    /\ \A n \in Name : Bin(n) \in Path /\ Bin(n)[2] = n
    /\ \A n \in DotName : n \in Name /\ Dot(n) \in Path /\ Dot(n)[2] = n
    /\ \A p \in Path : (\E n \in Name : p = Bin(n)) \/ (\E n \in DotName : p = Dot(n))
    /\ \A m, n : (Bin(m) = Bin(n) <=> m = n) /\ (Dot(m) = Dot(n) <=> m = n) /\ Bin(m) # Dot(n)
    /\ NoName \notin Name
    /\ \A n : Bin(n)[2] = n /\ Dot(n)[2] = n
<1>1. \A p \in Path : (\E n \in Name : p = Bin(n)) \/ (\E n \in DotName : p = Dot(n))
  BY DEF Path, Bin, Dot
<1>2. \A n : Bin(n)[2] = n /\ Dot(n)[2] = n /\ Bin(n)[1] = "bin" /\ Dot(n)[1] = "home"
  BY DEF Bin, Dot
<1>3. /\ \A n \in Name : Bin(n) \in Path
      /\ \A n \in DotName : n \in Name /\ Dot(n) \in Path
  BY SizesAssumption DEF Path, Bin, Dot
<1>4. \A m, n : (Bin(m) = Bin(n) <=> m = n) /\ (Dot(m) = Dot(n) <=> m = n) /\ Bin(m) # Dot(n)
  BY <1>2
<1> QED
  BY <1>1, <1>2, <1>3, <1>4, SizesAssumption

\* Whether a binary is up to date depends on what is at its path, on its kind
\* and on the times.
LEMMA Frame ==
    ASSUME NEW n \in Name, fs'[Bin(n)] = fs[Bin(n)], fs[Bin(n)].v # "dot",
           kind'[n] = kind[n], ybb' = ybb
    PROVE  /\ Exists(Bin(n))' = Exists(Bin(n))
           /\ ModTime(n)' = ModTime(n)
<1>1. Bin(n)[2] = n
  BY PathFacts
<1>2. Exists(Bin(n))' = Exists(Bin(n))
  BY <1>1 DEF Exists
<1> QED
  BY <1>2 DEF ModTime

\* Times are numbers.
LEMMA Numbers ==
    ASSUME TypeOK
    PROVE  /\ \A p \in Path : fs[p] \in Entry /\ fs[p].m \in Nat
           /\ \A n \in Name : src[n] \in Nat /\ building[n] \in Nat
           /\ clock \in Nat /\ ybb \in Nat
  BY DEF TypeOK, Entry

\* No binary bears a time that is still to come.
LEMMA TimeFacts ==
    ASSUME TypeOK, Shapes, NEW n \in Name
    PROVE  /\ ModTime(n) \in Nat /\ ModTime(n) <= clock
           /\ fs[Bin(n)] \in Entry /\ fs[Bin(n)].v # "dot"
           /\ src[n] \in Nat /\ building[n] \in Nat /\ clock \in Nat
  BY PathFacts DEF TypeOK, Shapes, ModTime, Entry

\* The user changes what the repository has.
LEMMA PullUtilSafe ==
    ASSUME MInv, NEW n \in Name, NEW k \in Kinds, PullUtil(n, k)
    PROVE  MInv'
<1>0. /\ TypeOK /\ Shapes /\ Plan /\ Versions /\ Tools
      /\ Dots /\ Gens /\ Nones /\ Scripts /\ Sources /\ Settled
  BY DEF MInv
<1>1. /\ pc' = "idle" /\ since' = "changed" /\ clock' = clock + 1 /\ clock \in Nat
      /\ UNCHANGED <<fs, trash, dots, todo, hand, jobs, building, ybb, stops, raced>>
      /\ todo = {} /\ hand = NoName /\ jobs = {} /\ Busy = {}
  BY <1>0 DEF PullUtil, Change, Resting, home, Plan, TypeOK
<1>2. /\ \A m \in Name : src'[m] = (IF m = n THEN clock + 1 ELSE src[m]) /\ src[m] \in Nat
      /\ kind' \in [Name -> Kinds] /\ src' \in [Name -> Nat]
  BY <1>0 DEF PullUtil, Change, TypeOK
<1>3. Busy' = {} /\ \A m \in Name : building[m] = 0
  BY <1>0, <1>1 DEF Busy, TypeOK, Shapes
<1>4. TypeOK'
  BY <1>0, <1>1, <1>2, <1>3, PathFacts DEF TypeOK
<1>5. Shapes'
  BY <1>0, <1>1, <1>2, <1>3, Numbers, FS_EmptySet DEF Shapes
<1>6. Plan'
  BY <1>0, <1>1, <1>2, <1>3, PathFacts DEF Plan, Scope, Resting, Linking, Busy, Unwanted
<1>7. Versions'
  <2>1. \A m \in Name : fs[Bin(m)].m \in Nat /\ fs[Bin(m)].m <= clock
    BY <1>0, Numbers, PathFacts DEF Shapes
  <2> QED
    BY <1>0, <1>1, <1>2, <1>3, <2>1 DEF Versions, Pending
<1>8. Tools'
  BY <1>0, <1>1, <1>2, <1>3, PathFacts DEF Tools, Left
<1>9. Dots'
  BY <1>0, <1>1, <1>2, <1>3, PathFacts DEF Dots, Left
<1>10. Gens'
  BY <1>0, <1>1, <1>2, <1>3, PathFacts DEF Gens, ReadDot
<1>11. Nones'
  BY <1>0, <1>1, <1>2, <1>3, PathFacts DEF Nones
<1>12. Scripts'
  BY <1>0, <1>1, <1>2, <1>3, PathFacts DEF Scripts, Left
<1>13. Sources'
  BY <1>0, <1>1, <1>2, <1>3, PathFacts DEF Sources, Current, Fooled, UpToDate, Busy
<1>14. Settled'
  BY <1>0, <1>1, <1>2, <1>3, PathFacts DEF Settled, UpToDate, ReadDot
<1> QED
  BY <1>4, <1>5, <1>6, <1>7, <1>8, <1>9, <1>10, <1>11, <1>12, <1>13, <1>14 DEF MInv

\* The same for the dotfiles.
LEMMA PullDotSafe ==
    ASSUME MInv, NEW n \in DotName, NEW g \in BOOLEAN, NEW q \in {-1, 0}, PullDot(n, g, q)
    PROVE  MInv'
<1>0. /\ TypeOK /\ Shapes /\ Plan /\ Versions /\ Tools
      /\ Dots /\ Gens /\ Nones /\ Scripts /\ Sources /\ Settled
  BY DEF MInv
<1>1. /\ pc' = "idle" /\ since' = "changed" /\ clock' = clock + 1 /\ clock \in Nat
      /\ UNCHANGED <<kind, src, fs, trash, todo, hand, jobs, building, ybb, stops, raced>>
      /\ todo = {} /\ hand = NoName /\ jobs = {} /\ Busy = {}
  BY <1>0 DEF PullDot, Change, Resting, home, Plan, TypeOK
<1>2. dots' \in [DotName -> [gen : Nat, plain : Int]]
  BY <1>0 DEF PullDot, Change, TypeOK
<1>3. Busy' = {}
  BY <1>1 DEF Busy
<1>4. TypeOK'
  BY <1>0, <1>1, <1>2, <1>3, PathFacts DEF TypeOK
<1>5. Shapes'
  BY <1>0, <1>1, <1>2, <1>3, Numbers, FS_EmptySet DEF Shapes
<1>6. Plan'
  BY <1>0, <1>1, <1>2, <1>3, PathFacts DEF Plan, Scope, Resting, Linking, Busy, Unwanted
<1>7. Versions'
  BY <1>0, <1>1, <1>2, <1>3, PathFacts DEF Versions, Pending, UpToDate, Busy
<1>8. Tools'
  BY <1>0, <1>1, <1>2, <1>3, PathFacts DEF Tools, Left
<1>9. Dots'
  BY <1>0, <1>1, <1>2, <1>3, PathFacts DEF Dots, Left
<1>10. Gens'
  BY <1>0, <1>1, <1>2, <1>3, PathFacts DEF Gens, ReadDot
<1>11. Nones'
  BY <1>0, <1>1, <1>2, <1>3, PathFacts DEF Nones
<1>12. Scripts'
  BY <1>0, <1>1, <1>2, <1>3, PathFacts DEF Scripts, Left
<1>13. Sources'
  BY <1>0, <1>1, <1>2, <1>3, PathFacts DEF Sources, Current, Fooled, UpToDate, Busy
<1>14. Settled'
  BY <1>0, <1>1, <1>2, <1>3, PathFacts DEF Settled, UpToDate, ReadDot
<1> QED
  BY <1>4, <1>5, <1>6, <1>7, <1>8, <1>9, <1>10, <1>11, <1>12, <1>13, <1>14 DEF MInv

\* Or puts something of the user's own where there is nothing.
LEMMA PutOwnSafe ==
    ASSUME MInv, NEW p \in Path, NEW e \in Own, PutOwn(p, e)
    PROVE  MInv'
<1>0. /\ TypeOK /\ Shapes /\ Plan /\ Versions /\ Tools
      /\ Dots /\ Gens /\ Nones /\ Scripts /\ Sources /\ Settled
  BY DEF MInv
<1>1. /\ pc' = "idle" /\ since' = "changed" /\ clock' = clock + 1 /\ clock \in Nat
      /\ UNCHANGED <<kind, src, dots, trash, todo, hand, jobs, building, ybb, stops, raced>>
      /\ todo = {} /\ hand = NoName /\ jobs = {} /\ Busy = {}
  BY <1>0 DEF PutOwn, Change, Resting, repo, Plan, TypeOK
<1>2. /\ e \in Entry /\ e.m <= clock + 1 /\ e.v \in {"own", "away", "dead"}
      /\ e.v = "own" => e.k = "file"
  BY <1>1 DEF Own, LinkTo, Entry
<1>3. fs' \in [Path -> Entry] /\ \A q \in Path : fs'[q] = IF q = p THEN e ELSE fs[q]
  BY <1>0, <1>2 DEF PutOwn, TypeOK
<1>4. \A q \in Path : fs[q] \in Entry /\ fs[q].m \in Nat
  BY <1>0 DEF TypeOK, Entry
<1>5. Busy' = {}
  BY <1>1 DEF Busy
<1>6. TypeOK'
  BY <1>0, <1>1, <1>2, <1>3, <1>4, <1>5 DEF TypeOK
<1>7. Shapes'
  <2>1. ASSUME NEW q \in Path
        PROVE  /\ fs'[q].m <= clock'
               /\ fs'[q].v \in {"ybb", "util", "dot"} => fs'[q] = LinkTo(fs'[q].v)
               /\ fs'[q].v \in {"built", "own"} => fs'[q].k = "file"
    BY <1>0, <1>1, <1>2, <1>3, <1>4 DEF Shapes
  <2>2. \A m \in Name : fs'[Bin(m)].v # "dot"
    BY <1>0, <1>2, <1>3, PathFacts DEF Shapes
  <2>3. /\ ybb' <= clock' /\ IsFiniteSet(Busy')
        /\ \A m \in Name : src'[m] > 0 /\ src'[m] <= clock' /\ building'[m] <= src'[m]
    BY <1>0, <1>1, <1>5, Numbers, FS_EmptySet DEF Shapes
  <2> QED
    BY <2>1, <2>2, <2>3 DEF Shapes, LinkTo
<1>8. Plan'
  BY <1>0, <1>1, <1>2, <1>3, <1>4, <1>5, PathFacts DEF Plan, Scope, Resting, Linking, Busy, Unwanted
<1>9. Versions'
  BY <1>0, <1>1, <1>2, <1>3, <1>4, <1>5, PathFacts DEF Versions, Pending, UpToDate, Busy
<1>10. Tools'
  BY <1>0, <1>1, <1>2, <1>3, <1>4, <1>5, PathFacts DEF Tools, Left
<1>11. Dots'
  BY <1>0, <1>1, <1>2, <1>3, <1>4, <1>5, PathFacts DEF Dots, Left
<1>12. Gens'
  BY <1>0, <1>1, <1>2, <1>3, <1>4, <1>5, PathFacts DEF Gens, ReadDot
<1>13. Nones'
  BY <1>0, <1>1, <1>2, <1>3, <1>4, <1>5, PathFacts DEF Nones
<1>14. Scripts'
  BY <1>0, <1>1, <1>2, <1>3, <1>4, <1>5, PathFacts DEF Scripts, Left
<1>15. Sources'
  BY <1>0, <1>1, <1>2, <1>3, <1>4, <1>5, PathFacts DEF Sources, Current, Fooled, UpToDate, Busy
<1>16. Settled'
  BY <1>0, <1>1, <1>2, <1>3, <1>4, <1>5, PathFacts DEF Settled, UpToDate, ReadDot
<1> QED
  BY <1>6, <1>7, <1>8, <1>9, <1>10, <1>11, <1>12, <1>13, <1>14, <1>15, <1>16 DEF MInv

\* A source may be saved during the run.
LEMMA SaveSafe ==
    ASSUME MInv, NEW n \in Name, Save(n)
    PROVE  MInv'
<1>0. /\ TypeOK /\ Shapes /\ Plan /\ Versions /\ Tools
      /\ Dots /\ Gens /\ Nones /\ Scripts /\ Sources /\ Settled
  BY DEF MInv
<1>1. /\ since' = "changed" /\ clock' = clock + 1 /\ clock \in Nat
      /\ pc' = (IF pc = "done" THEN "idle" ELSE pc) /\ kind[n] = "source"
      /\ UNCHANGED <<kind, dots, fs, trash, todo, hand, jobs, building, ybb, stops>>
      /\ raced' = IF building[n] > 0 THEN raced \cup {n} ELSE raced
  BY <1>0 DEF Save, Change, home, TypeOK
<1>2. /\ \A m \in Name : src'[m] = (IF m = n THEN clock + 1 ELSE src[m]) /\ src[m] \in Nat
      /\ src' \in [Name -> Nat]
  BY <1>0 DEF Save, Change, TypeOK
<1>3. /\ Busy' = Busy
      /\ \A m \in Name : building[m] \in Nat /\ building[m] <= src[m] /\ src[m] <= clock
  BY <1>0, <1>1 DEF Busy, TypeOK, Shapes
<1>4. \A m \in Name : /\ Exists(Bin(m))' = Exists(Bin(m)) /\ ModTime(m)' = ModTime(m)
                         /\ ModTime(m) <= clock /\ ModTime(m) \in Nat /\ fs[Bin(m)].m \in Nat /\ fs[Bin(m)].m <= clock
  BY <1>0, <1>1, Frame, TimeFacts, PathFacts DEF Shapes, TypeOK, Entry
<1>5. TypeOK'
  BY <1>0, <1>1, <1>2, <1>3, <1>4, PathFacts DEF TypeOK
<1>6. Shapes'
  BY <1>0, <1>1, <1>2, <1>3, <1>4, Numbers, FS_EmptySet DEF Shapes
<1>7. Plan'
  BY <1>0, <1>1, <1>2, <1>3, <1>4, PathFacts DEF Plan, Scope, Resting, Linking, Busy, Unwanted
<1>8. Versions'
  BY <1>0, <1>1, <1>2, <1>3, <1>4, PathFacts DEF Versions, Pending, UpToDate, Busy
<1>9. Tools'
  BY <1>0, <1>1, <1>2, <1>3, <1>4, PathFacts DEF Tools, Left
<1>10. Dots'
  BY <1>0, <1>1, <1>2, <1>3, <1>4, PathFacts DEF Dots, Left
<1>11. Gens'
  BY <1>0, <1>1, <1>2, <1>3, <1>4, PathFacts DEF Gens, ReadDot
<1>12. Nones'
  BY <1>0, <1>1, <1>2, <1>3, <1>4, PathFacts DEF Nones
<1>13. Scripts'
  BY <1>0, <1>1, <1>2, <1>3, <1>4, PathFacts DEF Scripts, Left
<1>14. Sources'
  BY <1>0, <1>1, <1>2, <1>3, <1>4, PathFacts DEF Sources, Current, Fooled, UpToDate, Busy
<1>15. Settled'
  BY <1>0, <1>1, <1>2, <1>3, <1>4, PathFacts DEF Settled, UpToDate, ReadDot
<1> QED
  BY <1>5, <1>6, <1>7, <1>8, <1>9, <1>10, <1>11, <1>12, <1>13, <1>14, <1>15 DEF MInv

\* A run begins with ybb.
LEMMA BeginSafe ==
    ASSUME MInv, Begin
    PROVE  MInv'
<1>0. /\ TypeOK /\ Shapes /\ Plan /\ Versions /\ Tools
      /\ Dots /\ Gens /\ Nones /\ Scripts /\ Sources /\ Settled
  BY DEF MInv
<1>1. /\ pc \in {"idle", "done"} /\ pc' = "ybb" /\ ybb' = clock /\ ybb <= clock /\ clock \in Nat /\ ybb \in Nat
      /\ todo' = {m \in Name : kind[m] = "tool"}
      /\ since' = (IF since = "changed" THEN "running" ELSE since)
      /\ UNCHANGED <<kind, src, dots, fs, trash, clock, hand, jobs, building, stops, raced>>
      /\ todo = {} /\ hand = NoName /\ jobs = {} /\ Busy = {} /\ Busy' = {}
  BY <1>0 DEF Begin, Resting, repo, home, Plan, TypeOK, Shapes, Busy
<1>2. ASSUME NEW m \in Name, UpToDate(m)
      PROVE  UpToDate(m)'
  <2>1. Exists(Bin(m))' = Exists(Bin(m)) /\ src[m] \in Nat /\ src[m] <= clock
    BY <1>0, <1>1, PathFacts DEF Exists, Shapes, TypeOK
  <2>2. ModTime(m)' = ModTime(m) \/ ModTime(m)' = clock
    BY <1>1 DEF ModTime
  <2> QED
    BY <1>1, <1>2, <2>1, <2>2 DEF UpToDate
<1>3. TypeOK'
  BY <1>0, <1>1, <1>2, PathFacts DEF TypeOK
<1>4. Shapes'
  BY <1>0, <1>1, <1>2, Numbers, FS_EmptySet DEF Shapes
<1>5. Plan'
  BY <1>0, <1>1, <1>2, PathFacts DEF Plan, Scope, Resting, Linking, Busy, Unwanted
<1>6. Versions'
  BY <1>0, <1>1, <1>2, PathFacts DEF Versions, Pending, UpToDate, Busy
<1>7. Tools'
  BY <1>0, <1>1, <1>2, PathFacts DEF Tools, Left
<1>8. Dots'
  BY <1>0, <1>1, <1>2, PathFacts DEF Dots, Left
<1>9. Gens'
  BY <1>0, <1>1, <1>2, PathFacts DEF Gens, ReadDot
<1>10. Nones'
  BY <1>0, <1>1, <1>2, PathFacts DEF Nones
<1>11. Scripts'
  BY <1>0, <1>1, <1>2, PathFacts DEF Scripts, Left
<1>12. Sources'
  BY <1>0, <1>1, <1>2, PathFacts DEF Sources, Current, Fooled, UpToDate, Busy
<1>13. Settled'
  BY <1>0, <1>1, <1>2, PathFacts DEF Settled, ReadDot
<1> QED
  BY <1>3, <1>4, <1>5, <1>6, <1>7, <1>8, <1>9, <1>10, <1>11, <1>12, <1>13 DEF MInv

\* The next section finds what the last one has done.
LEMMA NextSectionSafe ==
    ASSUME MInv, NextSection
    PROVE  MInv'
<1>0. /\ TypeOK /\ Shapes /\ Plan /\ Versions /\ Tools
      /\ Dots /\ Gens /\ Nones /\ Scripts /\ Sources /\ Settled
  BY DEF MInv
<1>1. /\ todo = {} /\ hand = NoName /\ Busy = {} /\ Busy' = {}
      /\ UNCHANGED <<kind, src, dots, fs, trash, clock, hand, jobs, building, ybb, stops, raced, since>>
  BY <1>0 DEF NextSection, repo, home, ghost, Busy
<1>2. \/ pc = "ybb" /\ pc' = "dots" /\ todo' = {m \in DotName : dots[m].plain >= 0}
      \/ pc = "dots" /\ pc' = "regen" /\ todo' = {m \in DotName : dots[m].gen > 0}
      \/ pc = "regen" /\ pc' = "clear" /\ todo' = Unwanted
      \/ pc = "clear" /\ pc' = "build" /\ todo' = {m \in Name : kind[m] \in {"script", "source"}}
      \/ pc = "build" /\ pc' = "compile" /\ todo' = jobs
      \/ pc = "compile" /\ pc' = "trash" /\ todo' = {}
  BY <1>0 DEF NextSection, After, Items
<1>3. todo' \subseteq Name
  BY <1>0, <1>2, PathFacts DEF TypeOK, Unwanted
<1>4. \A m \in Name : /\ Exists(Bin(m))' = Exists(Bin(m)) /\ ModTime(m)' = ModTime(m)
  BY <1>0, <1>1, Frame, PathFacts DEF Shapes
<1>5. TypeOK'
  BY <1>0, <1>1, <1>2, <1>3, <1>4, PathFacts DEF TypeOK
<1>6. Shapes'
  BY <1>0, <1>1, <1>2, <1>3, <1>4, Numbers, FS_EmptySet DEF Shapes
<1>7. Plan'
  BY <1>0, <1>1, <1>2, <1>3, <1>4, PathFacts DEF Plan, Scope, Resting, Linking, Busy, Unwanted
<1>8. Versions'
  <2>1. \A m \in Name : UpToDate(m)' <=> UpToDate(m)
    BY <1>1, <1>4 DEF UpToDate
  <2>2. \A m \in Name : Pending(m)' => Pending(m)
    BY <1>0, <1>1, <1>2 DEF Pending, Plan
  <2> QED
    BY <1>0, <1>1, <1>4, <2>1, <2>2 DEF Versions
<1>9. Tools'
  BY <1>0, <1>1, <1>2, <1>3, <1>4, PathFacts DEF Tools, Left
<1>10. Dots'
  BY <1>0, <1>1, <1>2, <1>3, <1>4, PathFacts DEF Dots, Left
<1>11. Gens'
  BY <1>0, <1>1, <1>2, <1>3, <1>4, PathFacts DEF Gens, ReadDot
<1>12. Nones'
  BY <1>0, <1>1, <1>2, <1>3, <1>4, PathFacts DEF Nones, Unwanted
<1>13. Scripts'
  BY <1>0, <1>1, <1>2, <1>3, <1>4, PathFacts DEF Scripts, Left
<1>14. Sources'
  BY <1>0, <1>1, <1>2, <1>3, <1>4, PathFacts DEF Sources, Current, Fooled, UpToDate, Busy
<1>15. Settled'
  BY <1>0, <1>1, <1>2, <1>3, <1>4, PathFacts DEF Settled, UpToDate, ReadDot
<1> QED
  BY <1>5, <1>6, <1>7, <1>8, <1>9, <1>10, <1>11, <1>12, <1>13, <1>14, <1>15 DEF MInv

\* A run that ends early leaves what the sections have done.
LEMMA StopSafe ==
    ASSUME MInv, Stop
    PROVE  MInv'
<1>0. /\ TypeOK /\ Shapes /\ Plan /\ Versions /\ Tools
      /\ Dots /\ Gens /\ Nones /\ Scripts /\ Sources /\ Settled
  BY DEF MInv
<1>1. /\ pc' = "idle" /\ todo' = {} /\ hand' = NoName /\ jobs' = {}
      /\ building' = [m \in Name |-> 0] /\ Busy' = {}
      /\ UNCHANGED <<kind, src, dots, fs, clock, ybb, raced>>
  BY DEF Stop, Ends, repo, home, Busy
<1>2. /\ trash' = trash /\ stops' \in 0..MaxStops
      /\ since' = (IF since = "running" THEN "changed" ELSE since)
  BY <1>0, SizesAssumption DEF Stop, home, TypeOK
<1>3. since' = "settled" => \A m \in Name : (UpToDate(m)' <=> UpToDate(m))
  BY <1>0, <1>1, Frame DEF UpToDate, Shapes
<1>4. TypeOK'
  BY <1>0, <1>1, <1>2, FS_EmptySet, SizesAssumption DEF TypeOK, Entry, Nothing
<1>5. Shapes'
  BY <1>0, <1>1, Numbers, FS_EmptySet DEF Shapes
<1>6. Plan'
  BY <1>0, <1>1, <1>2, <1>3, PathFacts DEF Plan, Scope, Resting, Linking, Busy, Unwanted
<1>7. Versions'
  BY <1>0, <1>1 DEF Versions, Pending
<1>8. Tools'
  BY <1>0, <1>1, <1>2, <1>3, PathFacts DEF Tools, Left
<1>9. Dots'
  BY <1>0, <1>1, <1>2, <1>3, PathFacts DEF Dots, Left
<1>10. Gens'
  BY <1>0, <1>1, <1>2, <1>3, PathFacts DEF Gens, ReadDot
<1>11. Nones'
  BY <1>0, <1>1, <1>2, <1>3, PathFacts DEF Nones
<1>12. Scripts'
  BY <1>0, <1>1, <1>2, <1>3, PathFacts DEF Scripts, Left
<1>13. Sources'
  BY <1>0, <1>1, <1>2, <1>3, PathFacts DEF Sources, Current, Fooled, UpToDate, Busy
<1>14. Settled'
  BY <1>0, <1>1, <1>2, <1>3, PathFacts DEF Settled, UpToDate, ReadDot
<1> QED
  BY <1>4, <1>5, <1>6, <1>7, <1>8, <1>9, <1>10, <1>11, <1>12, <1>13, <1>14 DEF MInv

\* So does one that finds a dangling link in its way.
LEMMA SymlinkFailsSafe ==
    ASSUME MInv, SymlinkFails
    PROVE  MInv'
<1>0. /\ TypeOK /\ Shapes /\ Plan /\ Versions /\ Tools
      /\ Dots /\ Gens /\ Nones /\ Scripts /\ Sources /\ Settled
  BY DEF MInv
<1>1. /\ pc' = "idle" /\ todo' = {} /\ hand' = NoName /\ jobs' = {}
      /\ building' = [m \in Name |-> 0] /\ Busy' = {}
      /\ UNCHANGED <<kind, src, dots, fs, clock, ybb, raced>>
  BY DEF SymlinkFails, Ends, repo, home, Busy
<1>2. /\ trash' = trash /\ stops' \in 0..MaxStops
      /\ since' = (IF since = "running" THEN "changed" ELSE since)
  BY <1>0, SizesAssumption DEF SymlinkFails, home, TypeOK
<1>3. since' = "settled" => \A m \in Name : (UpToDate(m)' <=> UpToDate(m))
  BY <1>0, <1>1, Frame DEF UpToDate, Shapes
<1>4. TypeOK'
  BY <1>0, <1>1, <1>2, FS_EmptySet, SizesAssumption DEF TypeOK, Entry, Nothing
<1>5. Shapes'
  BY <1>0, <1>1, Numbers, FS_EmptySet DEF Shapes
<1>6. Plan'
  BY <1>0, <1>1, <1>2, <1>3, PathFacts DEF Plan, Scope, Resting, Linking, Busy, Unwanted
<1>7. Versions'
  BY <1>0, <1>1 DEF Versions, Pending
<1>8. Tools'
  BY <1>0, <1>1, <1>2, <1>3, PathFacts DEF Tools, Left
<1>9. Dots'
  BY <1>0, <1>1, <1>2, <1>3, PathFacts DEF Dots, Left
<1>10. Gens'
  BY <1>0, <1>1, <1>2, <1>3, PathFacts DEF Gens, ReadDot
<1>11. Nones'
  BY <1>0, <1>1, <1>2, <1>3, PathFacts DEF Nones
<1>12. Scripts'
  BY <1>0, <1>1, <1>2, <1>3, PathFacts DEF Scripts, Left
<1>13. Sources'
  BY <1>0, <1>1, <1>2, <1>3, PathFacts DEF Sources, Current, Fooled, UpToDate, Busy
<1>14. Settled'
  BY <1>0, <1>1, <1>2, <1>3, PathFacts DEF Settled, UpToDate, ReadDot
<1> QED
  BY <1>4, <1>5, <1>6, <1>7, <1>8, <1>9, <1>10, <1>11, <1>12, <1>13, <1>14 DEF MInv

\* At the end of a run nothing is left to do.
LEMMA ClearTrashSafe ==
    ASSUME MInv, ClearTrash
    PROVE  MInv'
<1>0. /\ TypeOK /\ Shapes /\ Plan /\ Versions /\ Tools
      /\ Dots /\ Gens /\ Nones /\ Scripts /\ Sources /\ Settled
  BY DEF MInv
<1>1. /\ pc' = "done" /\ todo' = {} /\ hand' = NoName /\ jobs' = {}
      /\ building' = [m \in Name |-> 0] /\ Busy' = {}
      /\ UNCHANGED <<kind, src, dots, fs, clock, ybb, raced>>
  BY DEF ClearTrash, Ends, repo, home, Busy
<1>2. /\ pc = "trash" /\ trash' = [m \in Name |-> Nothing] /\ stops' = stops
      /\ since' = (IF since = "running" THEN "settled" ELSE since)
  BY DEF ClearTrash
<1>3. todo = {} /\ hand = NoName /\ Busy = {}
  <2>1. \A m \in todo : FALSE
    BY <1>0, <1>2 DEF Plan, Scope
  <2>2. hand = NoName
    BY <1>0, <1>2 DEF Plan, Scope
  <2> QED
    BY <1>0, <1>2, <2>1, <2>2 DEF Plan
<1>4. \A m \in Name : /\ (UpToDate(m)' <=> UpToDate(m)) /\ ModTime(m)' = ModTime(m) /\ ModTime(m) \in Nat
                      /\ kind[m] = "source" => Current(m)
  BY <1>0, <1>1, <1>2, <1>3, Frame, TimeFacts DEF Sources, UpToDate, Shapes
<1>5. TypeOK'
  BY <1>0, <1>1, <1>2, FS_EmptySet, SizesAssumption DEF TypeOK, Entry, Nothing
<1>6. Shapes'
  BY <1>0, <1>1, Numbers, FS_EmptySet DEF Shapes
<1>7. Plan'
  BY <1>0, <1>1, <1>2, <1>3, <1>4, PathFacts DEF Plan, Scope, Resting, Linking, Busy, Unwanted
<1>8. Versions'
  BY <1>0, <1>1 DEF Versions, Pending
<1>9. Tools'
  BY <1>0, <1>1, <1>2, <1>3, <1>4, PathFacts DEF Tools, Left
<1>10. Dots'
  BY <1>0, <1>1, <1>2, <1>3, <1>4, PathFacts DEF Dots, Left
<1>11. Gens'
  BY <1>0, <1>1, <1>2, <1>3, <1>4, PathFacts DEF Gens, ReadDot
<1>12. Nones'
  BY <1>0, <1>1, <1>2, <1>3, <1>4, PathFacts DEF Nones
<1>13. Scripts'
  BY <1>0, <1>1, <1>2, <1>3, <1>4, PathFacts DEF Scripts, Left
<1>14. Sources'
  <2>1. ASSUME NEW m \in Name, kind[m] = "source"
        PROVE  Current(m)'
    <3>1. Current(m) /\ (UpToDate(m)' <=> UpToDate(m)) /\ ModTime(m)' = ModTime(m)
      BY <1>4, <2>1, Zenon
    <3>2. /\ since' # "changed" => since # "changed"
          /\ since = "changed" => since' = "changed"
      BY <1>2
    <3> QED
      BY <1>1, <3>1, <3>2 DEF Current, Fooled
  <2> QED
    BY <1>1, <2>1 DEF Sources
<1>15. Settled'
  <2>1. ASSUME since' = "settled", NEW m \in Name, kind[m] = "source"
        PROVE  UpToDate(m)'
    <3>1. Current(m) /\ (UpToDate(m)' <=> UpToDate(m))
      BY <1>4, <2>1, Zenon
    <3>2. since # "changed"
      BY <1>2, <2>1
    <3> QED
      BY <3>1, <3>2 DEF Current
  <2>2. trash' = [m \in Name |-> Nothing] /\ \A m \in Name : trash'[m] = Nothing
    BY <1>2
  <2>3. \A m \in Name : /\ kind[m] = "tool"   => fs[Bin(m)] = LinkTo("ybb")
                        /\ kind[m] = "none"   => fs[Bin(m)] = Nothing
                        /\ kind[m] = "script" => fs[Bin(m)] = LinkTo("util")
    BY <1>0, <1>2 DEF Tools, Nones, Scripts
  <2>4. \A m \in DotName : /\ dots[m].plain >= 0 => fs[Dot(m)] = LinkTo("dot")
                           /\ dots[m].gen > 0    => ReadDot(m) = dots[m].gen
    BY <1>0, <1>2 DEF Dots, Gens
  <2> QED
    BY <1>1, <2>1, <2>2, <2>3, <2>4 DEF Settled, ReadDot, LinkTo, Nothing
<1> QED
  BY <1>5, <1>6, <1>7, <1>8, <1>9, <1>10, <1>11, <1>12, <1>13, <1>14, <1>15 DEF MInv

\* A name is visited: it is linked already, or what is there is moved away.
LEMMA VisitLinkSafe ==
    ASSUME MInv, NEW n \in Name, VisitLink(n)
    PROVE  MInv'
<1>0. /\ TypeOK /\ Shapes /\ Plan /\ Versions /\ Tools
      /\ Dots /\ Gens /\ Nones /\ Scripts /\ Sources /\ Settled
  BY DEF MInv
<1>1. /\ hand = NoName /\ n \in todo /\ todo' = todo \ {n}
      /\ hand' = (IF Linked(n) THEN NoName ELSE n)
      /\ UNCHANGED <<kind, src, dots, clock, pc, jobs, building, ybb, stops, raced, since>>
      /\ \/ pc = "ybb" /\ kind[n] = "tool"
         \/ pc = "dots" /\ n \in DotName /\ dots[n].plain >= 0
         \/ pc = "build" /\ kind[n] = "script"
  BY <1>0 DEF VisitLink, Linking, Plan, Scope, repo, ghost
<1>2. Place(n) \in Path /\ (Linked(n) => fs' = fs /\ trash' = trash /\ fs[Place(n)] = LinkTo(Target))
  <2>1. Place(n) \in Path
    BY <1>1, PathFacts DEF Place
  <2> QED
    BY <1>0, <2>1 DEF VisitLink, Linked, home, Shapes, Target
<1>3. /\ fs' \in [Path -> Entry] /\ trash' \in [Name -> Entry]
      /\ \A q \in Path : fs'[q] = fs[q] \/ (q = Place(n) /\ ~Linked(n) /\ fs'[q] = Nothing)
  <2>1. Nothing \in Entry
    BY DEF Nothing, Entry
  <2>2. Exists(Place(n)) \/ ~Exists(Place(n))
    OBVIOUS
  <2>3. Place(n)[2] = n
    BY PathFacts DEF Place
  <2>4. CASE Linked(n)
    BY <1>0, <1>2, <2>4 DEF TypeOK
  <2>5. CASE ~Linked(n) /\ Exists(Place(n))
    <3>1. fs' = [fs EXCEPT ![Place(n)] = Nothing] /\ trash' = [trash EXCEPT ![n] = fs[Place(n)]]
      BY <2>3, <2>5 DEF VisitLink, Displaced
    <3> QED
      BY <1>0, <1>2, <2>1, <2>5, <3>1 DEF TypeOK
  <2>6. CASE ~Linked(n) /\ ~Exists(Place(n))
    BY <1>0, <2>6 DEF VisitLink, Displaced, home, TypeOK
  <2> QED
    BY <2>4, <2>5, <2>6
<1>4. Busy' = Busy /\ Busy = {} /\ \A m \in Name : building'[m] = building[m]
  BY <1>0, <1>1 DEF Busy, Plan
<1>5. /\ \A m \in Name : m # n \/ pc = "dots" => fs'[Bin(m)] = fs[Bin(m)]
      /\ \A m \in DotName : m # n \/ pc # "dots" => fs'[Dot(m)] = fs[Dot(m)]
  BY <1>1, <1>2, <1>3, PathFacts DEF Place
<1>6. ASSUME NEW m \in Name, kind[m] = "source"
      PROVE  /\ fs'[Bin(m)] = fs[Bin(m)]
             /\ Exists(Bin(m))' = Exists(Bin(m)) /\ ModTime(m)' = ModTime(m)
  <2>1. fs'[Bin(m)] = fs[Bin(m)]
    BY <1>1, <1>5, <1>6
  <2> QED
    BY <1>0, <1>1, <2>1, Frame DEF Shapes
<1>7. ASSUME NEW m \in Name, kind[m] = "source"
      PROVE  UpToDate(m)' <=> UpToDate(m)
  <2>1. Exists(Bin(m))' = Exists(Bin(m)) /\ ModTime(m)' = ModTime(m)
    BY <1>6, <1>7
  <2> QED
    BY <1>1, <2>1 DEF UpToDate
<1>8. TypeOK'
  BY <1>0, <1>1, <1>2, <1>3, <1>4, <1>5, <1>6, <1>7, PathFacts DEF TypeOK
<1>9. Shapes'
  <2>1. \A m \in Name : fs'[Bin(m)].v # "dot"
    BY <1>0, <1>1, <1>2, <1>3, <1>5, PathFacts DEF Shapes, Place, Nothing, LinkTo
  <2>2. ASSUME NEW q \in Path
        PROVE  /\ fs'[q].m <= clock
               /\ fs'[q].v \in {"ybb", "util", "dot"} => fs'[q] = LinkTo(fs'[q].v)
               /\ fs'[q].v \in {"built", "own"} => fs'[q].k = "file"
    <3>1. Nothing.m = 0 /\ Nothing.v = "none" /\ LinkTo(Target).m = 0 /\ LinkTo(Target).v = Target
          /\ Target \in {"ybb", "dot", "util"}
      BY DEF Nothing, LinkTo, Target
    <3> QED
      BY <1>0, <1>2, <1>3, <3>1, Numbers DEF Shapes
  <2> QED
    BY <1>0, <1>1, <1>4, <2>1, <2>2 DEF Shapes, LinkTo
<1>10. Plan'
  BY <1>0, <1>1, <1>4, PathFacts DEF Plan, Scope, Resting, Linking
<1>11. Versions'
  <2>1. \A m \in Name : Pending(m)' => Pending(m) /\ kind[m] = "source"
    BY <1>0, <1>1 DEF Pending, Plan
  <2>2. \A m \in Name : fs'[Bin(m)] = fs[Bin(m)] \/ fs'[Bin(m)].v # "built"
    BY <1>1, <1>2, <1>3, <1>5, PathFacts DEF Place, Nothing, LinkTo
  <2> QED
    BY <1>0, <1>1, <1>4, <1>7, <2>1, <2>2 DEF Versions
<1>12. Tools'
  <2>1. Linked(n) /\ pc = "ybb" => fs'[Bin(n)] = LinkTo("ybb")
    BY <1>2 DEF Place, Target
  <2> QED
    BY <1>0, <1>1, <1>5, <2>1, PathFacts DEF Tools, Left, LinkTo
<1>13. Dots'
  <2>1. Linked(n) /\ pc = "dots" => fs'[Dot(n)] = LinkTo("dot")
    BY <1>2 DEF Place, Target
  <2> QED
    BY <1>0, <1>1, <1>5, <2>1, PathFacts DEF Dots, Left, LinkTo
<1>14. Gens'
  BY <1>0, <1>1, <1>5 DEF Gens, ReadDot
<1>15. Nones'
  BY <1>0, <1>1, <1>5 DEF Nones, Nothing
<1>16. Scripts'
  <2>1. Linked(n) /\ pc = "build" => fs'[Bin(n)] = LinkTo("util")
    BY <1>2 DEF Place, Target
  <2> QED
    BY <1>0, <1>1, <1>5, <2>1, PathFacts DEF Scripts, Left, LinkTo
<1>17. Sources'
  <2>1. \A m \in Name : kind[m] = "source" /\ Current(m) => Current(m)'
    BY <1>1, <1>6, <1>7 DEF Current, Fooled
  <2>2. \A m \in Name : kind[m] = "source" /\ m \in todo => m \in todo' \/ pc # "build"
    BY <1>1
  <2> QED
    BY <1>0, <1>1, <1>4, <2>1, <2>2 DEF Sources
<1>18. Settled'
  <2> SUFFICES ASSUME since = "settled" PROVE Settled'
    BY <1>1 DEF Settled
  <2>1. fs[Place(n)] = LinkTo(Target)
    BY <1>0, <1>1 DEF Settled, Place, Target
  <2>2. Linked(n)
    BY <2>1 DEF Linked, LinkTo
  <2> QED
    BY <1>0, <1>1, <1>2, <1>7, <2>2 DEF Settled, ReadDot, LinkTo, Nothing
<1> QED
  BY <1>8, <1>9, <1>10, <1>11, <1>12, <1>13, <1>14, <1>15, <1>16, <1>17, <1>18 DEF MInv

\* The link is made, where there is nothing.
LEMMA SymlinkSafe ==
    ASSUME MInv, Symlink
    PROVE  MInv'
<1>0. /\ TypeOK /\ Shapes /\ Plan /\ Versions /\ Tools
      /\ Dots /\ Gens /\ Nones /\ Scripts /\ Sources /\ Settled
  BY DEF MInv
<1>1. /\ hand \in Name /\ hand' = NoName /\ hand \notin todo /\ todo' = todo /\ trash' = trash
      /\ fs[Place(hand)] = Nothing /\ since # "settled"
      /\ UNCHANGED <<kind, src, dots, clock, pc, jobs, building, ybb, stops, raced, since>>
      /\ \/ pc = "ybb" /\ kind[hand] = "tool"
         \/ pc = "dots" /\ hand \in DotName /\ dots[hand].plain >= 0
         \/ pc = "build" /\ kind[hand] = "script"
  BY <1>0 DEF Symlink, TypeOK, Settled, Linking, Plan, Scope, repo, ghost
<1>2. Place(hand) \in Path /\ LinkTo(Target) \in Entry /\ LinkTo(Target) # Nothing
  <2>1. Target \in {"ybb", "dot", "util"}
    BY DEF Target
  <2> QED
    BY <1>1, <2>1, PathFacts DEF Place, LinkTo, Entry, Nothing
<1>3. /\ fs' \in [Path -> Entry]
      /\ \A q \in Path : fs'[q] = (IF q = Place(hand) THEN LinkTo(Target) ELSE fs[q])
  BY <1>0, <1>2 DEF Symlink, TypeOK
<1>4. Busy' = Busy /\ Busy = {} /\ \A m \in Name : building'[m] = building[m]
  BY <1>0, <1>1 DEF Busy, Plan
<1>5. /\ \A m \in Name : m # hand \/ pc = "dots" => fs'[Bin(m)] = fs[Bin(m)]
      /\ \A m \in DotName : m # hand \/ pc # "dots" => fs'[Dot(m)] = fs[Dot(m)]
  BY <1>1, <1>2, <1>3, PathFacts DEF Place
<1>6. ASSUME NEW m \in Name, kind[m] = "source"
      PROVE  /\ fs'[Bin(m)] = fs[Bin(m)]
             /\ Exists(Bin(m))' = Exists(Bin(m)) /\ ModTime(m)' = ModTime(m)
  <2>1. fs'[Bin(m)] = fs[Bin(m)]
    BY <1>1, <1>5, <1>6
  <2> QED
    BY <1>0, <1>1, <2>1, Frame DEF Shapes
<1>7. ASSUME NEW m \in Name, kind[m] = "source"
      PROVE  UpToDate(m)' <=> UpToDate(m)
  <2>1. Exists(Bin(m))' = Exists(Bin(m)) /\ ModTime(m)' = ModTime(m)
    BY <1>6, <1>7
  <2> QED
    BY <1>1, <2>1 DEF UpToDate
<1>8. TypeOK'
  BY <1>0, <1>1, <1>3, <1>4 DEF TypeOK
<1>9. Shapes'
  <2>1. \A m \in Name : fs'[Bin(m)].v # "dot"
    BY <1>0, <1>1, <1>2, <1>3, <1>5, PathFacts DEF Shapes, Place, Target, LinkTo
  <2>2. ASSUME NEW q \in Path
        PROVE  /\ fs'[q].m <= clock
               /\ fs'[q].v \in {"ybb", "util", "dot"} => fs'[q] = LinkTo(fs'[q].v)
               /\ fs'[q].v \in {"built", "own"} => fs'[q].k = "file"
    <3>1. Nothing.m = 0 /\ Nothing.v = "none" /\ LinkTo(Target).m = 0 /\ LinkTo(Target).v = Target
          /\ Target \in {"ybb", "dot", "util"}
      BY DEF Nothing, LinkTo, Target
    <3> QED
      BY <1>0, <1>2, <1>3, <3>1, Numbers DEF Shapes
  <2> QED
    BY <1>0, <1>1, <1>4, <2>1, <2>2 DEF Shapes, LinkTo
<1>10. Plan'
  BY <1>0, <1>1, <1>4, PathFacts DEF Plan, Scope, Resting, Linking
<1>11. Versions'
  <2>1. \A m \in Name : Pending(m)' => Pending(m) /\ kind[m] = "source"
    BY <1>0, <1>1 DEF Pending, Plan
  <2>2. \A m \in Name : fs'[Bin(m)] = fs[Bin(m)] \/ fs'[Bin(m)].v # "built"
    BY <1>1, <1>2, <1>3, <1>5, PathFacts DEF Place, Target, LinkTo
  <2> QED
    BY <1>0, <1>1, <1>4, <1>7, <2>1, <2>2 DEF Versions
<1>12. Tools'
  <2>1. pc = "ybb" => fs'[Bin(hand)] = LinkTo("ybb")
    BY <1>2, <1>3 DEF Place, Target
  <2> QED
    BY <1>0, <1>1, <1>5, <2>1, PathFacts DEF Tools, Left, LinkTo
<1>13. Dots'
  <2>1. pc = "dots" => fs'[Dot(hand)] = LinkTo("dot")
    BY <1>2, <1>3 DEF Place, Target
  <2> QED
    BY <1>0, <1>1, <1>5, <2>1, PathFacts DEF Dots, Left, LinkTo
<1>14. Gens'
  BY <1>0, <1>1, <1>5 DEF Gens, ReadDot
<1>15. Nones'
  BY <1>0, <1>1, <1>5 DEF Nones, Nothing
<1>16. Scripts'
  <2>1. pc = "build" => fs'[Bin(hand)] = LinkTo("util")
    BY <1>2, <1>3 DEF Place, Target
  <2> QED
    BY <1>0, <1>1, <1>5, <2>1, PathFacts DEF Scripts, Left, LinkTo
<1>17. Sources'
  <2>1. \A m \in Name : kind[m] = "source" /\ Current(m) => Current(m)'
    BY <1>1, <1>6, <1>7 DEF Current, Fooled
  <2>2. \A m \in Name : kind[m] = "source" /\ m \in todo => m \in todo' \/ pc # "build"
    BY <1>1
  <2> QED
    BY <1>0, <1>1, <1>4, <2>1, <2>2 DEF Sources
<1>18. Settled'
  BY <1>1 DEF Settled
<1> QED
  BY <1>8, <1>9, <1>10, <1>11, <1>12, <1>13, <1>14, <1>15, <1>16, <1>17, <1>18 DEF MInv

\* A generated dotfile is brought up to date, where it leads.
LEMMA RegenDotSafe ==
    ASSUME MInv, NEW n \in Name, RegenDot(n)
    PROVE  MInv'
<1>0. /\ TypeOK /\ Shapes /\ Plan /\ Versions /\ Tools
      /\ Dots /\ Gens /\ Nones /\ Scripts /\ Sources /\ Settled
  BY DEF MInv
<1>1. /\ pc = "regen" /\ n \in todo /\ n \in DotName /\ dots[n].gen > 0 /\ todo' = todo \ {n} /\ hand = NoName
      /\ UNCHANGED <<kind, src, trash, clock, pc, hand, jobs, building, ybb, stops, raced, since>>
  BY <1>0, PathFacts DEF RegenDot, Plan, Scope, Linking, ghost
<1>2. /\ fs' \in [Path -> Entry] /\ dots' \in [DotName -> [gen : Nat, plain : Int]]
      /\ \A q \in Path : q # Dot(n) => fs'[q] = fs[q]
      /\ \A m \in DotName : dots'[m].gen = dots[m].gen /\ (m # n => dots'[m] = dots[m])
  <2>1. /\ [k |-> "link", v |-> "away", ver |-> dots[n].gen, m |-> clock] \in Entry
        /\ [k |-> "file", v |-> "gen", ver |-> dots[n].gen, m |-> clock] \in Entry
        /\ dots[n].gen \in Nat /\ dots \in [DotName -> [gen : Nat, plain : Int]]
        /\ fs \in [Path -> Entry]
    BY <1>0, <1>1 DEF TypeOK, Entry
  <2>2. Dot(n) \in Path /\ RegenDot(n)
    BY <1>1, PathFacts
  <2>3. CASE fs' = fs
    BY <1>1, <2>1, <2>2, <2>3 DEF RegenDot
  <2>4. CASE fs' # fs
    BY <1>1, <2>1, <2>2, <2>4 DEF RegenDot
  <2> QED
    BY <2>3, <2>4
<1>3. \/ fs' = fs /\ dots' = dots /\ ReadDot(n) = dots[n].gen
      \/ fs' = fs /\ fs[Dot(n)].v = "dot" /\ dots'[n].plain = dots[n].gen
      \/ /\ dots' = dots /\ fs[Dot(n)] # LinkTo("dot") /\ fs'[Dot(n)].m = clock
         /\ fs'[Dot(n)].v \in {"away", "gen"} /\ fs'[Dot(n)].ver = dots[n].gen
  <2>1. /\ Dot(n) \in Path /\ fs \in [Path -> Entry] /\ dots \in [DotName -> [gen : Nat, plain : Int]]
    BY <1>0, <1>1, PathFacts DEF TypeOK
  <2>2. CASE ReadDot(n) = dots[n].gen
    BY <1>1, <2>2 DEF RegenDot
  <2>3. CASE ReadDot(n) # dots[n].gen /\ fs[Dot(n)].v = "dot"
    BY <1>1, <2>1, <2>3 DEF RegenDot
  <2>4. CASE ReadDot(n) # dots[n].gen /\ fs[Dot(n)].v # "dot"
    BY <1>1, <2>1, <2>4 DEF RegenDot, LinkTo
  <2> QED
    BY <2>2, <2>3, <2>4
<1>4. \A m \in Name : fs'[Bin(m)] = fs[Bin(m)]
  BY <1>2, PathFacts
<1>5. Busy' = Busy /\ Busy = {}
  BY <1>0, <1>1 DEF Busy, Plan
<1>6. ASSUME NEW m \in Name
      PROVE  /\ Exists(Bin(m))' = Exists(Bin(m)) /\ ModTime(m)' = ModTime(m)
             /\ (UpToDate(m)' <=> UpToDate(m))
  <2>1. Exists(Bin(m))' = Exists(Bin(m)) /\ ModTime(m)' = ModTime(m)
    BY <1>0, <1>1, <1>4, Frame DEF Shapes
  <2> QED
    BY <1>1, <1>4, <2>1 DEF UpToDate
<1>7. TypeOK'
  BY <1>0, <1>1, <1>2, <1>3, <1>4, <1>5, <1>6, PathFacts DEF TypeOK
<1>8. Shapes'
  <2>1. \A q \in Path : fs'[q] = fs[q] \/ (fs'[q].m = clock /\ fs'[q].v \in {"away", "gen"})
    BY <1>2, <1>3
  <2>2. ASSUME NEW q \in Path
        PROVE  /\ fs'[q].m <= clock
               /\ fs'[q].v \in {"ybb", "util", "dot"} => fs'[q] = LinkTo(fs'[q].v)
               /\ fs'[q].v \in {"built", "own"} => fs'[q].k = "file"
    BY <1>0, <2>1, Numbers DEF Shapes
  <2>3. \A m \in Name : fs'[Bin(m)].v # "dot"
    BY <1>0, <1>4 DEF Shapes
  <2> QED
    BY <1>0, <1>1, <1>5, <2>2, <2>3 DEF Shapes, LinkTo
<1>9. Plan'
  BY <1>0, <1>1, <1>2, <1>5, PathFacts DEF Plan, Scope, Resting, Linking
<1>10. Versions'
  BY <1>0, <1>1, <1>4, <1>5, <1>6 DEF Versions, Pending
<1>11. Tools'
  BY <1>0, <1>1, <1>4 DEF Tools, Left
<1>12. Dots'
  <2>1. \A m \in DotName : fs[Dot(m)] = LinkTo("dot") => fs'[Dot(m)] = fs[Dot(m)]
    BY <1>2, <1>3, PathFacts
  <2>2. fs[Dot(n)].v = "dot" => fs[Dot(n)] = LinkTo("dot")
    BY <1>0, <1>1, PathFacts DEF Shapes
  <2>3. \A m \in DotName : dots[m].plain >= 0 => fs[Dot(m)] = LinkTo("dot")
    BY <1>0, <1>1 DEF Dots
  <2>4. \A m \in DotName : dots'[m] # dots[m] => m = n /\ fs[Dot(n)].v = "dot"
    BY <1>2, <1>3
  <2> QED
    BY <1>1, <2>1, <2>2, <2>3, <2>4 DEF Dots
<1>13. Gens'
  <2>1. ReadDot(n)' = dots[n].gen
    BY <1>3 DEF ReadDot
  <2>2. \A m \in DotName : m # n => ReadDot(m)' = ReadDot(m)
    BY <1>2, PathFacts DEF ReadDot
  <2> QED
    BY <1>0, <1>1, <1>2, <2>1, <2>2 DEF Gens
<1>14. Nones'
  BY <1>0, <1>1, <1>4 DEF Nones, Left
<1>15. Scripts'
  BY <1>0, <1>1, <1>4 DEF Scripts, Left
<1>16. Sources'
  <2>1. \A m \in Name : fs'[Bin(m)] = fs[Bin(m)] /\ ModTime(m)' = ModTime(m)
    BY <1>4, <1>6
  <2> QED
    BY <1>0, <1>1 DEF Sources
<1>17. Settled'
  <2> SUFFICES ASSUME since = "settled" PROVE Settled'
    BY <1>1 DEF Settled
  <2>1. ReadDot(n) = dots[n].gen
    BY <1>0, <1>1 DEF Settled
  <2>2. fs' = fs /\ dots' = dots
    BY <1>1, <2>1 DEF RegenDot
  <2>3. \A m \in DotName : ReadDot(m)' = ReadDot(m)
    BY <2>2 DEF ReadDot
  <2> QED
    BY <1>0, <1>1, <1>6, <2>2, <2>3 DEF Settled
<1> QED
  BY <1>7, <1>8, <1>9, <1>10, <1>11, <1>12, <1>13, <1>14, <1>15, <1>16, <1>17 DEF MInv

\* What is not wanted goes to the trash.
LEMMA TrashBinSafe ==
    ASSUME MInv, NEW n \in Name, TrashBin(n)
    PROVE  MInv'
<1>0. /\ TypeOK /\ Shapes /\ Plan /\ Versions /\ Tools
      /\ Dots /\ Gens /\ Nones /\ Scripts /\ Sources /\ Settled
  BY DEF MInv
<1>1. /\ pc = "clear" /\ n \in todo /\ todo' = todo \ {n} /\ hand = NoName /\ n \in Unwanted
      /\ kind[n] = "none" /\ fs[Bin(n)] # Nothing /\ since # "settled"
      /\ UNCHANGED <<kind, src, dots, clock, pc, hand, jobs, building, ybb, stops, raced, since>>
  BY <1>0, PathFacts DEF TrashBin, Plan, Scope, Linking, Unwanted, Settled, repo, ghost
<1>2. /\ fs' \in [Path -> Entry] /\ trash' \in [Name -> Entry] /\ fs'[Bin(n)] = Nothing
      /\ \A q \in Path : q # Bin(n) => fs'[q] = fs[q]
  <2>1. Nothing \in Entry /\ Bin(n) \in Path
    BY PathFacts DEF Nothing, Entry
  <2> QED
    BY <1>0, <2>1 DEF TrashBin, TypeOK
<1>3. /\ \A m \in Name : m # n => fs'[Bin(m)] = fs[Bin(m)]
      /\ \A m \in DotName : fs'[Dot(m)] = fs[Dot(m)]
  BY <1>2, PathFacts
<1>4. Busy' = Busy /\ Busy = {}
  BY <1>0, <1>1 DEF Busy, Plan
<1>5. ASSUME NEW m \in Name, m # n
      PROVE  /\ Exists(Bin(m))' = Exists(Bin(m)) /\ ModTime(m)' = ModTime(m)
             /\ (UpToDate(m)' <=> UpToDate(m))
  <2>1. Exists(Bin(m))' = Exists(Bin(m)) /\ ModTime(m)' = ModTime(m)
    BY <1>0, <1>1, <1>3, <1>5, Frame DEF Shapes
  <2> QED
    BY <1>1, <1>3, <1>5, <2>1 DEF UpToDate
<1>6. TypeOK'
  BY <1>0, <1>1, <1>2, <1>3, <1>4, <1>5, PathFacts DEF TypeOK
<1>7. Shapes'
  <2>1. \A m \in Name : fs'[Bin(m)].v # "dot"
    BY <1>0, <1>2, <1>3 DEF Shapes, Nothing
  <2>2. ASSUME NEW q \in Path
        PROVE  /\ fs'[q].m <= clock
               /\ fs'[q].v \in {"ybb", "util", "dot"} => fs'[q] = LinkTo(fs'[q].v)
               /\ fs'[q].v \in {"built", "own"} => fs'[q].k = "file"
    <3>1. Nothing.m = 0 /\ Nothing.v = "none"
      BY DEF Nothing
    <3> QED
      BY <1>0, <1>2, <3>1, Numbers DEF Shapes
  <2> QED
    BY <1>0, <1>1, <1>4, <2>1, <2>2 DEF Shapes, LinkTo
<1>8. Plan'
  <2>1. \A m \in todo' : m \in Unwanted'
    BY <1>0, <1>1, <1>3 DEF Plan, Scope, Unwanted, TypeOK
  <2> QED
    BY <1>0, <1>1, <1>4, <2>1, PathFacts DEF Plan, Scope, Resting
<1>9. Versions'
  BY <1>0, <1>1, <1>2, <1>3, <1>4, <1>5 DEF Versions, Pending, Nothing
<1>10. Tools'
  BY <1>0, <1>1, <1>3 DEF Tools, Left
<1>11. Dots'
  BY <1>0, <1>1, <1>3 DEF Dots, Left
<1>12. Gens'
  BY <1>0, <1>1, <1>3 DEF Gens, ReadDot
<1>13. Nones'
  BY <1>0, <1>1, <1>2, <1>3 DEF Nones, Left
<1>14. Scripts'
  BY <1>0, <1>1, <1>3 DEF Scripts, Left
<1>15. Sources'
  BY <1>1 DEF Sources
<1>16. Settled'
  BY <1>1 DEF Settled
<1> QED
  BY <1>6, <1>7, <1>8, <1>9, <1>10, <1>11, <1>12, <1>13, <1>14, <1>15, <1>16 DEF MInv

\* A source is looked at: it is up to date, or is put on the list.
LEMMA VisitSourceSafe ==
    ASSUME MInv, NEW n \in Name, VisitSource(n)
    PROVE  MInv'
<1>0. /\ TypeOK /\ Shapes /\ Plan /\ Versions /\ Tools
      /\ Dots /\ Gens /\ Nones /\ Scripts /\ Sources /\ Settled
  BY DEF MInv
<1>1. /\ pc = "build" /\ n \in todo /\ kind[n] = "source" /\ todo' = todo \ {n} /\ hand = NoName
      /\ jobs' = (IF UpToDate(n) THEN jobs ELSE jobs \cup {n})
      /\ UNCHANGED <<kind, src, dots, fs, trash, clock, pc, hand, building, ybb, stops, raced, since>>
  BY DEF VisitSource, repo, home, ghost
<1>2. Busy' = Busy /\ Busy = {}
  BY <1>0, <1>1 DEF Busy, Plan
<1>3. \A m \in Name : /\ Exists(Bin(m))' = Exists(Bin(m)) /\ ModTime(m)' = ModTime(m)
                       /\ (UpToDate(m)' <=> UpToDate(m))
  <2>1. \A m \in Name : Exists(Bin(m))' = Exists(Bin(m)) /\ ModTime(m)' = ModTime(m)
    BY <1>0, <1>1, Frame DEF Shapes
  <2> QED
    BY <1>1, <2>1 DEF UpToDate
<1>4. TypeOK'
  BY <1>0, <1>1, <1>2, <1>3, PathFacts DEF TypeOK
<1>5. Shapes'
  BY <1>0, <1>1, <1>2 DEF Shapes
<1>6. Plan'
  BY <1>0, <1>1, <1>2, PathFacts DEF Plan, Scope, Resting
<1>7. Versions'
  BY <1>0, <1>1, <1>2, <1>3 DEF Versions, Pending
<1>8. Tools'
  BY <1>0, <1>1 DEF Tools, Left
<1>9. Dots'
  BY <1>0, <1>1 DEF Dots, Left
<1>10. Gens'
  BY <1>0, <1>1 DEF Gens, ReadDot
<1>11. Nones'
  BY <1>0, <1>1 DEF Nones, Left
<1>12. Scripts'
  BY <1>0, <1>1 DEF Scripts, Left
<1>13. Sources'
  <2>1. UpToDate(n) => Current(n)
    BY <1>0, Numbers, TimeFacts DEF Versions, Current, Fooled, UpToDate, ModTime
  <2>2. \A m \in Name : Current(m) => Current(m)'
    BY <1>1, <1>3 DEF Current, Fooled
  <2> QED
    BY <1>0, <1>1, <1>2, <2>1, <2>2 DEF Sources
<1>14. Settled'
  <2>1. since = "settled" => jobs' = {}
    BY <1>0, <1>1 DEF Settled
  <2>2. \A m \in DotName : ReadDot(m)' = ReadDot(m)
    BY <1>1 DEF ReadDot
  <2> QED
    BY <1>0, <1>1, <1>3, <2>1, <2>2 DEF Settled
<1> QED
  BY <1>4, <1>5, <1>6, <1>7, <1>8, <1>9, <1>10, <1>11, <1>12, <1>13, <1>14 DEF MInv

\* A compiler starts, and reads the source.
LEMMA CompileSafe ==
    ASSUME MInv, NEW n \in Name, Compile(n)
    PROVE  MInv'
<1>0. /\ TypeOK /\ Shapes /\ Plan /\ Versions /\ Tools
      /\ Dots /\ Gens /\ Nones /\ Scripts /\ Sources /\ Settled
  BY DEF MInv
<1>1. /\ pc = "compile" /\ n \in todo /\ n \in jobs /\ kind[n] = "source" /\ todo' = todo \ {n} /\ hand = NoName
      /\ raced' = raced \ {n} /\ since # "settled" /\ Cardinality(Busy) < Cpus /\ n \notin Busy
      /\ UNCHANGED <<kind, src, dots, fs, trash, clock, pc, hand, jobs, ybb, stops, since>>
  BY <1>0 DEF Compile, Plan, Scope, Linking, Settled, repo, home
<1>2. /\ building' \in [Name -> Nat]
      /\ \A m \in Name : building'[m] = (IF m = n THEN src[n] ELSE building[m])
      /\ building'[n] > 0
  BY <1>0 DEF Compile, TypeOK, Shapes
<1>3. Busy' = Busy \cup {n} /\ Busy' \subseteq Name
  BY <1>2 DEF Busy
<1>4. IsFiniteSet(Busy') /\ Cardinality(Busy') <= Cpus
  <2>1. /\ IsFiniteSet(Busy') /\ Cardinality(Busy') = Cardinality(Busy) + 1
        /\ Cardinality(Busy) \in Nat
    BY <1>0, <1>1, <1>3, FS_AddElement, FS_CardinalityType DEF Shapes
  <2> QED
    BY <1>1, <2>1, SizesAssumption
<1>5. ~UpToDate(n)
  BY <1>0, <1>1 DEF Versions, Pending
<1>6. \A m \in Name : /\ Exists(Bin(m))' = Exists(Bin(m)) /\ ModTime(m)' = ModTime(m)
                       /\ (UpToDate(m)' <=> UpToDate(m))
  <2>1. \A m \in Name : Exists(Bin(m))' = Exists(Bin(m)) /\ ModTime(m)' = ModTime(m)
    BY <1>0, <1>1, Frame DEF Shapes
  <2> QED
    BY <1>1, <2>1 DEF UpToDate
<1>7. TypeOK'
  BY <1>0, <1>1, <1>2, <1>4 DEF TypeOK
<1>8. Shapes'
  BY <1>0, <1>1, <1>2, <1>4, Numbers DEF Shapes
<1>9. Plan'
  BY <1>0, <1>1, <1>3, PathFacts DEF Plan, Scope, Resting
<1>10. Versions'
  <2>1. fs[Bin(n)].v = "built" => fs[Bin(n)].m < src[n]
    BY <1>0, <1>5, Numbers, PathFacts DEF Shapes, UpToDate, Exists, ModTime
  <2>2. ~(Exists(Bin(n))' /\ ModTime(n)' >= building'[n])
    BY <1>2, <1>5, <1>6 DEF UpToDate
  <2>3. ASSUME NEW m \in Name, m # n
        PROVE  /\ fs[Bin(m)].v = "built" /\ fs[Bin(m)].m >= src[m] => fs[Bin(m)].ver = src[m] \/ m \in raced'
               /\ m \in Busy' => building'[m] = src[m] \/ m \in raced'
               /\ m \in Busy' => ~(Exists(Bin(m))' /\ ModTime(m)' >= building'[m])
               /\ Pending(m)' => ~UpToDate(m)'
    BY <1>0, <1>1, <1>2, <1>3, <1>6, <2>3 DEF Versions, Pending
  <2>4. Pending(n)' => FALSE
    BY <1>0, <1>1 DEF Pending, Plan
  <2>5. fs[Bin(n)].v = "built" => ~(fs[Bin(n)].m >= src[n])
    BY <1>0, <2>1, Numbers, PathFacts
  <2> QED
    BY <1>1, <1>2, <2>2, <2>3, <2>4, <2>5 DEF Versions
<1>11. Tools'
  BY <1>0, <1>1 DEF Tools, Left
<1>12. Dots'
  BY <1>0, <1>1 DEF Dots, Left
<1>13. Gens'
  BY <1>0, <1>1 DEF Gens, ReadDot
<1>14. Nones'
  BY <1>0, <1>1 DEF Nones, Left
<1>15. Scripts'
  BY <1>0, <1>1 DEF Scripts, Left
<1>16. Sources'
  <2>1. \A m \in Name : Current(m) /\ m # n => Current(m)'
    BY <1>1, <1>6 DEF Current, Fooled
  <2> QED
    BY <1>0, <1>1, <1>3, <2>1 DEF Sources
<1>17. Settled'
  BY <1>1 DEF Settled
<1> QED
  BY <1>7, <1>8, <1>9, <1>10, <1>11, <1>12, <1>13, <1>14, <1>15, <1>16, <1>17 DEF MInv

\* A compiler is done, and has written the binary.
LEMMA CompiledSafe ==
    ASSUME MInv, NEW n \in Name, Compiled(n)
    PROVE  MInv'
<1>0. /\ TypeOK /\ Shapes /\ Plan /\ Versions /\ Tools
      /\ Dots /\ Gens /\ Nones /\ Scripts /\ Sources /\ Settled
  BY DEF MInv
<1>1. /\ pc = "compile" /\ n \in Busy /\ n \in jobs /\ n \notin todo /\ kind[n] = "source" /\ hand = NoName
      /\ since # "settled"
      /\ UNCHANGED <<kind, src, dots, trash, clock, pc, todo, hand, jobs, ybb, stops, raced, since>>
  BY <1>0 DEF Compiled, Plan, Scope, Linking, Settled, repo, ghost
<1>2. /\ building' \in [Name -> Nat] /\ fs' \in [Path -> Entry]
      /\ \A m \in Name : building'[m] = (IF m = n THEN 0 ELSE building[m])
      /\ fs'[Bin(n)] = [k |-> "file", v |-> "built", ver |-> building[n], m |-> clock]
      /\ \A q \in Path : q # Bin(n) => fs'[q] = fs[q]
  <2>1. [k |-> "file", v |-> "built", ver |-> building[n], m |-> clock] \in Entry
    BY <1>0, Numbers DEF Entry
  <2> QED
    BY <1>0, <2>1, PathFacts DEF Compiled, TypeOK
<1>3. /\ \A m \in Name : m # n => fs'[Bin(m)] = fs[Bin(m)]
      /\ \A m \in DotName : fs'[Dot(m)] = fs[Dot(m)]
  BY <1>2, PathFacts
<1>4. Busy' = Busy \ {n} /\ Busy' \subseteq Name
  BY <1>2 DEF Busy
<1>5. IsFiniteSet(Busy') /\ Cardinality(Busy') <= Cpus
  <2>1. /\ IsFiniteSet(Busy') /\ Cardinality(Busy') = Cardinality(Busy) - 1
        /\ Cardinality(Busy) \in Nat /\ Cardinality(Busy) <= Cpus
    BY <1>0, <1>1, <1>4, FS_RemoveElement, FS_CardinalityType DEF Shapes, TypeOK
  <2> QED
    BY <2>1, SizesAssumption
<1>6. UpToDate(n)'
  <2>1. ModTime(n)' = clock /\ Exists(Bin(n))'
    BY <1>2 DEF ModTime, Exists
  <2> QED
    BY <1>0, <1>1, <2>1, Numbers DEF Shapes, UpToDate
<1>7. ASSUME NEW m \in Name, m # n
      PROVE  /\ Exists(Bin(m))' = Exists(Bin(m)) /\ ModTime(m)' = ModTime(m)
             /\ (UpToDate(m)' <=> UpToDate(m))
  <2>1. Exists(Bin(m))' = Exists(Bin(m)) /\ ModTime(m)' = ModTime(m)
    BY <1>0, <1>1, <1>3, <1>7, Frame DEF Shapes
  <2> QED
    BY <1>1, <1>3, <1>7, <2>1 DEF UpToDate
<1>8. TypeOK'
  BY <1>0, <1>1, <1>2, <1>5 DEF TypeOK
<1>9. Shapes'
  <2>1. \A m \in Name : fs'[Bin(m)].v # "dot"
    BY <1>0, <1>2, <1>3 DEF Shapes
  <2> QED
    BY <1>0, <1>1, <1>2, <1>5, <2>1, Numbers DEF Shapes
<1>10. Plan'
  BY <1>0, <1>1, <1>4, PathFacts DEF Plan, Scope, Resting
<1>11. Versions'
  <2>1. building[n] = src[n] \/ n \in raced
    BY <1>0, <1>1 DEF Versions
  <2> QED
    BY <1>0, <1>1, <1>2, <1>3, <1>4, <1>7, <2>1 DEF Versions, Pending
<1>12. Tools'
  BY <1>0, <1>1, <1>3 DEF Tools, Left
<1>13. Dots'
  BY <1>0, <1>1, <1>3 DEF Dots, Left
<1>14. Gens'
  BY <1>0, <1>1, <1>3 DEF Gens, ReadDot
<1>15. Nones'
  BY <1>0, <1>1, <1>3 DEF Nones, Left
<1>16. Scripts'
  BY <1>0, <1>1, <1>3 DEF Scripts, Left
<1>17. Sources'
  <2>1. Current(n)'
    BY <1>0, <1>1, <1>2, <1>6 DEF Current, Fooled, Versions
  <2>2. \A m \in Name : m # n /\ Current(m) => Current(m)'
    BY <1>1, <1>3, <1>7 DEF Current, Fooled
  <2> QED
    BY <1>0, <1>1, <1>4, <2>1, <2>2 DEF Sources
<1>18. Settled'
  BY <1>1 DEF Settled
<1> QED
  BY <1>8, <1>9, <1>10, <1>11, <1>12, <1>13, <1>14, <1>15, <1>16, <1>17, <1>18 DEF MInv


\* A step that changes nothing.
LEMMA StutterSafe ==
    ASSUME MInv, UNCHANGED vars
    PROVE  MInv'
<1>1. UNCHANGED <<kind, src, dots, fs, trash, clock, pc, todo, hand, jobs, building, ybb, stops, raced, since>>
  BY DEF vars, repo, home, run, ghost
<1>2. Busy' = Busy
  BY <1>1 DEF Busy
<1>3. /\ TypeOK' /\ Shapes'
  BY <1>1, <1>2 DEF MInv, TypeOK, Shapes
<1>4. Plan'
  BY <1>1, <1>2 DEF MInv, Plan, Scope, Resting, Linking, Unwanted
<1>5. Versions'
  BY <1>1, <1>2 DEF MInv, Versions, Pending, UpToDate, Exists, ModTime
<1>6. /\ Tools' /\ Dots' /\ Gens' /\ Nones' /\ Scripts'
  BY <1>1 DEF MInv, Tools, Dots, Gens, Nones, Scripts, Left, ReadDot
<1>7. Sources'
  BY <1>1, <1>2 DEF MInv, Sources, Current, Fooled, UpToDate, Exists, ModTime
<1>8. Settled'
  BY <1>1 DEF MInv, Settled, ReadDot, UpToDate, Exists, ModTime
<1> QED
  BY <1>3, <1>4, <1>5, <1>6, <1>7, <1>8 DEF MInv

\* It holds of a home directory with nothing in it.
LEMMA InitSafe == Init => MInv
<1> SUFFICES ASSUME Init PROVE MInv
  OBVIOUS
<1>1. Busy = {} /\ Nothing \in Entry
  BY DEF Init, Busy, Nothing, Entry
<1>2. /\ \A p \in Path : fs[p] = Nothing
      /\ \A n \in Name : src[n] = 1 /\ building[n] = 0 /\ fs[Bin(n)] = Nothing
  BY PathFacts DEF Init
<1>3. TypeOK
  BY <1>1, SizesAssumption, FS_EmptySet DEF Init, TypeOK
<1>4. Shapes
  BY <1>1, <1>2, FS_EmptySet DEF Init, Shapes, Nothing
<1>5. Plan
  BY <1>1 DEF Init, Plan
<1>6. Versions
  BY <1>1, <1>2 DEF Init, Versions, Pending, Nothing
<1>7. /\ Tools /\ Dots /\ Gens /\ Nones /\ Scripts /\ Sources /\ Settled
  BY DEF Init, Tools, Dots, Gens, Nones, Scripts, Sources, Settled
<1> QED
  BY <1>3, <1>4, <1>5, <1>6, <1>7 DEF MInv

\* What a run has done when it gets to a section holds at every step, however
\* many runs were cut off and whatever the user changed between them.
LEMMA Inductive == Spec => []MInv
<1>1. ASSUME MInv, [Next]_vars
      PROVE  MInv'
  <2>1. CASE User
    <3>1. ASSUME NEW n \in Name, NEW k \in Kinds, PullUtil(n, k) PROVE MInv'
      BY <1>1, <3>1, PullUtilSafe
    <3>2. ASSUME NEW n \in Name, Save(n) PROVE MInv'
      BY <1>1, <3>2, SaveSafe
    <3>3. ASSUME NEW n \in DotName, NEW g \in BOOLEAN, NEW q \in {-1, 0}, PullDot(n, g, q) PROVE MInv'
      BY <1>1, <3>3, PullDotSafe
    <3>4. ASSUME NEW p \in Path, NEW e \in Own, PutOwn(p, e) PROVE MInv'
      BY <1>1, <3>4, PutOwnSafe
    <3> QED
      BY <2>1, <3>1, <3>2, <3>3, <3>4 DEF User
  <2>2. CASE Begin
    BY <1>1, <2>2, BeginSafe
  <2>3. CASE NextSection
    BY <1>1, <2>3, NextSectionSafe
  <2>4. CASE Symlink
    BY <1>1, <2>4, SymlinkSafe
  <2>5. CASE SymlinkFails
    BY <1>1, <2>5, SymlinkFailsSafe
  <2>6. CASE ClearTrash
    BY <1>1, <2>6, ClearTrashSafe
  <2>7. CASE Stop
    BY <1>1, <2>7, StopSafe
  <2>8. ASSUME NEW n \in Name, VisitLink(n) PROVE MInv'
    BY <1>1, <2>8, VisitLinkSafe
  <2>9. ASSUME NEW n \in Name, RegenDot(n) PROVE MInv'
    BY <1>1, <2>9, RegenDotSafe
  <2>10. ASSUME NEW n \in Name, TrashBin(n) PROVE MInv'
    BY <1>1, <2>10, TrashBinSafe
  <2>11. ASSUME NEW n \in Name, VisitSource(n) PROVE MInv'
    BY <1>1, <2>11, VisitSourceSafe
  <2>12. ASSUME NEW n \in Name, Compile(n) PROVE MInv'
    BY <1>1, <2>12, CompileSafe
  <2>13. ASSUME NEW n \in Name, Compiled(n) PROVE MInv'
    BY <1>1, <2>13, CompiledSafe
  <2>14. CASE UNCHANGED vars
    BY <1>1, <2>14, StutterSafe
  <2> QED
    BY <1>1, <2>1, <2>2, <2>3, <2>4, <2>5, <2>6, <2>7, <2>8, <2>9, <2>10, <2>11, <2>12, <2>13, <2>14
       DEF Next, Run
<1> QED
  BY <1>1, InitSafe, PTL DEF Spec

-----------------------------------------------------------------------------
(* The theorems.                                                           *)

\* When a run is through, everything is what the repository has, whatever the
\* runs before it left half-done: Installed, for any number of names,
\* compilers, changes and cut-off runs.
THEOREM InstalledAtEnd == Spec => []Installed
<1>1. ASSUME MInv
      PROVE  Installed
  <2> SUFFICES ASSUME pc = "done", NEW n \in Name
               PROVE  /\ kind[n] = "none"   => fs[Bin(n)] = Nothing
                      /\ kind[n] = "tool"   => fs[Bin(n)] = LinkTo("ybb")
                      /\ kind[n] = "script" => fs[Bin(n)] = LinkTo("util")
                      /\ kind[n] = "source" => \/ fs[Bin(n)].v = "built" /\ fs[Bin(n)].ver = src[n]
                                               \/ since = "changed" /\ ModTime(n) < src[n]
                                               \/ Fooled(n)
                      /\ n \in DotName =>
                           /\ dots[n].plain >= 0 => fs[Dot(n)] = LinkTo("dot")
                           /\ dots[n].gen > 0    => ReadDot(n) = dots[n].gen
    BY <1>1 DEF Installed, MInv
  <2>1. /\ kind[n] = "none"   => fs[Bin(n)] = Nothing
        /\ kind[n] = "tool"   => fs[Bin(n)] = LinkTo("ybb")
        /\ kind[n] = "script" => fs[Bin(n)] = LinkTo("util")
    BY <1>1 DEF MInv, Nones, Tools, Scripts
  <2>2. kind[n] = "source" => Current(n)
    BY <1>1 DEF MInv, Sources
  <2>3. n \in DotName =>
          /\ dots[n].plain >= 0 => fs[Dot(n)] = LinkTo("dot")
          /\ dots[n].gen > 0    => ReadDot(n) = dots[n].gen
    BY <1>1 DEF MInv, Dots, Gens
  <2> QED
    BY <2>1, <2>2, <2>3 DEF Current
<1> QED
  BY <1>1, Inductive, PTL

\* A file of the user's own is destroyed by four steps only (OwnFilesKept).  It
\* is the times in the invariant that show the compiler to overwrite no own
\* file that is newer than the source it has read.
THEOREM OwnKept == Spec => OwnFilesKept
<1> DEFINE Lost(t) == \/ pc = "trash"
                      \/ pc = "regen" /\ \E n \in todo : Mine(fs[Dot(n)], t)
                      \/ \E n \in Name : Mine(trash[n], t) /\ trash'[n] \notin {trash[n], Nothing}
                      \/ \E n \in Busy : Mine(fs[Bin(n)], t) /\ t < building[n]
           Kept == \A t \in 1..clock : Have(t) => Have(t)' \/ Lost(t)
<1>1. ASSUME MInv, [Next]_vars
      PROVE  Kept
  <2> SUFFICES ASSUME NEW t \in 1..clock, Have(t), ~Lost(t)
               PROVE  Have(t)'
    OBVIOUS
  <2> USE DEF Mine
  <2>0. /\ TypeOK /\ Shapes /\ Plan /\ Versions
        /\ ~Mine(Nothing, t) /\ \A v : ~Mine(LinkTo(v), t) \/ v = "own"
        /\ fs \in [Path -> Entry] /\ trash \in [Name -> Entry] /\ t \in Nat /\ t > 0 /\ clock \in Nat
    BY <1>1 DEF MInv, TypeOK, Nothing, LinkTo
  <2>1. ASSUME fs' = fs, trash' = trash
        PROVE  Have(t)'
    BY <2>1 DEF Have
  <2>2. ASSUME trash' = trash, NEW p \in Path, ~Mine(fs[p], t), \A q \in Path : q # p => fs'[q] = fs[q]
        PROVE  Have(t)'
    BY <2>2 DEF Have
  <2>3. ASSUME NEW p \in Path, NEW n \in Name, fs[p] # Nothing,
               fs' = [fs EXCEPT ![p] = Nothing], trash' = [trash EXCEPT ![n] = fs[p]]
        PROVE  Have(t)'
    <3>1. trash'[n] = fs[p] /\ \A m \in Name : m # n => trash'[m] = trash[m]
      BY <2>0, <2>3
    <3>2. \A q \in Path : q # p => fs'[q] = fs[q]
      BY <2>0, <2>3
    <3>3. Mine(trash[n], t) => Mine(trash'[n], t)
      BY <2>3, <3>1
    <3> QED
      BY <3>1, <3>2, <3>3 DEF Have
  <2>4. CASE User
    <3>1. trash' = trash
      BY <2>4 DEF User, PullUtil, Save, PullDot, PutOwn, home
    <3>2. \A p \in Path : Mine(fs[p], t) => fs'[p] = fs[p]
      BY <2>0, <2>4 DEF User, PullUtil, Save, PullDot, PutOwn, home, Nothing
    <3> QED
      BY <3>1, <3>2 DEF Have
  <2>5. CASE Begin \/ NextSection \/ SymlinkFails \/ Stop \/ UNCHANGED vars
    BY <2>1, <2>5 DEF Begin, NextSection, SymlinkFails, Stop, vars, home
  <2>6. CASE Symlink
    <3>1. fs[Place(hand)] = Nothing /\ trash' = trash
          /\ fs' = [fs EXCEPT ![Place(hand)] = LinkTo(Target)] /\ hand \in Name /\ Linking(hand)
          /\ Scope(hand)
      BY <2>0, <2>6 DEF Symlink, TypeOK, Plan
    <3>2. Place(hand) \in Path
      BY <3>1, PathFacts DEF Place, Scope
    <3> QED
      BY <2>0, <2>2, <3>1, <3>2
  <2>7. CASE ClearTrash
    BY <2>7 DEF ClearTrash
  <2>8. ASSUME NEW n \in Name, VisitLink(n)
        PROVE  Have(t)'
    <3>1. Place(n) \in Path /\ Place(n)[2] = n
      BY <2>0, <2>8, PathFacts DEF VisitLink, Plan, Scope, Place
    <3>2. CASE UNCHANGED home
      BY <2>1, <3>2 DEF home
    <3>3. CASE Exists(Place(n)) /\ fs' = [fs EXCEPT ![Place(n)] = Nothing]
               /\ trash' = [trash EXCEPT ![n] = fs[Place(n)]]
      <4>1. fs[Place(n)] # Nothing
        BY <3>3 DEF Exists, Nothing
      <4> QED
        BY <2>3, <3>1, <3>3, <4>1
    <3> QED
      BY <2>8, <3>1, <3>2, <3>3 DEF VisitLink, Displaced, home
  <2>9. ASSUME NEW n \in Name, RegenDot(n)
        PROVE  Have(t)'
    <3>1. Dot(n) \in Path /\ ~Mine(fs[Dot(n)], t)
      BY <2>0, <2>9, PathFacts DEF RegenDot, Plan, Scope
    <3>2. trash' = trash /\ \A q \in Path : q # Dot(n) => fs'[q] = fs[q]
      BY <2>0, <2>9 DEF RegenDot
    <3> QED
      BY <2>2, <3>1, <3>2
  <2>10. ASSUME NEW n \in Name, TrashBin(n)
         PROVE  Have(t)'
    <3>1. fs[Bin(n)] # Nothing /\ Bin(n) \in Path
      BY <2>0, <2>10, PathFacts DEF TrashBin, Plan, Scope, Unwanted
    <3> QED
      BY <2>3, <2>10, <3>1 DEF TrashBin
  <2>11. ASSUME NEW n \in Name, VisitSource(n) \/ Compile(n)
         PROVE  Have(t)'
    BY <2>1, <2>11 DEF VisitSource, Compile, home
  <2>12. ASSUME NEW n \in Name, Compiled(n)
         PROVE  Have(t)'
    <3>1. n \in Busy /\ trash' = trash /\ Bin(n) \in Path /\ building[n] \in Nat
          /\ \A q \in Path : q # Bin(n) => fs'[q] = fs[q]
      BY <2>0, <2>12, PathFacts DEF Compiled, TypeOK
    <3>2. ~Mine(fs[Bin(n)], t)
      <4> SUFFICES ASSUME Mine(fs[Bin(n)], t)
                   PROVE  FALSE
        OBVIOUS
      <4>1. Exists(Bin(n)) /\ ModTime(n) = t
        BY <2>0, <3>1 DEF Shapes, Exists, ModTime
      <4>2. ~(ModTime(n) >= building[n])
        BY <2>0, <3>1, <4>1 DEF Versions
      <4>3. t < building[n]
        BY <2>0, <3>1, <4>1, <4>2
      <4> QED
        BY <3>1, <4>3
    <3> QED
      BY <2>2, <3>1, <3>2
  <2> QED
    BY <1>1, <2>4, <2>5, <2>6, <2>7, <2>8, <2>9, <2>10, <2>11, <2>12 DEF Next, Run
<1>2. Kept => [\A t \in 1..clock : Have(t) =>
         \/ Have(t)'
         \/ pc = "trash"
         \/ pc = "regen" /\ \E n \in todo : Mine(fs[Dot(n)], t)
         \/ \E n \in Name : Mine(trash[n], t) /\ trash'[n] \notin {trash[n], Nothing}
         \/ \E n \in Busy : Mine(fs[Bin(n)], t) /\ t < building[n]]_vars
  OBVIOUS
<1> HIDE DEF Kept
<1> QED
  BY <1>1, <1>2, Inductive, PTL DEF Spec, OwnFilesKept

\* Once a run is through, further ones change nothing until the user does,
\* whether they get to their end or not (SecondRunIdle).
THEOREM SecondIdle == Spec => SecondRunIdle
<1>1. ASSUME MInv, [Next]_vars
      PROVE  since = "settled" /\ since' = "settled" => UNCHANGED <<home, dots>>
  <2> SUFFICES ASSUME since = "settled", since' = "settled"
               PROVE  fs' = fs /\ trash' = trash /\ dots' = dots
    BY DEF home
  <2>0. /\ TypeOK /\ Shapes /\ Plan
        /\ hand = NoName /\ jobs = {}
        /\ \A n \in Name :
             /\ trash[n] = Nothing
             /\ kind[n] = "tool"   => fs[Bin(n)] = LinkTo("ybb")
             /\ kind[n] = "none"   => fs[Bin(n)] = Nothing
             /\ kind[n] = "script" => fs[Bin(n)] = LinkTo("util")
        /\ \A n \in DotName :
             /\ dots[n].plain >= 0 => fs[Dot(n)] = LinkTo("dot")
             /\ dots[n].gen > 0    => ReadDot(n) = dots[n].gen
    BY <1>1 DEF MInv, Settled
  <2>1. ~User
    BY DEF User, PullUtil, Save, PullDot, PutOwn, Change
  <2>2. CASE Begin \/ NextSection \/ SymlinkFails \/ Stop \/ UNCHANGED vars
    BY <2>2 DEF Begin, NextSection, SymlinkFails, Stop, vars, home, repo
  <2>3. CASE Symlink
    BY <2>0, <2>3 DEF Symlink
  <2>4. CASE ClearTrash
    <3>1. trash' = [n \in Name |-> Nothing] /\ trash \in [Name -> Entry] /\ fs' = fs /\ dots' = dots
      BY <2>0, <2>4 DEF ClearTrash, TypeOK, repo
    <3>2. trash = [n \in Name |-> Nothing]
      BY <2>0, <3>1
    <3> QED
      BY <3>1, <3>2
  <2>5. ASSUME NEW n \in Name, VisitLink(n)
        PROVE  fs' = fs /\ trash' = trash /\ dots' = dots
    <3>1. fs[Place(n)] = LinkTo(Target)
      BY <2>0, <2>5 DEF VisitLink, Linking, Plan, Scope, Place, Target
    <3>2. Linked(n)
      BY <3>1 DEF Linked, LinkTo
    <3> QED
      BY <2>5, <3>2 DEF VisitLink, home, repo
  <2>6. ASSUME NEW n \in Name, RegenDot(n)
        PROVE  fs' = fs /\ trash' = trash /\ dots' = dots
    BY <2>0, <2>6 DEF RegenDot, Plan, Scope
  <2>7. ASSUME NEW n \in Name, TrashBin(n)
        PROVE  FALSE
    BY <2>0, <2>7 DEF TrashBin, Plan, Scope, Unwanted
  <2>8. ASSUME NEW n \in Name, VisitSource(n) \/ Compile(n)
        PROVE  fs' = fs /\ trash' = trash /\ dots' = dots
    BY <2>8 DEF VisitSource, Compile, home, repo
  <2>9. ASSUME NEW n \in Name, Compiled(n)
        PROVE  FALSE
    BY <2>0, <2>9 DEF Compiled, Plan
  <2> QED
    BY <1>1, <2>1, <2>2, <2>3, <2>4, <2>5, <2>6, <2>7, <2>8, <2>9 DEF Next, Run
<1> QED
  BY <1>1, Inductive, PTL DEF Spec, SecondRunIdle

==============================================================================
