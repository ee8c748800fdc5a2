---------------------------- MODULE PreviewProofs ----------------------------
(***************************************************************************)
(* Proofs about Preview, for any number of browsers, any texts, capacities *)
(* and times: a browser is in the queue or held at most once, one that has *)
(* the time of the file has its text, and no script ends without a reason; *)
(* and that the two conversions undo each other on texts of any length.    *)
(***************************************************************************)
EXTENDS Preview, SequenceTheorems, FiniteSetTheorems, WellFoundedInduction, TLAPS

Req == [b : Browser, ts : 0..MaxTime]

Types ==
    /\ TypeOK
    /\ wq \in Seq(Req) /\ waiting \in Seq(Req)
    /\ file.time \in Nat /\ file.version \in Nat
    /\ lastMod \in Nat /\ content \in Nat
    /\ ts \in [Browser -> Nat] /\ shown \in [Browser -> Nat]
    /\ merged \in BOOLEAN /\ backwards \in BOOLEAN

\* No browser has two requests, and one that has asked and not left has one.
Places ==
    /\ \A i, j \in DOMAIN wq : wq[i].b = wq[j].b => i = j
    /\ \A i, j \in DOMAIN waiting : waiting[i].b = waiting[j].b => i = j
    /\ \A i \in DOMAIN wq, j \in DOMAIN waiting : wq[i].b # waiting[j].b
    /\ \A i \in DOMAIN wq : browser[wq[i].b] \in {"asked", "closed", "vanished"}
    /\ \A i \in DOMAIN waiting : browser[waiting[i].b] \in {"asked", "closed", "vanished"}
    /\ \A b \in Browser : browser[b] = "asked" =>
         \/ \E i \in DOMAIN wq : wq[i].b = b
         \/ \E i \in DOMAIN waiting : waiting[i].b = b

\* No browser is ahead of the server, nor the server of the file; what it is
\* about to read no browser has.
Times ==
    ~backwards =>
        /\ lastMod <= file.time
        /\ \A b \in Browser : ts[b] <= lastMod
        /\ \A i \in DOMAIN wq : wq[i].ts <= lastMod
        /\ pc = "read" => \A b \in Browser : ts[b] < lastMod

\* The HTML served is that of the file when the server has its time.
News ==
    /\ ~merged /\ ~backwards /\ pc \in {"stat", "select"} /\ lastMod = file.time =>
          content = file.version
    /\ WaitsForNews

PInv == Types /\ Places /\ Times /\ News

-----------------------------------------------------------------------------
(* The lemmas.                                                             *)

\* What is left of the queue, and what a request is added to.
LEMMA TailFacts ==
    ASSUME NEW s \in Seq(Req), s # << >>
    PROVE  /\ Head(s) = s[1] /\ s[1] \in Req /\ 1 \in DOMAIN s
           /\ Tail(s) \in Seq(Req) /\ Len(Tail(s)) = Len(s) - 1
           /\ DOMAIN s = 1..Len(s) /\ Len(s) \in Nat \ {0}
           /\ DOMAIN Tail(s) = 1..(Len(s) - 1)
           /\ \A i \in DOMAIN Tail(s) : Tail(s)[i] = s[i + 1] /\ i + 1 \in DOMAIN s
<1>1. /\ Tail(s) \in Seq(Req) /\ Len(Tail(s)) = Len(s) - 1
      /\ \A i \in 1..Len(Tail(s)) : Tail(s)[i] = s[i + 1]
  BY HeadTailProperties
<1>2. Len(s) \in Nat \ {0} /\ DOMAIN s = 1..Len(s)
  BY EmptySeq, LenProperties
<1> QED
  BY <1>1, <1>2

\* A request is one of a browser.
LEMMA RequestFacts ==
    ASSUME Types
    PROVE  /\ \A i \in DOMAIN wq : wq[i] \in Req /\ wq[i].b \in Browser
           /\ \A i \in DOMAIN waiting : waiting[i] \in Req /\ waiting[i].b \in Browser
<1>1. DOMAIN wq = 1..Len(wq) /\ DOMAIN waiting = 1..Len(waiting)
  BY LenProperties DEF Types
<1>2. /\ \A i \in DOMAIN wq : wq[i] \in Req
      /\ \A i \in DOMAIN waiting : waiting[i] \in Req
  BY <1>1, ElementOfSeq DEF Types
<1> QED
  BY <1>2 DEF Req

\* A request is added at the end.
LEMMA AppendFacts ==
    ASSUME NEW s \in Seq(Req), NEW r \in Req
    PROVE  /\ Append(s, r) \in Seq(Req) /\ Len(Append(s, r)) = Len(s) + 1
           /\ Len(s) \in Nat /\ DOMAIN s = 1..Len(s)
           /\ DOMAIN Append(s, r) = 1..(Len(s) + 1)
           /\ Append(s, r)[Len(s) + 1] = r
           /\ \A i \in 1..Len(s) : Append(s, r)[i] = s[i]
  BY AppendProperties, LenProperties

\* The slot of a browser that has left is one, or there is none.
LEMMA StaleFacts ==
    ASSUME Types
    PROVE  /\ StaleConn = 0 => \A i \in DOMAIN waiting : browser[waiting[i].b] # "closed"
           /\ StaleConn # 0 => /\ StaleConn \in DOMAIN waiting
                               /\ browser[waiting[StaleConn].b] = "closed"
<1> DEFINE I == {i \in 1..Len(waiting) : Gone(waiting[i])}
<1>1. DOMAIN waiting = 1..Len(waiting) /\ I \subseteq Nat /\ 0 \notin I
  BY LenProperties DEF Types
<1>2. StaleConn = IF I # {} THEN CHOOSE x \in I : \A y \in I : x <= y ELSE 0
  BY DEF StaleConn, SelectInSeq, Min
<1>3. CASE I = {}
  BY <1>1, <1>2, <1>3 DEF Gone
<1>4. CASE I # {}
  <2>1. PICK x \in I : \A y \in I : ~(<<y, x>> \in OpToRel(<, Nat))
    BY <1>1, <1>4, WFMin, NatLessThanWellFounded
  <2>2. ASSUME NEW y \in I, y < x
        PROVE  FALSE
    <3>1. <<y, x>> \in Nat \X Nat /\ <<y, x>>[1] < <<y, x>>[2]
      BY <1>1, <2>2
    <3>2. <<y, x>> \in OpToRel(<, Nat)
      BY <3>1, Zenon DEF OpToRel
    <3> QED
      BY <2>1, <3>2
  <2>3. StaleConn \in I
    <3>1. \A y \in I : x <= y
      BY <1>1, <2>2
    <3> QED
      BY <1>2, <1>4, <3>1
  <2> QED
    BY <1>1, <2>3 DEF Gone
<1> QED
  BY <1>3, <1>4

\* The next request, and the four answers it may get.
LEMMA ServeCases ==
    ASSUME Types, Serve
    PROVE  /\ wq[1] \in Req /\ wq # << >> /\ pc = "select" /\ pc' = "stat"
           /\ wq' = Tail(wq)
           /\ UNCHANGED <<tFlag, file, lastMod, content, merged, backwards>>
           /\ \/ /\ lastMod > wq[1].ts
                 /\ waiting' = waiting /\ Answered({wq[1].b})
              \/ /\ lastMod = wq[1].ts /\ Len(waiting) # Cap
                 /\ waiting' = Append(waiting, wq[1])
                 /\ UNCHANGED <<browser, ts, shown>>
              \/ /\ lastMod = wq[1].ts /\ Len(waiting) = Cap /\ StaleConn # 0
                 /\ waiting' = [waiting EXCEPT ![StaleConn] = wq[1]]
                 /\ UNCHANGED <<browser, ts, shown>>
              \/ /\ lastMod < wq[1].ts \/ (Len(waiting) = Cap /\ StaleConn = 0)
                 /\ waiting' = waiting /\ Refused(wq[1].b)
  BY TailFacts DEF Serve, Full, browsers, ghosts, Types

\* What log.Fatal leaves.
LEMMA FatalFacts ==
    ASSUME Types, LogFatal
    PROVE  /\ pc' = "dead" /\ wq' = << >> /\ waiting' = << >>
           /\ UNCHANGED <<lastMod, content, ts, shown>>
           /\ \A b \in Browser : browser'[b] = IF browser[b] = "asked" THEN "dead" ELSE browser[b]
           /\ browser' \in [Browser -> {"idle", "asked", "dead", "closed", "vanished"}]
           /\ wq' \in Seq(Req) /\ waiting' \in Seq(Req) /\ Len(wq') <= QueueCap /\ Len(waiting') <= Cap
           /\ DOMAIN wq' = {} /\ DOMAIN waiting' = {}
<1>1. browser' \in [Browser -> {"idle", "asked", "dead", "closed", "vanished"}]
  BY DEF LogFatal, Types, TypeOK
<1>2. << >> \in Seq(Req) /\ Len(<< >>) = 0 /\ DOMAIN << >> = {}
  BY EmptySeq
<1> QED
  BY <1>1, <1>2, PreviewAssumption DEF LogFatal

\* The types are kept.
LEMMA TypesStep ==
    ASSUME Types, [Next]_vars
    PROVE  Types'
<1>1. CASE Write
  <2>1. /\ file'.time \in 1..MaxTime /\ file'.version \in Nat
        /\ merged' \in BOOLEAN /\ backwards' \in BOOLEAN
    BY <1>1 DEF Write, Types
  <2> QED
    BY <1>1, <2>1 DEF Write, Types, TypeOK, server, browsers
<1>2. CASE Unlink
  BY <1>2, PreviewAssumption DEF Unlink, server, browsers, ghosts, Types, TypeOK
<1>0. ASSUME LogFatal, UNCHANGED <<tFlag, file, ghosts>>
      PROVE  Types'
  BY <1>0, FatalFacts DEF ghosts, Types, TypeOK
<1>3. CASE Stat
  <2>1. CASE ~LogFatal
    BY <1>3, <2>1, PreviewAssumption DEF Stat, server, browsers, ghosts, Types, TypeOK
  <2> QED
    BY <1>0, <1>3, <2>1 DEF Stat
<1>4. CASE Read /\ ~LogFatal
  <2>1. /\ waiting' = << >> /\ content' \in Nat /\ pc' = "select"
        /\ UNCHANGED <<file, lastMod, wq, merged, backwards>>
    BY <1>4 DEF Read, ghosts, Types
  <2>2. /\ browser' \in [Browser -> {"idle", "asked", "dead", "closed", "vanished"}]
        /\ ts' \in [Browser -> 0..MaxTime] /\ shown' \in [Browser -> Nat]
    BY <1>4, <2>1 DEF Read, browsers, Answered, Types, TypeOK
  <2>3. waiting' \in Seq(Req) /\ Len(waiting') <= Cap
    BY <2>1, PreviewAssumption, EmptySeq
  <2> QED
    BY <2>1, <2>2, <2>3 DEF Types, TypeOK
<1>5. CASE Timer
  BY <1>5, PreviewAssumption DEF Timer, server, browsers, ghosts, Types, TypeOK
<1>6. CASE Serve
  <2>0. /\ wq' = Tail(wq) /\ wq # << >> /\ pc' = "stat" /\ wq[1] \in Req
        /\ UNCHANGED <<tFlag, file, lastMod, content, merged, backwards>>
    BY <1>6, ServeCases
  <2>1. wq' \in Seq(Req) /\ Len(wq') = Len(wq) - 1 /\ Len(wq) \in Nat
    BY <2>0, TailFacts DEF Types
  <2>2. waiting' \in Seq(Req) /\ Len(waiting') <= Cap
    <3>1. CASE waiting' = waiting
      BY <3>1 DEF Types, TypeOK
    <3>2. CASE Len(waiting) # Cap /\ waiting' = Append(waiting, wq[1])
      BY <2>0, <3>2, AppendFacts, PreviewAssumption DEF Types, TypeOK
    <3>3. CASE StaleConn # 0 /\ waiting' = [waiting EXCEPT ![StaleConn] = wq[1]]
      BY <2>0, <3>3, StaleFacts, LenProperties, ExceptSeq DEF Types, TypeOK
    <3> QED
      BY <1>6, <3>1, <3>2, <3>3, ServeCases
  <2>3. /\ browser' \in [Browser -> {"idle", "asked", "dead", "closed", "vanished"}]
        /\ ts' \in [Browser -> 0..MaxTime] /\ shown' \in [Browser -> Nat]
        /\ ts' \in [Browser -> Nat]
    BY <1>6, <2>0, ServeCases, PreviewAssumption DEF Types, TypeOK, Answered, Refused
  <2>4. Len(wq') <= QueueCap
    BY <2>1, PreviewAssumption DEF Types, TypeOK
  <2> QED
    BY <2>0, <2>1, <2>2, <2>3, <2>4 DEF Types, TypeOK
<1>7. ASSUME NEW b \in Browser, Ask(b)
      PROVE  Types'
  <2>1. [b |-> b, ts |-> ts[b]] \in Req
    BY DEF Req, Types, TypeOK
  <2>2. wq' \in Seq(Req) /\ Len(wq') <= QueueCap
    BY <1>7, <2>1, AppendFacts, PreviewAssumption DEF Ask, Types, TypeOK
  <2> QED
    BY <1>7, <2>2 DEF Ask, Types, TypeOK, ghosts
<1>8. ASSUME NEW b \in Browser, Close(b) \/ FetchFails(b)
      PROVE  Types'
  <2>1. browser' \in [Browser -> {"idle", "asked", "dead", "closed", "vanished"}]
    BY <1>8 DEF Close, FetchFails, Types, TypeOK
  <2>2. UNCHANGED <<tFlag, file, server, ts, shown, ghosts>>
    BY <1>8 DEF Close, FetchFails
  <2> QED
    BY <2>1, <2>2, PreviewAssumption DEF server, ghosts, Types, TypeOK
<1>9. CASE UNCHANGED vars
  BY <1>9, PreviewAssumption DEF vars, server, browsers, ghosts, Types, TypeOK
<1>10. CASE Read /\ LogFatal
  BY <1>0, <1>10 DEF Read
<1> QED
  BY <1>1, <1>2, <1>3, <1>4, <1>5, <1>6, <1>7, <1>8, <1>9, <1>10 DEF Next, Serving

\* No request is lost or made twice.
LEMMA PlacesStep ==
    ASSUME Types, Places, [Next]_vars
    PROVE  Places'
<1>1. CASE Write
  BY <1>1 DEF Write, server, browsers, ghosts, Places
<1>2. CASE Unlink
  BY <1>2 DEF Unlink, server, browsers, ghosts, Places
<1>0. CASE LogFatal
  <2>1. \A b \in Browser : browser'[b] # "asked"
    BY <1>0, FatalFacts DEF Types, TypeOK
  <2> QED
    BY <1>0, <2>1, FatalFacts DEF Places
<1>3. CASE Stat
  <2>1. CASE ~LogFatal
    BY <1>3, <2>1 DEF Stat, server, browsers, ghosts, Places
  <2> QED
    BY <1>0, <2>1
<1>4. CASE Read
  <2> DEFINE reqs == {waiting[i].b : i \in DOMAIN waiting}
  <2>2. CASE Answered(reqs) /\ waiting' = << >> /\ ~LogFatal
    <3>1. wq' = wq /\ DOMAIN waiting' = {}
      BY <1>4, <2>2 DEF Read
    <3>2. \A b \in Browser : browser'[b] = IF b \in reqs /\ browser[b] = "asked" THEN "idle" ELSE browser[b]
      BY <2>2 DEF Answered
    <3>3. \A i \in DOMAIN wq : wq[i].b \notin reqs /\ wq[i].b \in Browser
      BY RequestFacts DEF Places
    <3>4. ASSUME NEW b \in Browser, browser'[b] = "asked"
          PROVE  \E i \in DOMAIN wq : wq[i].b = b
      BY <3>2, <3>4 DEF Places
    <3> QED
      BY <3>1, <3>2, <3>3, <3>4 DEF Places
  <2> QED
    BY <1>0, <1>4, <2>2 DEF Read
<1>5. CASE Timer
  BY <1>5 DEF Timer, server, browsers, ghosts, Places
<1>6. CASE Serve
  <2> DEFINE r == wq[1]
  <2>1. /\ wq # << >> /\ r \in Req /\ r.b \in Browser
        /\ wq \in Seq(Req) /\ waiting \in Seq(Req)
    BY <1>6, ServeCases DEF Types, Req
  <2>2. /\ DOMAIN wq = 1..Len(wq) /\ 1 \in DOMAIN wq /\ Len(wq) \in Nat
        /\ DOMAIN waiting = 1..Len(waiting) /\ Len(waiting) \in Nat
        /\ DOMAIN wq' = 1..(Len(wq) - 1)
        /\ \A i \in DOMAIN wq' : wq'[i] = wq[i + 1] /\ i + 1 \in DOMAIN wq
    BY <1>6, <2>1, ServeCases, TailFacts, LenProperties
  <2>3. /\ \A i \in DOMAIN wq' : wq'[i].b # r.b /\ wq'[i].b \in Browser
        /\ \A i, j \in DOMAIN wq' : wq'[i].b = wq'[j].b => i = j
        /\ \A i \in DOMAIN wq', j \in DOMAIN waiting : wq'[i].b # waiting[j].b
        /\ \A i \in DOMAIN waiting : waiting[i].b # r.b /\ waiting[i].b \in Browser
        /\ \A i \in DOMAIN wq' : browser[wq'[i].b] \in {"asked", "closed", "vanished"}
    BY <2>2, RequestFacts DEF Places
  <2>4. ASSUME NEW b \in Browser, b # r.b, browser[b] = "asked"
        PROVE  (\E i \in DOMAIN wq' : wq'[i].b = b) \/ \E i \in DOMAIN waiting : waiting[i].b = b
    <3>1. CASE \E i \in DOMAIN wq : wq[i].b = b
      <4>1. PICK i \in DOMAIN wq : wq[i].b = b
        BY <3>1
      <4>2. i - 1 \in DOMAIN wq' /\ wq'[i - 1] = wq[i]
        BY <2>2, <2>4, <4>1
      <4> QED
        BY <4>1, <4>2
    <3> QED
      BY <2>4, <3>1 DEF Places
  <2>5. browser[r.b] \in {"asked", "closed", "vanished"}
    BY <2>2 DEF Places
  <2> HIDE DEF r
  <2>6. CASE waiting' = waiting /\ (Answered({r.b}) \/ Refused(r.b))
    <3>1. /\ \A b \in Browser : b # r.b => browser'[b] = browser[b]
          /\ browser'[r.b] # "asked"
      BY <2>1, <2>5, <2>6 DEF Answered, Refused, Types, TypeOK
    <3> QED
      BY <2>3, <2>4, <2>6, <3>1 DEF Places
  <2>7. CASE waiting' = Append(waiting, r) /\ browser' = browser
    <3>1. /\ DOMAIN waiting' = 1..(Len(waiting) + 1) /\ waiting'[Len(waiting) + 1] = r
          /\ \A i \in DOMAIN waiting : waiting'[i] = waiting[i]
      BY <2>1, <2>2, <2>7, AppendFacts
    <3>2. \A i \in DOMAIN waiting' : i = Len(waiting) + 1 \/ i \in DOMAIN waiting
      BY <2>2, <3>1
    <3>3. Len(waiting) + 1 \in DOMAIN waiting' /\ DOMAIN waiting \subseteq DOMAIN waiting'
      BY <2>2, <3>1
    <3>4. ASSUME NEW b \in Browser, browser'[b] = "asked"
          PROVE  (\E i \in DOMAIN wq' : wq'[i].b = b) \/ \E i \in DOMAIN waiting' : waiting'[i].b = b
      BY <2>4, <2>7, <3>1, <3>3, <3>4
    <3> QED
      BY <2>3, <2>5, <2>7, <3>1, <3>2, <3>4 DEF Places
  <2>8. CASE StaleConn # 0 /\ waiting' = [waiting EXCEPT ![StaleConn] = r] /\ browser' = browser
    <3>1. /\ StaleConn \in DOMAIN waiting /\ browser[waiting[StaleConn].b] = "closed"
          /\ DOMAIN waiting' = DOMAIN waiting
          /\ \A i \in DOMAIN waiting : waiting'[i] = IF i = StaleConn THEN r ELSE waiting[i]
      BY <2>8, StaleFacts
    <3>2. ASSUME NEW b \in Browser, browser'[b] = "asked"
          PROVE  (\E i \in DOMAIN wq' : wq'[i].b = b) \/ \E i \in DOMAIN waiting' : waiting'[i].b = b
      BY <2>4, <2>8, <3>1, <3>2
    <3> QED
      BY <2>3, <2>5, <2>8, <3>1, <3>2 DEF Places
  <2> QED
    BY <1>6, <2>6, <2>7, <2>8, ServeCases DEF r
<1>7. ASSUME NEW b \in Browser, Ask(b)
      PROVE  Places'
  <2> DEFINE r == [b |-> b, ts |-> ts[b]]
  <2>1. r \in Req /\ r.b = b
    BY DEF Req, Types, TypeOK
  <2>2. /\ wq' = Append(wq, r) /\ waiting' = waiting /\ browser[b] = "idle"
        /\ wq \in Seq(Req)
        /\ \A c \in Browser : browser'[c] = IF c = b THEN "asked" ELSE browser[c]
    BY <1>7 DEF Ask, Types, TypeOK
  <2> HIDE DEF r
  <2>3. /\ DOMAIN wq' = 1..(Len(wq) + 1) /\ wq'[Len(wq) + 1] = r
        /\ DOMAIN wq = 1..Len(wq) /\ Len(wq) \in Nat
        /\ \A i \in DOMAIN wq : wq'[i] = wq[i]
    BY <2>1, <2>2, AppendFacts
  <2>4. /\ \A i \in DOMAIN wq' : i = Len(wq) + 1 \/ i \in DOMAIN wq
        /\ Len(wq) + 1 \in DOMAIN wq' /\ DOMAIN wq \subseteq DOMAIN wq'
    BY <2>3
  <2>5. /\ \A i \in DOMAIN wq : wq[i].b # b /\ wq[i].b \in Browser
        /\ \A i \in DOMAIN waiting : waiting[i].b # b /\ waiting[i].b \in Browser
    BY <2>2, RequestFacts DEF Places
  <2>6. ASSUME NEW c \in Browser, browser'[c] = "asked"
        PROVE  (\E i \in DOMAIN wq' : wq'[i].b = c) \/ \E i \in DOMAIN waiting' : waiting'[i].b = c
    <3>1. CASE c = b
      BY <2>1, <2>3, <2>4, <3>1
    <3>2. CASE c # b
      BY <2>2, <2>3, <2>4, <2>6, <3>2 DEF Places
    <3> QED
      BY <3>1, <3>2
  <2> QED
    BY <2>1, <2>2, <2>3, <2>4, <2>5, <2>6 DEF Places
<1>8. ASSUME NEW b \in Browser, Close(b)
      PROVE  Places'
  <2>1. /\ \A c \in Browser : c # b => browser'[c] = browser[c]
        /\ browser'[b] \in {"closed", "vanished"}
        /\ UNCHANGED <<wq, waiting>>
    BY <1>8 DEF Close, server, Types, TypeOK
  <2> QED
    BY <2>1, RequestFacts DEF Places
<1>10. ASSUME NEW b \in Browser, FetchFails(b)
       PROVE  Places'
  <2>1. /\ \A c \in Browser : c # b => browser'[c] = browser[c]
        /\ browser[b] = "idle" /\ browser'[b] = "dead"
        /\ UNCHANGED <<wq, waiting>>
    BY <1>10 DEF FetchFails, server, Types, TypeOK
  <2> QED
    BY <2>1, RequestFacts DEF Places
<1>9. CASE UNCHANGED vars
  BY <1>9 DEF vars, server, browsers, ghosts, Places
<1> QED
  BY <1>1, <1>2, <1>3, <1>4, <1>5, <1>6, <1>7, <1>8, <1>9, <1>10 DEF Next, Serving

\* Times only grow, unless a write turns one back.
LEMMA TimesStep ==
    ASSUME Types, Times, [Next]_vars
    PROVE  Times'
<1>1. CASE Write
  <2> SUFFICES ASSUME ~backwards' PROVE Times'
    BY DEF Times
  <2>1. /\ ~backwards /\ UNCHANGED <<lastMod, wq, ts, pc>>
        /\ file.time <= file'.time /\ file'.time \in Nat
    <3>1. PICK d \in Docs, t \in 1..MaxTime :
            /\ file' = [doc |-> d, time |-> t, version |-> file.version + 1, here |-> TRUE]
            /\ backwards' = (backwards \/ t < file.time)
      BY <1>1 DEF Write
    <3>2. file'.time = t /\ t \in Nat
      BY <3>1
    <3>3. ~backwards /\ ~(t < file.time)
      BY <3>1, Zenon
    <3> QED
      BY <1>1, <3>2, <3>3 DEF Write, server, browsers, Types
  <2> QED
    BY <2>1 DEF Times, Types
<1>2. CASE Unlink
  BY <1>2 DEF Unlink, server, browsers, ghosts, Times
<1>3. CASE Stat
  <2> SUFFICES ASSUME ~backwards' PROVE Times'
    BY DEF Times
  <2>1. CASE LogFatal
    BY <1>3, <2>1, FatalFacts DEF Stat, ghosts, Times
  <2> SUFFICES ASSUME ~LogFatal PROVE Times'
    BY <2>1
  <2>4. /\ ~backwards /\ UNCHANGED <<file, wq, ts, backwards>>
        /\ lastMod <= lastMod' /\ lastMod' <= file.time
        /\ pc' = "read" => lastMod < lastMod'
        /\ lastMod \in Nat /\ lastMod' \in Nat
    BY <1>3 DEF Stat, browsers, ghosts, Times, Types
  <2>2. \A i \in DOMAIN wq : wq[i].ts \in Nat
    BY RequestFacts DEF Req
  <2>3. \A b \in Browser : ts[b] \in Nat
    BY DEF Types
  <2> QED
    BY <2>2, <2>3, <2>4 DEF Times
<1>4. CASE Read
  <2> SUFFICES ASSUME ~backwards' PROVE Times'
    BY DEF Times
  <2>5. CASE LogFatal
    BY <1>4, <2>5, FatalFacts DEF Read, ghosts, Times
  <2> SUFFICES ASSUME ~LogFatal PROVE Times'
    BY <2>5
  <2>1. /\ ~backwards /\ UNCHANGED <<file, lastMod, wq, backwards>> /\ pc' # "read"
    BY <1>4 DEF Read, ghosts
  <2>2. \A b \in Browser : ts'[b] \in {ts[b], lastMod}
    BY <1>4, <2>1 DEF Read, browsers, Answered
  <2>3. \A b \in Browser : ts'[b] <= lastMod
    BY <2>1, <2>2, SMTT(30) DEF Times, Types
  <2>4. \A i \in DOMAIN wq' : wq'[i].ts <= lastMod
    BY <2>1 DEF Times
  <2> QED
    BY <2>1, <2>3, <2>4 DEF Times
<1>5. CASE Timer
  BY <1>5 DEF Timer, server, browsers, ghosts, Times
<1>6. CASE Serve
  <2> SUFFICES ASSUME ~backwards' PROVE Times'
    BY DEF Times
  <2>1. /\ ~backwards /\ UNCHANGED <<file, lastMod, backwards>> /\ pc' = "stat"
        /\ wq # << >> /\ wq' = Tail(wq) /\ wq \in Seq(Req)
    BY <1>6, ServeCases DEF Types
  <2>2. \A i \in DOMAIN wq' : wq'[i].ts <= lastMod
    BY <2>1, TailFacts DEF Times
  <2>3. \A b \in Browser : ts'[b] \in {ts[b], lastMod}
    BY <1>6, <2>1, ServeCases DEF Answered, Refused, Types
  <2>4. \A b \in Browser : ts'[b] <= lastMod
    <3>1. lastMod \in Nat /\ \A b \in Browser : ts[b] <= lastMod
      BY <2>1 DEF Times, Types
    <3>2. lastMod <= lastMod
      BY <3>1
    <3> QED
      BY <2>3, <3>1, <3>2
  <2> QED
    BY <2>1, <2>2, <2>4 DEF Times
<1>7. ASSUME NEW b \in Browser, Ask(b)
      PROVE  Times'
  <2> SUFFICES ASSUME ~backwards' PROVE Times'
    BY DEF Times
  <2>1. /\ ~backwards /\ UNCHANGED <<file, lastMod, backwards, ts, pc>>
        /\ wq' = Append(wq, [b |-> b, ts |-> ts[b]]) /\ wq \in Seq(Req)
        /\ [b |-> b, ts |-> ts[b]] \in Req
    BY <1>7 DEF Ask, ghosts, Types, TypeOK, Req
  <2>2. \A i \in DOMAIN wq' : wq'[i].ts <= lastMod
    <3>1. \A i \in DOMAIN wq' : (i \in DOMAIN wq /\ wq'[i] = wq[i]) \/ wq'[i] = [b |-> b, ts |-> ts[b]]
      BY <2>1, AppendFacts
    <3> QED
      BY <2>1, <3>1 DEF Times
  <2> QED
    BY <2>1, <2>2 DEF Times
<1>8. ASSUME NEW b \in Browser, Close(b) \/ FetchFails(b)
      PROVE  Times'
  BY <1>8 DEF Close, FetchFails, server, browsers, ghosts, Times
<1>9. CASE UNCHANGED vars
  BY <1>9 DEF vars, server, browsers, ghosts, Times
<1> QED
  BY <1>1, <1>2, <1>3, <1>4, <1>5, <1>6, <1>7, <1>8, <1>9 DEF Next, Serving

\* Text goes with its time, or with an earlier one.
LEMMA NewsStep ==
    ASSUME Types, Times, News, [Next]_vars
    PROVE  News'
<1>1. CASE Write
  <2> SUFFICES ASSUME ~merged', ~backwards' PROVE News'
    BY DEF News, WaitsForNews
  <2>1. /\ ~backwards /\ UNCHANGED <<lastMod, ts, pc>>
        /\ file.time < file'.time /\ file'.time \in Nat
    <3>1. PICK d \in Docs, t \in 1..MaxTime :
            /\ file' = [doc |-> d, time |-> t, version |-> file.version + 1, here |-> TRUE]
            /\ merged' = (merged \/ t = file.time)
            /\ backwards' = (backwards \/ t < file.time)
      BY <1>1 DEF Write
    <3>2. file'.time = t /\ t \in Nat
      BY <3>1
    <3>3. ~merged /\ ~backwards /\ ~(t < file.time) /\ t # file.time
      BY <3>1, Zenon
    <3> QED
      BY <1>1, <3>2, <3>3 DEF Write, server, browsers, Types
  <2>2. lastMod # file'.time /\ \A b \in Browser : ts[b] # file'.time
    <3>1. \A b \in Browser : ts[b] \in Nat
      BY DEF Types
    <3> QED
      BY <2>1, <3>1 DEF Times, Types
  <2> QED
    BY <2>1, <2>2 DEF News, WaitsForNews
<1>2. CASE Unlink
  BY <1>2 DEF Unlink, server, browsers, ghosts, News, WaitsForNews
<1>3. CASE Stat
  <2> SUFFICES ASSUME ~merged', ~backwards' PROVE News'
    BY DEF News, WaitsForNews
  <2>1. /\ ~merged /\ ~backwards /\ pc = "stat" /\ UNCHANGED <<file, content, ts, shown>>
        /\ pc' = "select" => lastMod = file.time
        /\ pc' # "stat"
    BY <1>3, FatalFacts DEF Stat, ghosts, browsers
  <2> QED
    BY <2>1 DEF News, WaitsForNews
<1>4. CASE Read
  <2> SUFFICES ASSUME ~merged', ~backwards' PROVE News'
    BY DEF News, WaitsForNews
  <2>1. /\ ~merged /\ ~backwards /\ pc = "read" /\ UNCHANGED <<file, lastMod>>
    BY <1>4, FatalFacts DEF Read, ghosts
  <2>2. CASE LogFatal
    BY <2>1, <2>2, FatalFacts DEF News, WaitsForNews
  <2>3. CASE content' = file.version /\ \E reqs : Answered(reqs)
    <3>1. ASSUME NEW b \in Browser, ts'[b] = file.time
          PROVE  shown'[b] = file.version
      <4>1. ts[b] # file.time
        BY <2>1 DEF Times, Types
      <4> QED
        BY <2>3, <3>1, <4>1 DEF Answered
    <3> QED
      BY <2>1, <2>3, <3>1 DEF News, WaitsForNews
  <2> QED
    BY <1>4, <2>2, <2>3 DEF Read
<1>5. CASE Timer
  BY <1>5 DEF Timer, server, browsers, ghosts, News, WaitsForNews
<1>6. CASE Serve
  <2> SUFFICES ASSUME ~merged', ~backwards' PROVE News'
    BY DEF News, WaitsForNews
  <2>1. /\ ~merged /\ ~backwards /\ pc = "select" /\ pc' = "stat"
        /\ UNCHANGED <<file, lastMod, content>>
    BY <1>6, ServeCases
  <2>2. \A b \in Browser : \/ ts'[b] = ts[b] /\ shown'[b] = shown[b]
                           \/ ts'[b] = lastMod /\ shown'[b] = content
    BY <1>6, <2>1, ServeCases DEF Answered, Refused, Types
  <2> QED
    BY <2>1, <2>2 DEF News, WaitsForNews
<1>7. ASSUME NEW b \in Browser, Ask(b)
      PROVE  News'
  BY <1>7 DEF Ask, server, browsers, ghosts, News, WaitsForNews
<1>8. ASSUME NEW b \in Browser, Close(b) \/ FetchFails(b)
      PROVE  News'
  BY <1>8 DEF Close, FetchFails, server, browsers, ghosts, News, WaitsForNews
<1>9. CASE UNCHANGED vars
  BY <1>9 DEF vars, server, browsers, ghosts, News, WaitsForNews
<1> QED
  BY <1>1, <1>2, <1>3, <1>4, <1>5, <1>6, <1>7, <1>8, <1>9 DEF Next, Serving

-----------------------------------------------------------------------------
(* The theorems.                                                           *)

\* The invariant holds at first.
LEMMA InitHolds == Init => PInv
<1> SUFFICES ASSUME Init PROVE PInv
  OBVIOUS
<1>1. wq = << >> /\ waiting = << >> /\ lastMod = 0 /\ content = 0 /\ pc = "stat" /\ file.time = 1
      /\ file.version = 1 /\ ts = [b \in Browser |-> 0] /\ shown = [b \in Browser |-> 0]
      /\ browser = [b \in Browser |-> "idle"] /\ merged = FALSE /\ backwards = FALSE
  BY DEF Init
<1>2. Types
  <2>1. wq \in Seq(Req) /\ waiting \in Seq(Req) /\ Len(wq) = 0 /\ Len(waiting) = 0
    BY <1>1, EmptySeq
  <2>2. /\ lastMod \in 0..MaxTime /\ file.time \in 1..MaxTime /\ pc \in {"stat", "read", "select", "dead"}
        /\ Len(wq) <= QueueCap /\ Len(waiting) <= Cap
        /\ browser \in [Browser -> {"idle", "asked", "dead", "closed", "vanished"}]
        /\ ts \in [Browser -> 0..MaxTime]
    BY <1>1, <2>1, PreviewAssumption
  <2>3. TypeOK
    BY <2>2 DEF TypeOK
  <2>4. ts \in [Browser -> Nat] /\ shown \in [Browser -> Nat]
    BY <1>1
  <2>5. merged \in BOOLEAN /\ backwards \in BOOLEAN
    BY <1>1, Zenon
  <2>6. file.time \in Nat /\ file.version \in Nat /\ lastMod \in Nat /\ content \in Nat
    BY <1>1
  <2> QED
    BY <2>1, <2>3, <2>4, <2>5, <2>6 DEF Types
<1>3. Places
  BY <1>1 DEF Places
<1>4. Times /\ News
  BY <1>1 DEF Times, News, WaitsForNews
<1> QED
  BY <1>2, <1>3, <1>4 DEF PInv

\* The invariant holds always.
LEMMA Inductive == Spec => []PInv
<1>1. PInv /\ [Next]_vars => PInv'
  BY TypesStep, PlacesStep, TimesStep, NewsStep DEF PInv
<1> QED
  BY <1>1, InitHolds, PTL DEF Spec

\* Unless a write bears the time of the one before or an earlier one, a browser
\* that has the time of the file shows the text of the file, so that it may
\* wait: whatever was written between the server's Stat and its read.
THEOREM NewsAwaited == Spec => []WaitsForNews
<1>1. PInv => WaitsForNews
  BY DEF PInv, News
<1> QED
  BY <1>1, Inductive, PTL

\* The number of a browser's requests in a list without two of them.
LEMMA CountOne ==
    ASSUME NEW s, NEW b, \A i, j \in DOMAIN s : s[i].b = s[j].b => i = j
    PROVE  Cardinality({i \in DOMAIN s : s[i].b = b}) =
             IF \E i \in DOMAIN s : s[i].b = b THEN 1 ELSE 0
<1>1. CASE \E i \in DOMAIN s : s[i].b = b
  <2>1. PICK i \in DOMAIN s : s[i].b = b
    BY <1>1
  <2>2. {j \in DOMAIN s : s[j].b = b} = {i}
    BY <2>1
  <2> QED
    BY <1>1, <2>2, FS_Singleton
<1>2. CASE ~\E i \in DOMAIN s : s[i].b = b
  <2>1. {j \in DOMAIN s : s[j].b = b} = {}
    BY <1>2
  <2> QED
    BY <1>2, <2>1, FS_EmptySet
<1> QED
  BY <1>1, <1>2

\* A browser that has asked is in the queue or held, in one place; the queue
\* and the array never have more than they can hold, and one that was answered
\* or refused has no request left behind.
THEOREM RequestsHeldOnce == Spec => []HeldOnce
<1>1. ASSUME PInv, NEW b \in Browser
      PROVE  /\ browser[b] = "asked" => Asks(b) = 1
             /\ browser[b] = "idle" => Asks(b) = 0
  <2>1. Asks(b) = (IF \E i \in DOMAIN wq : wq[i].b = b THEN 1 ELSE 0)
                  + (IF \E i \in DOMAIN waiting : waiting[i].b = b THEN 1 ELSE 0)
    <3>1. /\ \A i, j \in DOMAIN wq : wq[i].b = wq[j].b => i = j
          /\ \A i, j \in DOMAIN waiting : waiting[i].b = waiting[j].b => i = j
      BY <1>1 DEF PInv, Places
    <3>2. Cardinality({i \in DOMAIN wq : wq[i].b = b}) = IF \E i \in DOMAIN wq : wq[i].b = b THEN 1 ELSE 0
      BY <3>1, CountOne
    <3>3. Cardinality({i \in DOMAIN waiting : waiting[i].b = b}) = IF \E i \in DOMAIN waiting : waiting[i].b = b THEN 1 ELSE 0
      BY <3>1, CountOne
    <3> QED
      BY <3>2, <3>3 DEF Asks
  <2> QED
    BY <1>1, <2>1 DEF PInv, Places
<1>2. PInv => HeldOnce
  BY <1>1 DEF HeldOnce, PInv, Types
<1> QED
  BY <1>2, Inductive, PTL

\* The browsers of a full array, of which none is known to be gone, and the one
\* that asks are more than Cap.
LEMMA MoreThanHeld ==
    ASSUME Types, Places, wq # << >>, Len(waiting) = Cap, StaleConn = 0,
           browser[wq[1].b] = "asked"
    PROVE  Cardinality(Taking) > Cap
<1> DEFINE S == 1..(Cap + 1)
           T == Taking
           f == [i \in S |-> IF i <= Cap THEN waiting[i].b ELSE wq[1].b]
<1>1. IsFiniteSet(T)
  BY PreviewAssumption, FS_Subset DEF Taking
<1>2. IsFiniteSet(S) /\ Cardinality(S) = Cap + 1
  BY PreviewAssumption, FS_Interval
<1>3. DOMAIN waiting = 1..Cap /\ 1 \in DOMAIN wq
  BY LenProperties, TailFacts DEF Types
<1>4. \A i \in 1..Cap : waiting[i].b \in T
  BY <1>3, RequestFacts, StaleFacts DEF Places, Taking
<1>5. wq[1].b \in T
  BY <1>3, RequestFacts DEF Taking
<1>6. f \in [S -> T]
  BY <1>4, <1>5, PreviewAssumption
<1>7. \A i, j \in S : i # j => f[i] # f[j]
  <2> TAKE i, j \in S
  <2>1. CASE i <= Cap /\ j <= Cap
    BY <1>3, <2>1, PreviewAssumption DEF Places
  <2>2. CASE i <= Cap /\ ~(j <= Cap)
    BY <1>3, <2>2, PreviewAssumption DEF Places
  <2>3. CASE ~(i <= Cap) /\ j <= Cap
    BY <1>3, <2>3, PreviewAssumption DEF Places
  <2>4. CASE ~(i <= Cap) /\ ~(j <= Cap)
    BY <2>4, PreviewAssumption
  <2> QED
    BY <2>1, <2>2, <2>3, <2>4
<1> HIDE DEF S, T, f
<1>8. ~(Cardinality(T) < Cardinality(S))
  BY <1>1, <1>2, <1>6, <1>7, FS_PigeonHole
<1>9. Cardinality(T) > Cap
  BY <1>1, <1>2, <1>8, FS_CardinalityType, PreviewAssumption
<1> QED
  BY <1>9 DEF T

\* While the network works, a script ends only when the server has ended, when a
\* write has turned the time back, or when there are more browsers than the
\* array holds: one that has closed its connection never costs another its place,
\* and no browser is told that it is ahead of the file.
THEOREM DiesForAReason == Spec => DiesOnlyIf
<1> DEFINE Reason == pc' = "dead" \/ backwards \/ Cardinality(Taking) > Cap
           Step == \A b \in Browser : browser[b] # "dead" /\ browser'[b] = "dead" => Reason
<1>1. ASSUME PInv, [Next]_vars
      PROVE  Step
  <2> SUFFICES ASSUME NEW b \in Browser, browser[b] # "dead", browser'[b] = "dead", pc' # "dead" PROVE Reason
    OBVIOUS
  <2>1. Serve
    <3>1. browser' # browser
      OBVIOUS
    <3>4. ~LogFatal
      BY DEF LogFatal
    <3>2. ~Read
      BY <1>1, <3>4 DEF Read, Answered, browsers, PInv, Types, TypeOK
    <3>3. ASSUME NEW c \in Browser, Ask(c) \/ FetchFails(c) \/ Close(c)
          PROVE  FALSE
      <4>1. browser \in [Browser -> {"idle", "asked", "dead", "closed", "vanished"}]
        BY <1>1 DEF PInv, Types, TypeOK
      <4>3. ~FetchFails(c)
        BY DEF FetchFails, server
      <4>2. browser'[b] \in {browser[b], "asked", "closed", "vanished"}
        BY <3>3, <4>1, <4>3 DEF Ask, Close
      <4> QED
        BY <4>2
    <3> QED
      BY <1>1, <3>1, <3>2, <3>3, <3>4 DEF Next, Serving, Write, Unlink, Stat, Timer, vars, browsers
  <2>2. Types /\ Places /\ Times
    BY <1>1 DEF PInv
  <2>3. /\ wq # << >> /\ Refused(wq[1].b)
        /\ lastMod < wq[1].ts \/ (Len(waiting) = Cap /\ StaleConn = 0)
    BY <2>1, <2>2, ServeCases DEF Answered, Types, TypeOK
  <2>4. b = wq[1].b /\ browser[b] = "asked"
    BY <2>2, <2>3 DEF Refused, Types, TypeOK
  <2>5. CASE lastMod < wq[1].ts
    <3>1. 1 \in DOMAIN wq /\ wq[1] \in Req
      BY <2>2, <2>3, TailFacts DEF Types
    <3> QED
      BY <2>2, <2>5, <3>1 DEF Times, Types, Req
  <2>6. CASE Len(waiting) = Cap /\ StaleConn = 0
    BY <2>2, <2>3, <2>4, <2>6, MoreThanHeld
  <2> QED
    BY <2>3, <2>5, <2>6
<1>2. PInv /\ [Next]_vars => [Step]_vars
  BY <1>1
<1> QED
  BY <1>2, Inductive, PTL DEF Spec, DiesOnlyIf

-----------------------------------------------------------------------------
(***************************************************************************)
(* Folds.                                                                  *)
(***************************************************************************)
\* Induction, for a set of positions.
LEMMA UpTo ==
    ASSUME NEW n \in Nat, NEW A, 0 \in A, \A i \in 1..n : i - 1 \in A => i \in A
    PROVE  \A i \in 0..n : i \in A
<1> DEFINE Bad == {i \in 0..n : i \notin A}
<1> SUFFICES ASSUME Bad # {} PROVE FALSE
  OBVIOUS
<1>1. Bad \in SUBSET Nat
  OBVIOUS
<1>2. PICK k \in Bad : \A j \in Bad : <<j, k>> \notin OpToRel(<, Nat)
  <2> HIDE DEF Bad
  <2> QED
    BY <1>1, NatLessThanWellFounded, WFMin
<1>3. \A j \in Bad : ~(j < k)
  <2> HIDE DEF Bad
  <2> QED
    BY <1>1, <1>2 DEF OpToRel
<1>4. k \in 1..n /\ k \notin A /\ k - 1 \in 0..n
  OBVIOUS
<1>5. k - 1 \in Bad => FALSE
  <2> HIDE DEF Bad
  <2>1. k - 1 < k
    BY <1>4
  <2> QED
    BY <1>3, <2>1
<1> QED
  BY <1>4, <1>5

\* There is a function with the equation of a fold.
HasFold(S, b, G, s) ==
    \E f \in [0..Len(s) -> S] : f[0] = b /\ \A i \in 1..Len(s) : f[i] = G[<<f[i - 1], s[i]>>]

\* For a step with values there is a function with the equation of the fold.
LEMMA FoldExists ==
    ASSUME NEW S, NEW T, NEW b \in S, NEW G \in [S \X T -> S], NEW s \in Seq(T)
    PROVE  HasFold(S, b, G, s)
<1> DEFINE Is(f, k) == f[0] = b /\ \A i \in 1..k : f[i] = G[<<f[i - 1], s[i]>>]
           A == {k \in 0..Len(s) : \E f \in [0..k -> S] : Is(f, k)}
<1>1. Len(s) \in Nat /\ \A i \in 1..Len(s) : s[i] \in T
  OBVIOUS
<1>2. 0 \in A
  <2> DEFINE z == [i \in 0..0 |-> b]
  <2>1. z \in [0..0 -> S] /\ z[0] = b
    OBVIOUS
  <2>2. Is(z, 0)
    <3> HIDE DEF z
    <3> QED
      BY <2>1
  <2> HIDE DEF z, Is
  <2> QED
    BY <1>1, <2>1, <2>2
<1>3. ASSUME NEW k \in 1..Len(s), k - 1 \in A
      PROVE  k \in A
  <2>1. PICK f \in [0..k - 1 -> S] : Is(f, k - 1)
    BY <1>3
  <2> DEFINE c == G[<<f[k - 1], s[k]>>]
             g == [i \in 0..k |-> IF i = k THEN c ELSE f[i]]
  <2>2. c \in S
    BY <1>1, <2>1
  <2>3. g \in [0..k -> S]
    <3> HIDE DEF c
    <3> QED
      BY <2>1, <2>2
  <2>4. Is(g, k)
    <3>1. g[0] = b /\ g[k] = c /\ \A i \in 0..k - 1 : g[i] = f[i]
      <4> HIDE DEF c
      <4> QED
        BY <2>1
    <3>2. ASSUME NEW i \in 1..k
          PROVE  g[i] = G[<<g[i - 1], s[i]>>]
      <4> HIDE DEF g
      <4>1. CASE i = k
        <5>1. i - 1 \in 0..k - 1
          BY <4>1
        <5> QED
          BY <3>1, <4>1, <5>1 DEF c
      <4>2. CASE i # k
        <5>1. i \in 1..k - 1 /\ i \in 0..k - 1 /\ i - 1 \in 0..k - 1
          BY <4>2
        <5> QED
          BY <2>1, <3>1, <5>1
      <4> QED
        BY <4>1, <4>2
    <3> HIDE DEF g
    <3> QED
      BY <3>1, <3>2
  <2> HIDE DEF Is, g, c
  <2> QED
    BY <2>3, <2>4
<1>4. Len(s) \in A
  <2> HIDE DEF A
  <2> QED
    <3>1. \A i \in 0..Len(s) : i \in A
      BY <1>1, <1>2, <1>3, UpTo, Zenon
    <3> QED
      BY <1>1, <3>1
<1> QED
  BY <1>4 DEF HasFold

\* v is the value of a fold over s: it comes from b by the steps of G.
Folds(S, b, G, s, v) ==
    \E f \in [0..Len(s) -> S] :
        f[0] = b /\ f[Len(s)] = v /\ \A i \in 1..Len(s) : f[i] = G[<<f[i - 1], s[i]>>]

\* Two functions that take the same steps, and two that have the same values.
Agree(n, f, g) == \A i \in 0..n : f[i] = g[i]
SameSteps(n, f, g) == f[0] = g[0] /\ \A i \in 1..n : f[i - 1] = g[i - 1] => f[i] = g[i]
\* There is one value only, whatever else a function with the equation does.
LEMMA FoldUnique ==
    ASSUME NEW n \in Nat, NEW f, NEW g, SameSteps(n, f, g)
    PROVE  Agree(n, f, g)
<1> DEFINE A == {i \in 0..n : f[i] = g[i]}
<1>1. 0 \in A
  BY DEF SameSteps
<1>2. \A i \in 1..n : i - 1 \in A => i \in A
  BY DEF SameSteps
<1>3. \A i \in 0..n : i \in A
  <2> HIDE DEF A
  <2> QED
    BY <1>1, <1>2, UpTo
<1> QED
  BY <1>3 DEF Agree

\* c takes the steps of a fold as long as it has the values for it.
Steps(S, b, G, s, c) ==
    c[0] = b /\ \A i \in 1..Len(s) : c[i - 1] \in S => c[i] = G[<<c[i - 1], s[i]>>]
\* So the value of a fold is one that its steps lead to.
LEMMA FoldValue ==
    ASSUME NEW S, NEW T, NEW b \in S, NEW G \in [S \X T -> S], NEW s \in Seq(T), NEW c,
           Steps(S, b, G, s, c)
    PROVE  Folds(S, b, G, s, c[Len(s)])
<1>1. HasFold(S, b, G, s)
  BY FoldExists, Zenon
<1>2. PICK f \in [0..Len(s) -> S] : f[0] = b /\ \A i \in 1..Len(s) : f[i] = G[<<f[i - 1], s[i]>>]
  BY <1>1 DEF HasFold
<1>3. Len(s) \in Nat /\ Len(s) \in 0..Len(s) /\ \A i \in 1..Len(s) : f[i - 1] \in S
  BY <1>2
<1>4. SameSteps(Len(s), f, c)
  BY <1>2, <1>3 DEF SameSteps, Steps
<1>5. Agree(Len(s), f, c)
  BY <1>3, <1>4, FoldUnique, Zenon
<1>6. f[Len(s)] = c[Len(s)]
  BY <1>3, <1>5 DEF Agree
<1> QED
  BY <1>2, <1>6 DEF Folds

\* It has the type of the steps.
LEMMA FoldType ==
    ASSUME NEW S, NEW T, NEW b, NEW G, NEW s \in Seq(T), NEW v, Folds(S, b, G, s, v)
    PROVE  v \in S /\ (s = <<>> => v = b)
<1>1. Len(s) \in 0..Len(s) /\ (s = <<>> => Len(s) = 0)
  OBVIOUS
<1> QED
  BY <1>1 DEF Folds

\* One element more is one step more.
LEMMA FoldAppend ==
    ASSUME NEW S, NEW T, NEW b, NEW G, NEW s \in Seq(T), NEW t \in T, NEW v, NEW w,
           Folds(S, b, G, s, v), Folds(S, b, G, Append(s, t), w)
    PROVE  w = G[<<v, t>>]
<1> DEFINE n == Len(s)
           u == Append(s, t)
<1>1. n \in Nat /\ Len(u) = n + 1 /\ u[n + 1] = t /\ \A i \in 1..n : u[i] = s[i]
  OBVIOUS
<1> HIDE DEF u
<1>2. PICK f \in [0..n -> S] : f[0] = b /\ f[n] = v /\ \A i \in 1..n : f[i] = G[<<f[i - 1], s[i]>>]
  BY DEF Folds
<1>3. PICK g \in [0..Len(u) -> S] :
        g[0] = b /\ g[Len(u)] = w /\ \A i \in 1..Len(u) : g[i] = G[<<g[i - 1], u[i]>>]
  BY DEF Folds, u
<1>4. \A i \in 1..n : i \in 1..Len(u)
  BY <1>1
<1>5. SameSteps(n, f, g)
  BY <1>1, <1>2, <1>3, <1>4 DEF SameSteps
<1>6. Agree(n, f, g)
  BY <1>1, <1>5, FoldUnique, Zenon
<1>7. n \in 0..n /\ n + 1 \in 1..Len(u) /\ (n + 1) - 1 = n
  BY <1>1
<1>8. g[n + 1] = G[<<g[(n + 1) - 1], u[n + 1]>>]
  BY <1>3, <1>7
<1>9. g[n] = v
  BY <1>2, <1>6, <1>7 DEF Agree
<1> QED
  BY <1>1, <1>3, <1>7, <1>8, <1>9

-----------------------------------------------------------------------------
(***************************************************************************)
(* The folds over tokens.                                                  *)
(***************************************************************************)
TagList == {"<div>", "</div>", "<p>", "</p>", "<pre>", "</pre>", "<ul>", "</ul>", "<li>", "</li>",
            "<span>", "</span>", "<blockquote>", "</blockquote>"}
Marks   == {"<!-- - -->", "<!-- # -->", "<!-- > -->"}
Words   == {"x", "_", "\n", "- ", "# ", "## ", "> ", ">", "#own", "#other"}
Token   == TagList \cup Marks \cup Words
Tokens == Seq(Token)

\* The tags, one by one.
LEMMA TagFacts == Tags = TagList
<1>1. \A t : (\E p \in TagPairs : t \in {p[1], p[2]}) <=> t \in TagList
  BY DEF TagPairs, TagList
<1> QED
  BY <1>1, Zenon DEF Tags

\* The hidden markers, one by one.
LEMMA HiddenFacts ==
    /\ DOMAIN Hidden = Marks
    /\ Hidden["<!-- - -->"] = "- " /\ Hidden["<!-- # -->"] = "# " /\ Hidden["<!-- > -->"] = "> "
  BY DEF Hidden, Marks

\* What each sort of token shows.
LEMMA UntagCases ==
    ASSUME NEW text, NEW t \in Token
    PROVE  /\ t \in TagList => Untag(text, t) = text
           /\ t = "<!-- - -->" => Untag(text, t) = Append(text, "- ")
           /\ t = "<!-- # -->" => Untag(text, t) = Append(text, "# ")
           /\ t = "<!-- > -->" => Untag(text, t) = Append(text, "> ")
           /\ t \in Words => Untag(text, t) = Append(text, t)
<1>1. t \in Words => t \notin TagList /\ t \notin Marks
  BY DEF Words, TagList, Marks
<1>2. t \in Marks => t \notin TagList
  BY DEF TagList, Marks
<1>3. {"<!-- - -->", "<!-- # -->", "<!-- > -->"} = Marks
  BY DEF Marks
<1> QED
  BY <1>1, <1>2, <1>3, TagFacts, HiddenFacts, Zenon DEF Untag

\* What is shown is tokens.
LEMMA UntagType ==
    ASSUME NEW text \in Tokens, NEW t \in Token
    PROVE  Untag(text, t) \in Tokens
<1>1. {"- ", "# ", "> "} \subseteq Token
  BY DEF Token, Words
<1>2. \A x \in Token : Append(text, x) \in Tokens
  BY DEF Tokens
<1>3. t \in TagList \cup Marks \cup Words /\ Marks = {"<!-- - -->", "<!-- # -->", "<!-- > -->"}
  BY DEF Token, Marks
<1> QED
  BY <1>1, <1>2, <1>3, UntagCases

UntagStep == [p \in Tokens \X Token |-> Untag(p[1], p[2])]
\* Untagged takes its steps.
LEMMA UntagFolds ==
    ASSUME NEW s \in Seq(Token)
    PROVE  Folds(Tokens, <<>>, UntagStep, s, Untagged(s))
<1> DEFINE Is(f) == f = [i \in 0..Len(s) |-> IF i = 0 THEN <<>> ELSE Untag(f[i - 1], s[i])]
           c == CHOOSE f : Is(f)
<1>1. UntagStep \in [Tokens \X Token -> Tokens]
  BY UntagType DEF UntagStep
<1>2. <<>> \in Tokens /\ Len(s) \in Nat /\ \A i \in 1..Len(s) : s[i] \in Token
  BY DEF Tokens
<1>3. PICK f \in [0..Len(s) -> Tokens] :
        f[0] = <<>> /\ \A i \in 1..Len(s) : f[i] = UntagStep[<<f[i - 1], s[i]>>]
  <2>1. HasFold(Tokens, <<>>, UntagStep, s)
    BY <1>1, <1>2, FoldExists, Zenon
  <2> QED
    BY <2>1 DEF HasFold
<1>4. \A i \in 1..Len(s) : f[i] = Untag(f[i - 1], s[i])
  <2>1. \A i \in 1..Len(s) : f[i - 1] \in Tokens
    BY <1>3
  <2> QED
    BY <1>2, <1>3, <2>1 DEF UntagStep
<1>5. Is(f)
  BY <1>2, <1>3, <1>4
<1>6. Is(c)
  <2> HIDE DEF Is
  <2> QED
    BY <1>5
<1>7. Steps(Tokens, <<>>, UntagStep, s, c)
  <2> HIDE DEF c
  <2>1. c[0] = <<>> /\ \A i \in 1..Len(s) : c[i] = Untag(c[i - 1], s[i])
    BY <1>2, <1>6
  <2> QED
    BY <1>2, <2>1 DEF Steps, UntagStep
<1>8. Untagged(s) = c[Len(s)]
  BY DEF Untagged, Fold
<1>9. Folds(Tokens, <<>>, UntagStep, s, c[Len(s)])
  <2> HIDE DEF c
  <2> QED
    BY <1>1, <1>2, <1>7, FoldValue, Zenon
<1> QED
  BY <1>8, <1>9

\* One token more.
LEMMA UntagAppend ==
    ASSUME NEW s \in Tokens
    PROVE  /\ Untagged(s) \in Tokens
           /\ s = <<>> => Untagged(s) = <<>>
           /\ \A t \in Token : Untagged(Append(s, t)) = Untag(Untagged(s), t)
<1>1. s \in Seq(Token)
  BY DEF Tokens
<1>2. Folds(Tokens, <<>>, UntagStep, s, Untagged(s))
  BY <1>1, UntagFolds
<1>3. Untagged(s) \in Tokens /\ (s = <<>> => Untagged(s) = <<>>)
  BY <1>1, <1>2, FoldType
<1>4. ASSUME NEW t \in Token
      PROVE  Untagged(Append(s, t)) = Untag(Untagged(s), t)
  <2>1. Append(s, t) \in Seq(Token)
    BY <1>1
  <2>2. Folds(Tokens, <<>>, UntagStep, Append(s, t), Untagged(Append(s, t)))
    BY <2>1, UntagFolds
  <2>3. Untagged(Append(s, t)) = UntagStep[<<Untagged(s), t>>]
    BY <1>1, <1>2, <2>2, FoldAppend
  <2> QED
    BY <1>3, <2>3 DEF UntagStep
<1> QED
  BY <1>3, <1>4

\* What is merged is tokens.
LEMMA MergePreType ==
    ASSUME NEW out \in Tokens, NEW t \in Token
    PROVE  MergePre(out, t) \in Tokens
<1>1. "\n" \in Token
  BY DEF Token, Words
<1>2. ASSUME IsSuffix(<<"</pre>", "\n">>, out)
      PROVE  Len(out) >= 2
  <2>1. Len(Reverse(<<"</pre>", "\n">>)) = 2 /\ Len(Reverse(out)) = Len(out)
    BY DEF Reverse, Tokens
  <2> QED
    BY <1>2, <2>1 DEF IsSuffix, IsPrefix
<1>3. Len(out) >= 2 => SubSeq(out, 1, Len(out) - 2) \in Tokens
  BY DEF Tokens
<1>4. \A o \in Tokens, x \in Token : Append(o, x) \in Tokens
  BY DEF Tokens
<1> QED
  BY <1>1, <1>2, <1>3, <1>4 DEF MergePre

MergePreStep == [p \in Tokens \X Token |-> MergePre(p[1], p[2])]
\* Merged takes its steps.
LEMMA MergePreFolds ==
    ASSUME NEW s \in Seq(Token)
    PROVE  Folds(Tokens, <<>>, MergePreStep, s, Merged(s))
<1> DEFINE Is(f) == f = [i \in 0..Len(s) |-> IF i = 0 THEN <<>> ELSE MergePre(f[i - 1], s[i])]
           c == CHOOSE f : Is(f)
<1>1. MergePreStep \in [Tokens \X Token -> Tokens]
  BY MergePreType DEF MergePreStep
<1>2. <<>> \in Tokens /\ Len(s) \in Nat /\ \A i \in 1..Len(s) : s[i] \in Token
  BY DEF Tokens
<1>3. PICK f \in [0..Len(s) -> Tokens] :
        f[0] = <<>> /\ \A i \in 1..Len(s) : f[i] = MergePreStep[<<f[i - 1], s[i]>>]
  <2>1. HasFold(Tokens, <<>>, MergePreStep, s)
    BY <1>1, <1>2, FoldExists, Zenon
  <2> QED
    BY <2>1 DEF HasFold
<1>4. \A i \in 1..Len(s) : f[i] = MergePre(f[i - 1], s[i])
  <2>1. \A i \in 1..Len(s) : f[i - 1] \in Tokens
    BY <1>3
  <2> QED
    BY <1>2, <1>3, <2>1 DEF MergePreStep
<1>5. Is(f)
  BY <1>2, <1>3, <1>4
<1>6. Is(c)
  <2> HIDE DEF Is
  <2> QED
    BY <1>5
<1>7. Steps(Tokens, <<>>, MergePreStep, s, c)
  <2> HIDE DEF c
  <2>1. c[0] = <<>> /\ \A i \in 1..Len(s) : c[i] = MergePre(c[i - 1], s[i])
    BY <1>2, <1>6
  <2> QED
    BY <1>2, <2>1 DEF Steps, MergePreStep
<1>8. Merged(s) = c[Len(s)]
  BY DEF Merged, Fold
<1>9. Folds(Tokens, <<>>, MergePreStep, s, c[Len(s)])
  <2> HIDE DEF c
  <2> QED
    BY <1>1, <1>2, <1>7, FoldValue, Zenon
<1> QED
  BY <1>8, <1>9

\* One token more.
LEMMA MergePreAppend ==
    ASSUME NEW s \in Tokens
    PROVE  /\ Merged(s) \in Tokens
           /\ s = <<>> => Merged(s) = <<>>
           /\ \A t \in Token : Merged(Append(s, t)) = MergePre(Merged(s), t)
<1>1. s \in Seq(Token)
  BY DEF Tokens
<1>2. Folds(Tokens, <<>>, MergePreStep, s, Merged(s))
  BY <1>1, MergePreFolds
<1>3. Merged(s) \in Tokens /\ (s = <<>> => Merged(s) = <<>>)
  BY <1>1, <1>2, FoldType
<1>4. ASSUME NEW t \in Token
      PROVE  Merged(Append(s, t)) = MergePre(Merged(s), t)
  <2>1. Append(s, t) \in Seq(Token)
    BY <1>1
  <2>2. Folds(Tokens, <<>>, MergePreStep, Append(s, t), Merged(Append(s, t)))
    BY <2>1, MergePreFolds
  <2>3. Merged(Append(s, t)) = MergePreStep[<<Merged(s), t>>]
    BY <1>1, <1>2, <2>2, FoldAppend
  <2> QED
    BY <1>3, <2>3 DEF MergePreStep
<1> QED
  BY <1>3, <1>4

\* What is open is tokens.
LEMMA NestType ==
    ASSUME NEW open \in Tokens, NEW t \in Token
    PROVE  Nest(open, t) \in Tokens
<1>1. open # <<>> => Front(open) \in Tokens
  BY DEF Tokens, Front
<1>2. Append(open, t) \in Tokens
  BY DEF Tokens
<1> QED
  BY <1>1, <1>2 DEF Nest

NestStep == [p \in Tokens \X Token |-> Nest(p[1], p[2])]
\* Unclosed takes its steps.
LEMMA NestFolds ==
    ASSUME NEW s \in Seq(Token)
    PROVE  Folds(Tokens, <<>>, NestStep, s, Unclosed(s))
<1> DEFINE Is(f) == f = [i \in 0..Len(s) |-> IF i = 0 THEN <<>> ELSE Nest(f[i - 1], s[i])]
           c == CHOOSE f : Is(f)
<1>1. NestStep \in [Tokens \X Token -> Tokens]
  BY NestType DEF NestStep
<1>2. <<>> \in Tokens /\ Len(s) \in Nat /\ \A i \in 1..Len(s) : s[i] \in Token
  BY DEF Tokens
<1>3. PICK f \in [0..Len(s) -> Tokens] :
        f[0] = <<>> /\ \A i \in 1..Len(s) : f[i] = NestStep[<<f[i - 1], s[i]>>]
  <2>1. HasFold(Tokens, <<>>, NestStep, s)
    BY <1>1, <1>2, FoldExists, Zenon
  <2> QED
    BY <2>1 DEF HasFold
<1>4. \A i \in 1..Len(s) : f[i] = Nest(f[i - 1], s[i])
  <2>1. \A i \in 1..Len(s) : f[i - 1] \in Tokens
    BY <1>3
  <2> QED
    BY <1>2, <1>3, <2>1 DEF NestStep
<1>5. Is(f)
  BY <1>2, <1>3, <1>4
<1>6. Is(c)
  <2> HIDE DEF Is
  <2> QED
    BY <1>5
<1>7. Steps(Tokens, <<>>, NestStep, s, c)
  <2> HIDE DEF c
  <2>1. c[0] = <<>> /\ \A i \in 1..Len(s) : c[i] = Nest(c[i - 1], s[i])
    BY <1>2, <1>6
  <2> QED
    BY <1>2, <2>1 DEF Steps, NestStep
<1>8. Unclosed(s) = c[Len(s)]
  BY DEF Unclosed, Fold
<1>9. Folds(Tokens, <<>>, NestStep, s, c[Len(s)])
  <2> HIDE DEF c
  <2> QED
    BY <1>1, <1>2, <1>7, FoldValue, Zenon
<1> QED
  BY <1>8, <1>9

\* One token more.
LEMMA NestAppend ==
    ASSUME NEW s \in Tokens
    PROVE  /\ Unclosed(s) \in Tokens
           /\ s = <<>> => Unclosed(s) = <<>>
           /\ \A t \in Token : Unclosed(Append(s, t)) = Nest(Unclosed(s), t)
<1>1. s \in Seq(Token)
  BY DEF Tokens
<1>2. Folds(Tokens, <<>>, NestStep, s, Unclosed(s))
  BY <1>1, NestFolds
<1>3. Unclosed(s) \in Tokens /\ (s = <<>> => Unclosed(s) = <<>>)
  BY <1>1, <1>2, FoldType
<1>4. ASSUME NEW t \in Token
      PROVE  Unclosed(Append(s, t)) = Nest(Unclosed(s), t)
  <2>1. Append(s, t) \in Seq(Token)
    BY <1>1
  <2>2. Folds(Tokens, <<>>, NestStep, Append(s, t), Unclosed(Append(s, t)))
    BY <2>1, NestFolds
  <2>3. Unclosed(Append(s, t)) = NestStep[<<Unclosed(s), t>>]
    BY <1>1, <1>2, <2>2, FoldAppend
  <2> QED
    BY <1>3, <2>3 DEF NestStep
<1> QED
  BY <1>3, <1>4

-----------------------------------------------------------------------------
(***************************************************************************)
(* What is open, and what is shown, after each token of the HTML.          *)
(***************************************************************************)
Openers == {"<div>", "<p>", "<pre>", "<ul>", "<li>", "<span>", "<blockquote>"}
Stack   == Seq(Openers) \ {<<>>}
Closes(a, b) == <<a, b>> \in TagPairs

\* Which tag closes which, and what is no tag.
LEMMA PairFacts ==
    /\ \A a, b : Closes(a, b) => a \in Openers /\ b \in TagList \ Openers
    /\ Closes("<div>", "</div>") /\ Closes("<p>", "</p>") /\ Closes("<pre>", "</pre>") /\ Closes("<ul>", "</ul>")
    /\ Closes("<li>", "</li>") /\ Closes("<span>", "</span>") /\ Closes("<blockquote>", "</blockquote>")
    /\ \A a : Closes(a, "</pre>") => a = "<pre>"
    /\ Openers \subseteq TagList
    /\ TagList \subseteq Token /\ Words \subseteq Token /\ Marks \subseteq Token
    /\ \A t \in Words \cup Marks : t \notin TagList
  BY DEF Closes, TagPairs, Openers, TagList, Words, Marks, Token

\* The end of a sequence that was added to.
LEMMA LastFacts ==
    ASSUME NEW S, NEW o \in Seq(S), NEW t \in S
    PROVE  Append(o, t) # <<>> /\ Last(Append(o, t)) = t /\ Front(Append(o, t)) = o
  BY DEF Last, Front

\* A stack of tags that are open.
LEMMA StackFacts ==
    /\ \A o \in Stack : o # <<>> /\ o \in Tokens /\ Last(o) \in Openers
    /\ \A o \in Stack, t \in Openers : Append(o, t) \in Stack
<1>1. ASSUME NEW o \in Stack
      PROVE  o # <<>> /\ o \in Tokens /\ Last(o) \in Openers
  <2>1. Openers \subseteq Token
    BY PairFacts
  <2> QED
    BY <2>1 DEF Stack, Last, Tokens
<1>2. ASSUME NEW o \in Stack, NEW t \in Openers
      PROVE  Append(o, t) \in Stack
  BY DEF Stack
<1> QED
  BY <1>1, <1>2

\* What each sort of token opens or closes.
LEMMA NestCases ==
    ASSUME NEW o \in Tokens, NEW t \in Token
    PROVE  /\ t \in Words \cup Marks => Nest(o, t) = o
           /\ t \in Openers => Nest(o, t) = Append(o, t)
           /\ \A a : Closes(a, t) => Nest(Append(o, a), t) = o
           /\ o # <<>> /\ Closes(Last(o), t) => Nest(o, t) = Front(o)
           /\ t \in TagList /\ (o = <<>> \/ ~Closes(Last(o), t)) => Nest(o, t) = Append(o, t)
<1>1. t \in Words \cup Marks => t \notin TagList
  BY PairFacts
<1>2. ~Closes(Last(o), t) \/ t \in TagList \ Openers
  BY PairFacts
<1>3. ASSUME NEW a, Closes(a, t)
      PROVE  Nest(Append(o, a), t) = o
  <2>1. a \in Token
    BY <1>3, PairFacts
  <2>2. Append(o, a) # <<>> /\ Last(Append(o, a)) = a /\ Front(Append(o, a)) = o
    BY <2>1, LastFacts DEF Tokens
  <2> QED
    BY <1>3, <2>2 DEF Nest, Closes
<1> QED
  BY <1>1, <1>2, <1>3, PairFacts, TagFacts DEF Nest, Closes

\* The end of a block of indented text, as MergePre finds it.
LEMMA SuffixFacts ==
    ASSUME NEW m \in Tokens, IsSuffix(<<"</pre>", "\n">>, m)
    PROVE  /\ SubSeq(m, 1, Len(m) - 2) \in Tokens
           /\ m = Append(Append(SubSeq(m, 1, Len(m) - 2), "</pre>"), "\n")
<1> DEFINE e == <<"</pre>", "\n">>
           n == Len(m)
<1>1. /\ Len(Reverse(e)) = 2 /\ Reverse(e)[1] = "\n" /\ Reverse(e)[2] = "</pre>"
      /\ Reverse(e) \in Seq(Token)
  <2>1. "\n" \in Token /\ "</pre>" \in Token
    BY DEF Token, Words, TagList
  <2> QED
    BY <2>1 DEF Reverse
<1>2. n \in Nat /\ Reverse(m) \in Seq(Token) /\ Len(Reverse(m)) = n /\ \A i \in 1..n : Reverse(m)[i] = m[n - i + 1]
  BY DEF Reverse, Tokens
<1>3. 2 <= n /\ SubSeq(Reverse(e), 1, 2) = SubSeq(Reverse(m), 1, 2)
  <2> HIDE DEF e
  <2> QED
    BY <1>1, <1>2 DEF IsSuffix, IsPrefix, e
<1>4. m[n] = "\n" /\ m[n - 1] = "</pre>"
  <2> HIDE DEF e, n
  <2>1. SubSeq(Reverse(e), 1, 2)[1] = Reverse(e)[1] /\ SubSeq(Reverse(e), 1, 2)[2] = Reverse(e)[2]
    BY <1>1
  <2>2. SubSeq(Reverse(m), 1, 2)[1] = Reverse(m)[1] /\ SubSeq(Reverse(m), 1, 2)[2] = Reverse(m)[2]
    BY <1>2, <1>3
  <2>3. Reverse(m)[1] = m[n - 1 + 1] /\ Reverse(m)[2] = m[n - 2 + 1]
    BY <1>2, <1>3
  <2>4. n - 1 + 1 = n /\ n - 2 + 1 = n - 1
    BY <1>2
  <2> QED
    BY <1>1, <1>3, <2>1, <2>2, <2>3, <2>4
<1>5. m \in Seq(Token)
  BY DEF Tokens
<1> DEFINE u == SubSeq(m, 1, n - 2)
<1>6. u \in Seq(Token) /\ Len(u) = n - 2 /\ \A i \in 1..n - 2 : u[i] = m[i]
  BY <1>3, <1>5
<1>7. m = Append(Append(u, "</pre>"), "\n")
  <2> HIDE DEF u, n
  <2> DEFINE a == Append(u, "</pre>")
             b == Append(a, "\n")
  <2>0. "\n" \in Token /\ "</pre>" \in Token
    BY DEF Token, Words, TagList
  <2>1. a \in Seq(Token) /\ Len(a) = n - 1 /\ a[n - 1] = "</pre>" /\ \A i \in 1..n - 2 : a[i] = m[i]
    BY <1>2, <1>3, <1>6, <2>0
  <2>2. b \in Seq(Token) /\ Len(b) = n /\ b[n] = "\n" /\ \A i \in 1..n - 1 : b[i] = a[i]
    <3> HIDE DEF a
    <3> QED
      BY <1>2, <1>3, <2>0, <2>1
  <2>3. \A i \in 1..n : b[i] = m[i]
    <3> HIDE DEF a, b
    <3>1. \A i \in 1..n : i = n \/ i = n - 1 \/ i \in 1..n - 2
      BY <1>2
    <3>2. \A i \in 1..n - 2 : i \in 1..n - 1
      BY <1>2
    <3>3. n - 1 \in 1..n - 1
      BY <1>2, <1>3
    <3> QED
      BY <1>4, <2>1, <2>2, <3>1, <3>2, <3>3
  <2>4. Len(m) = Len(b) /\ \A i \in 1..Len(m) : b[i] = m[i]
    BY <2>2, <2>3 DEF n
  <2> HIDE DEF b
  <2>5. m = b
    BY <1>5, <2>2, <2>4, SeqEqual
  <2> QED
    BY <2>5 DEF b, a
<1> QED
  BY <1>6, <1>7 DEF Tokens

\* Merging two blocks of indented text changes neither what is shown nor what
\* is open.
LEMMA MergedStep ==
    ASSUME NEW s \in Tokens, NEW t \in Token, Unclosed(Merged(s)) \in Stack
    PROVE  /\ Untagged(Merged(Append(s, t))) = Untag(Untagged(Merged(s)), t)
           /\ Unclosed(Merged(Append(s, t))) = Nest(Unclosed(Merged(s)), t)
<1> DEFINE m == Merged(s)
<1>1. m \in Tokens /\ Merged(Append(s, t)) = MergePre(m, t)
  BY MergePreAppend
<1>2. CASE MergePre(m, t) = Append(m, t)
  <2> HIDE DEF m
  <2> QED
    BY <1>1, <1>2, UntagAppend, NestAppend DEF m
<1>3. CASE t = "<pre>" /\ IsSuffix(<<"</pre>", "\n">>, m)
  <2> DEFINE u == SubSeq(m, 1, Len(m) - 2)
             c == Append(u, "</pre>")
             o == Unclosed(u)
             x == Untagged(u)
  <2>1. u \in Tokens /\ m = Append(c, "\n") /\ MergePre(m, t) = Append(u, "\n")
    <3> HIDE DEF m
    <3> QED
      BY <1>1, <1>3, SuffixFacts DEF MergePre
  <2>2. "\n" \in Token /\ "\n" \in Words /\ "</pre>" \in Token /\ "</pre>" \in TagList
        /\ "<pre>" \in Openers /\ "<pre>" \in TagList /\ "<pre>" \in Token
    BY DEF Token, Words, TagList, Openers
  <2> HIDE DEF m, u
  <2>3. c \in Tokens /\ o \in Tokens /\ x \in Tokens
    BY <2>1, <2>2, UntagAppend, NestAppend DEF Tokens
  <2>4. Untagged(m) = Append(x, "\n") /\ Unclosed(m) = Nest(o, "</pre>")
    <3>1. Untagged(c) = x /\ Unclosed(c) = Nest(o, "</pre>") /\ Nest(o, "</pre>") \in Tokens
      BY <2>1, <2>2, <2>3, UntagAppend, NestAppend, UntagCases, NestType
    <3> HIDE DEF c
    <3>2. Untagged(m) = Untag(x, "\n") /\ Unclosed(m) = Nest(Nest(o, "</pre>"), "\n")
      BY <2>1, <2>2, <2>3, <3>1, UntagAppend, NestAppend
    <3> HIDE DEF x, o
    <3> QED
      BY <2>2, <3>1, <3>2, UntagCases, NestCases
  <2>5. Untagged(MergePre(m, t)) = Append(x, "\n") /\ Unclosed(MergePre(m, t)) = o
    <3>1. Untagged(Append(u, "\n")) = Untag(x, "\n") /\ Unclosed(Append(u, "\n")) = Nest(o, "\n")
      BY <2>1, <2>2, UntagAppend, NestAppend
    <3> HIDE DEF x, o
    <3> QED
      BY <2>1, <2>2, <2>3, <3>1, UntagCases, NestCases
  <2> HIDE DEF o, x, c
  <2>6. o # <<>> /\ Closes(Last(o), "</pre>")
    <3> SUFFICES ASSUME ~(o # <<>> /\ Closes(Last(o), "</pre>"))
                 PROVE  FALSE
      OBVIOUS
    <3>1. Unclosed(m) = Append(o, "</pre>")
      BY <2>2, <2>3, <2>4, NestCases
    <3>2. Last(Unclosed(m)) = "</pre>"
      BY <2>2, <2>3, <3>1, LastFacts DEF Tokens
    <3>3. "</pre>" \notin Openers
      BY DEF Openers
    <3> QED
      BY <3>2, <3>3, StackFacts DEF m
  <2>7. Unclosed(m) = Front(o) /\ Last(o) = "<pre>"
    BY <2>2, <2>3, <2>4, <2>6, NestCases, PairFacts
  <2>8. o = Append(Front(o), Last(o)) /\ Front(o) \in Tokens
    BY <2>3, <2>6 DEF Front, Last, Tokens
  <2>9. Nest(Unclosed(m), t) = o
    BY <1>3, <2>2, <2>7, <2>8, NestCases
  <2>10. Untag(Untagged(m), t) = Untagged(m)
    BY <1>3, <2>2, UntagCases
  <2> QED
    BY <1>1, <2>4, <2>5, <2>9, <2>10 DEF m
<1> QED
  BY <1>2, <1>3 DEF MergePre


\* After s, text is what has been shown, and open are the tags that are not closed.
At(s, text, open) ==
    /\ s \in Tokens /\ text \in Tokens /\ open \in Stack
    /\ Untagged(Merged(s)) = text /\ Unclosed(Merged(s)) = open

\* One token of HTML more.
LEMMA AtStep ==
    ASSUME NEW s, NEW text, NEW open, NEW t \in Token, At(s, text, open)
    PROVE  /\ t \in Words => At(Append(s, t), Append(text, t), open)
           /\ t = "<!-- - -->" => At(Append(s, t), Append(text, "- "), open)
           /\ t = "<!-- # -->" => At(Append(s, t), Append(text, "# "), open)
           /\ t = "<!-- > -->" => At(Append(s, t), Append(text, "> "), open)
           /\ t \in Openers => At(Append(s, t), text, Append(open, t))
           /\ \A o \in Stack : \A a : open = Append(o, a) /\ Closes(a, t) => At(Append(s, t), text, o)
<1>1. /\ Untagged(Merged(Append(s, t))) = Untag(text, t)
      /\ Unclosed(Merged(Append(s, t))) = Nest(open, t)
  BY MergedStep DEF At
<1>2. Append(s, t) \in Tokens /\ open \in Tokens /\ text \in Tokens /\ open \in Stack
  BY StackFacts DEF At, Tokens
<1>3. \A w \in Words : Append(text, w) \in Tokens
  BY <1>2, PairFacts DEF Tokens
<1>4. {"- ", "# ", "> "} \subseteq Words /\ {"<!-- - -->", "<!-- # -->", "<!-- > -->"} \subseteq Marks
  BY DEF Words, Marks
<1>5. t \in Words \cup Marks => Nest(open, t) = open
  BY <1>2, NestCases
<1>6. t \in TagList => Untag(text, t) = text
  BY UntagCases
<1>7. t \in Openers => t \in TagList /\ Nest(open, t) = Append(open, t) /\ Append(open, t) \in Stack
  BY <1>2, NestCases, PairFacts, StackFacts
<1>8. ASSUME NEW o \in Stack, NEW a, open = Append(o, a), Closes(a, t)
      PROVE  t \in TagList /\ Nest(open, t) = o
  <2>1. o \in Tokens
    BY StackFacts
  <2> QED
    BY <1>8, <2>1, NestCases, PairFacts
<1>9. t \in Words => Untag(text, t) = Append(text, t)
  BY UntagCases
<1>10. /\ t = "<!-- - -->" => Untag(text, t) = Append(text, "- ")
       /\ t = "<!-- # -->" => Untag(text, t) = Append(text, "# ")
       /\ t = "<!-- > -->" => Untag(text, t) = Append(text, "> ")
  BY UntagCases
<1> QED
  BY <1>1, <1>2, <1>3, <1>4, <1>5, <1>6, <1>7, <1>8, <1>9, <1>10 DEF At

\* The tags that are open between two lines.
Blocks == [none |-> <<"<div>">>, p |-> <<"<div>", "<p>">>, pre |-> <<"<div>", "<pre>">>,
           ul |-> <<"<div>", "<ul>", "<li>">>, blockquote |-> <<"<div>", "<blockquote>", "<p>">>]
Mode == {"none", "p", "pre", "ul", "blockquote"}

\* The blocks are what their opening tags make of none.
LEMMA BlockFacts ==
    /\ \A m \in Mode : Blocks[m] \in Stack
    /\ Blocks["p"] = Append(Blocks["none"], "<p>")
    /\ Blocks["pre"] = Append(Blocks["none"], "<pre>")
    /\ Blocks["ul"] = Append(Append(Blocks["none"], "<ul>"), "<li>")
    /\ Blocks["blockquote"] = Append(Append(Blocks["none"], "<blockquote>"), "<p>")
    /\ Append(Blocks["none"], "<ul>") \in Stack /\ Append(Blocks["none"], "<blockquote>") \in Stack
<1>1. "<div>" \in Openers /\ "<p>" \in Openers /\ "<pre>" \in Openers /\ "<ul>" \in Openers
      /\ "<li>" \in Openers /\ "<blockquote>" \in Openers
  BY DEF Openers
<1>2. Blocks["none"] \in Stack
  BY <1>1 DEF Blocks, Stack
<1>3. /\ Blocks["p"] = Append(Blocks["none"], "<p>")
      /\ Blocks["pre"] = Append(Blocks["none"], "<pre>")
  BY DEF Blocks
<1>4. /\ Blocks["ul"] = Append(Append(Blocks["none"], "<ul>"), "<li>")
      /\ Blocks["blockquote"] = Append(Append(Blocks["none"], "<blockquote>"), "<p>")
  BY DEF Blocks
<1>5. \A o \in Stack, t \in Openers : Append(o, t) \in Stack
  BY StackFacts
<1>6. /\ Blocks["p"] \in Stack /\ Blocks["pre"] \in Stack
      /\ Append(Blocks["none"], "<ul>") \in Stack /\ Append(Blocks["none"], "<blockquote>") \in Stack
  BY <1>1, <1>2, <1>3, <1>5
<1>7. Blocks["ul"] \in Stack /\ Blocks["blockquote"] \in Stack
  BY <1>1, <1>4, <1>5, <1>6
<1> QED
  BY <1>2, <1>3, <1>4, <1>6, <1>7 DEF Mode

\* Putting sequences of tokens together.
LEMMA Joined ==
    ASSUME NEW s \in Tokens
    PROVE  /\ s \o <<>> = s
           /\ \A a \in Token : s \o <<a>> = Append(s, a)
           /\ \A a, b \in Token : s \o <<a, b>> = Append(Append(s, a), b)
           /\ \A u \in Tokens : s \o u \in Tokens
           /\ \A u \in Tokens, a \in Token : s \o Append(u, a) = Append(s \o u, a)
           /\ \A u, v \in Tokens : s \o (u \o v) = (s \o u) \o v
<1>1. s \in Seq(Token)
  BY DEF Tokens
<1>2. s \o <<>> = s
  BY <1>1, ConcatEmptySeq
<1>3. \A a \in Token : s \o <<a>> = Append(s, a) /\ Append(s, a) \in Seq(Token)
  BY <1>1, AppendIsConcat, AppendProperties
<1>4. ASSUME NEW u \in Seq(Token), NEW a \in Token
      PROVE  s \o Append(u, a) = Append(s \o u, a)
  <2>1. <<a>> \in Seq(Token) /\ s \o u \in Seq(Token)
    BY <1>1, ConcatProperties
  <2>2. Append(u, a) = u \o <<a>> /\ Append(s \o u, a) = (s \o u) \o <<a>>
    BY <2>1, AppendIsConcat
  <2>3. s \o (u \o <<a>>) = (s \o u) \o <<a>>
    BY <1>1, <2>1, ConcatAssociative
  <2> QED
    BY <2>2, <2>3
<1>5. ASSUME NEW a \in Token, NEW b \in Token
      PROVE  s \o <<a, b>> = Append(Append(s, a), b)
  <2>1. <<a, b>> = Append(<<a>>, b) /\ <<a>> \in Seq(Token)
    OBVIOUS
  <2>2. s \o Append(<<a>>, b) = Append(s \o <<a>>, b)
    BY <1>4, <2>1
  <2> QED
    BY <1>3, <2>1, <2>2
<1>6. \A u, v \in Seq(Token) : s \o (u \o v) = (s \o u) \o v
  BY <1>1, ConcatAssociative
<1>7. \A u \in Seq(Token) : s \o u \in Seq(Token)
  BY <1>1, ConcatProperties
<1> QED
  BY <1>2, <1>3, <1>4, <1>5, <1>6, <1>7 DEF Tokens

\* The tags of each mode.
LEMMA OpeningFacts ==
    /\ Opening["p"] = <<"<p>">> /\ Opening["pre"] = <<"<pre>">>
    /\ Opening["ul"] = <<"<ul>", "<li>">> /\ Opening["blockquote"] = <<"<blockquote>", "<p>">>
    /\ Closing["none"] = <<>> /\ Closing["p"] = <<"</p>">> /\ Closing["pre"] = <<"</pre>">>
    /\ Closing["ul"] = <<"</li>", "</ul>">> /\ Closing["blockquote"] = <<"</p>", "</blockquote>">>
    /\ \A m \in Mode : Closing[m] \in Tokens /\ (m # "none" => Opening[m] \in Tokens)
<1>1. /\ Opening["p"] = <<"<p>">> /\ Opening["pre"] = <<"<pre>">>
      /\ Opening["ul"] = <<"<ul>", "<li>">> /\ Opening["blockquote"] = <<"<blockquote>", "<p>">>
  BY DEF Opening
<1>2. /\ Closing["none"] = <<>> /\ Closing["p"] = <<"</p>">> /\ Closing["pre"] = <<"</pre>">>
      /\ Closing["ul"] = <<"</li>", "</ul>">> /\ Closing["blockquote"] = <<"</p>", "</blockquote>">>
  BY DEF Closing
<1>3. {"<p>", "<pre>", "<ul>", "<li>", "<blockquote>", "</p>", "</pre>", "</ul>", "</li>", "</blockquote>"} \subseteq Token
  BY DEF Token, TagList
<1>4. <<>> \in Tokens /\ (\A a \in Token : <<a>> \in Tokens) /\ \A a, b \in Token : <<a, b>> \in Tokens
  BY DEF Tokens
<1> QED
  BY <1>1, <1>2, <1>3, <1>4 DEF Mode

\* A block is opened, and closed, between two lines.
LEMMA AtOpening ==
    ASSUME NEW s, NEW x, NEW m \in Mode \ {"none"}, At(s, x, Blocks["none"])
    PROVE  At(s \o Opening[m], x, Blocks[m])
<1>1. {"<p>", "<pre>", "<ul>", "<li>", "<blockquote>"} \subseteq Openers
  BY DEF Openers
<1>2. Openers \subseteq Token /\ s \in Tokens
  BY PairFacts DEF At
<1>3. CASE m = "p"
  <2>1. At(Append(s, "<p>"), x, Blocks[m])
    BY <1>1, <1>2, <1>3, AtStep, BlockFacts
  <2>2. s \o Opening[m] = Append(s, "<p>")
    BY <1>1, <1>2, <1>3, OpeningFacts, Joined
  <2> QED
    BY <2>1, <2>2
<1>6. CASE m = "pre"
  <2>1. At(Append(s, "<pre>"), x, Blocks[m])
    BY <1>1, <1>2, <1>6, AtStep, BlockFacts
  <2>2. s \o Opening[m] = Append(s, "<pre>")
    BY <1>1, <1>2, <1>6, OpeningFacts, Joined
  <2> QED
    BY <2>1, <2>2
<1>4. CASE m = "ul"
  <2>1. At(Append(s, "<ul>"), x, Append(Blocks["none"], "<ul>"))
    BY <1>1, <1>2, AtStep
  <2>2. At(Append(Append(s, "<ul>"), "<li>"), x, Blocks[m])
    BY <1>1, <1>2, <1>4, <2>1, AtStep, BlockFacts
  <2>3. s \o Opening[m] = Append(Append(s, "<ul>"), "<li>")
    BY <1>1, <1>2, <1>4, OpeningFacts, Joined
  <2> QED
    BY <2>2, <2>3
<1>5. CASE m = "blockquote"
  <2>1. At(Append(s, "<blockquote>"), x, Append(Blocks["none"], "<blockquote>"))
    BY <1>1, <1>2, AtStep
  <2>2. At(Append(Append(s, "<blockquote>"), "<p>"), x, Blocks[m])
    BY <1>1, <1>2, <1>5, <2>1, AtStep, BlockFacts
  <2>3. s \o Opening[m] = Append(Append(s, "<blockquote>"), "<p>")
    BY <1>1, <1>2, <1>5, OpeningFacts, Joined
  <2> QED
    BY <2>2, <2>3
<1> QED
  BY <1>3, <1>4, <1>5, <1>6 DEF Mode

\* Likewise for closing.
LEMMA AtClosing ==
    ASSUME NEW s, NEW x, NEW m \in Mode, At(s, x, Blocks[m])
    PROVE  At(s \o Closing[m], x, Blocks["none"])
<1>1. {"</p>", "</pre>", "</ul>", "</li>", "</blockquote>"} \subseteq Token
  BY DEF Token, TagList
<1>2. s \in Tokens
  BY DEF At
<1>0. CASE m = "none"
  BY <1>0, <1>2, OpeningFacts, Joined
<1>3. CASE m = "p"
  <2>1. At(Append(s, "</p>"), x, Blocks["none"])
    BY <1>1, <1>2, <1>3, AtStep, PairFacts, BlockFacts DEF Mode
  <2>2. s \o Closing[m] = Append(s, "</p>")
    BY <1>1, <1>2, <1>3, OpeningFacts, Joined
  <2> QED
    BY <2>1, <2>2
<1>6. CASE m = "pre"
  <2>1. At(Append(s, "</pre>"), x, Blocks["none"])
    BY <1>1, <1>2, <1>6, AtStep, PairFacts, BlockFacts DEF Mode
  <2>2. s \o Closing[m] = Append(s, "</pre>")
    BY <1>1, <1>2, <1>6, OpeningFacts, Joined
  <2> QED
    BY <2>1, <2>2
<1>4. CASE m = "ul"
  <2>1. At(Append(s, "</li>"), x, Append(Blocks["none"], "<ul>"))
    BY <1>1, <1>2, <1>4, AtStep, PairFacts, BlockFacts
  <2>2. At(Append(Append(s, "</li>"), "</ul>"), x, Blocks["none"])
    BY <1>1, <1>2, <1>4, <2>1, AtStep, PairFacts, BlockFacts DEF Mode
  <2>3. s \o Closing[m] = Append(Append(s, "</li>"), "</ul>")
    BY <1>1, <1>2, <1>4, OpeningFacts, Joined
  <2> QED
    BY <2>2, <2>3
<1>5. CASE m = "blockquote"
  <2>1. At(Append(s, "</p>"), x, Append(Blocks["none"], "<blockquote>"))
    BY <1>1, <1>2, <1>5, AtStep, PairFacts, BlockFacts
  <2>2. At(Append(Append(s, "</p>"), "</blockquote>"), x, Blocks["none"])
    BY <1>1, <1>2, <1>5, <2>1, AtStep, PairFacts, BlockFacts DEF Mode
  <2>3. s \o Closing[m] = Append(Append(s, "</p>"), "</blockquote>")
    BY <1>1, <1>2, <1>5, OpeningFacts, Joined
  <2> QED
    BY <2>2, <2>3
<1> QED
  BY <1>0, <1>3, <1>4, <1>5, <1>6 DEF Mode

\* The kinds of lines, and that a line is at most three words.
LEMMA KindFacts ==
    /\ Kind = {"empty", "blank", "indented", "dash", "wide", "h1", "h2", "quote", "gt", "text", "own", "other"}
    /\ \A k \in Kind : /\ LineText[k] \in Seq(Words) /\ LineText[k] \in Tokens
                       /\ \/ LineText[k] = <<>>
                          \/ \E a \in Words : LineText[k] = <<a>>
                          \/ \E a, b \in Words : LineText[k] = <<a, b>>
                          \/ \E a, b, c \in Words : LineText[k] = <<a, b, c>>
<1>1. Kind = {"empty", "blank", "indented", "dash", "wide", "h1", "h2", "quote", "gt", "text", "own", "other"}
  BY DEF Kind, LineText
<1>2. /\ LineText["empty"] = <<>> /\ LineText["blank"] = <<"_">> /\ LineText["indented"] = <<"_", "x">>
      /\ LineText["dash"] = <<"- ", "x">> /\ LineText["h1"] = <<"# ", "x">> /\ LineText["h2"] = <<"## ", "x">>
      /\ LineText["quote"] = <<"> ", "x">> /\ LineText["gt"] = <<">">> /\ LineText["text"] = <<"x">>
      /\ LineText["own"] = <<"#own">> /\ LineText["other"] = <<"#other">>
      /\ LineText["wide"] = <<"- ", "_", "x">>
  BY DEF LineText
<1>3. {"x", "_", "- ", "# ", "## ", "> ", ">", "#own", "#other"} \subseteq Words
  BY DEF Words
<1>4. ASSUME NEW k \in Kind
      PROVE  \/ LineText[k] = <<>>
             \/ \E a \in Words : LineText[k] = <<a>>
             \/ \E a, b \in Words : LineText[k] = <<a, b>>
             \/ \E a, b, c \in Words : LineText[k] = <<a, b, c>>
  BY <1>1, <1>2, <1>3
<1>5. /\ <<>> \in Seq(Words) /\ (\A a \in Words : <<a>> \in Seq(Words))
      /\ \A a, b \in Words : <<a, b>> \in Seq(Words)
      /\ \A a, b, c \in Words : <<a, b, c>> \in Seq(Words)
  OBVIOUS
<1>6. \A u \in Seq(Words) : u \in Tokens
  BY PairFacts DEF Tokens
<1>7. \A k \in Kind : LineText[k] \in Seq(Words)
  BY <1>4, <1>5
<1> QED
  BY <1>1, <1>4, <1>6, <1>7, Zenon

\* A sequence followed by tokens is one with each of them added.
Then1(s, a) == <<a>> \in Tokens /\ s \o <<a>> = Append(s, a)
Then2(s, a, b) == <<a, b>> \in Tokens /\ s \o <<a, b>> = Append(Append(s, a), b)
Then3(s, a, b, c) == <<a, b, c>> \in Tokens /\ s \o <<a, b, c>> = Append(Append(Append(s, a), b), c)
Then4(s, a, b, c, d) ==
    <<a, b, c, d>> \in Tokens /\ s \o <<a, b, c, d>> = Append(Append(Append(Append(s, a), b), c), d)
Then5(s, a, b, c, d, e) ==
    /\ <<a, b, c, d, e>> \in Tokens
    /\ s \o <<a, b, c, d, e>> = Append(Append(Append(Append(Append(s, a), b), c), d), e)

\* One token.
LEMMA OneMore ==
    ASSUME NEW s \in Tokens, NEW a \in Token
    PROVE  Then1(s, a)
<1>1. <<a>> \in Tokens
  BY DEF Tokens
<1> QED
  BY <1>1, Joined DEF Then1

\* Two.
LEMMA TwoMore ==
    ASSUME NEW s \in Tokens, NEW a \in Token, NEW b \in Token
    PROVE  Then2(s, a, b)
<1>1. <<a, b>> \in Tokens
  BY DEF Tokens
<1> QED
  BY <1>1, Joined DEF Then2

\* Three.
LEMMA ThreeMore ==
    ASSUME NEW s \in Tokens, NEW a \in Token, NEW b \in Token, NEW c \in Token
    PROVE  Then3(s, a, b, c)
<1>1. <<a, b>> \in Tokens /\ <<a, b, c>> \in Tokens
  BY DEF Tokens
<1>2. <<a, b, c>> = Append(<<a, b>>, c)
  OBVIOUS
<1>3. s \o <<a, b>> = Append(Append(s, a), b)
  BY TwoMore DEF Then2
<1>4. s \o Append(<<a, b>>, c) = Append(s \o <<a, b>>, c)
  BY <1>1, Joined
<1> QED
  BY <1>1, <1>2, <1>3, <1>4 DEF Then3

\* Four.
LEMMA FourMore ==
    ASSUME NEW s \in Tokens, NEW a \in Token, NEW b \in Token, NEW c \in Token, NEW d \in Token
    PROVE  Then4(s, a, b, c, d)
<1>1. <<a, b>> \in Tokens /\ <<c, d>> \in Tokens /\ <<a, b, c, d>> \in Tokens
  BY DEF Tokens
<1>2. <<a, b, c, d>> = <<a, b>> \o <<c, d>>
  OBVIOUS
<1>3. Append(Append(s, a), b) \in Tokens
  BY DEF Tokens
<1>4. s \o <<a, b>> = Append(Append(s, a), b)
  BY Joined
<1>5. s \o (<<a, b>> \o <<c, d>>) = (s \o <<a, b>>) \o <<c, d>>
  BY <1>1, Joined
<1>6. Append(Append(s, a), b) \o <<c, d>> = Append(Append(Append(Append(s, a), b), c), d)
  BY <1>3, Joined
<1> QED
  BY <1>1, <1>2, <1>4, <1>5, <1>6 DEF Then4

\* Five.
LEMMA FiveMore ==
    ASSUME NEW s \in Tokens, NEW a \in Token, NEW b \in Token, NEW c \in Token, NEW d \in Token, NEW e \in Token
    PROVE  Then5(s, a, b, c, d, e)
<1>1. <<a, b, c, d>> \in Tokens /\ <<a, b, c, d, e>> \in Tokens
  BY DEF Tokens
<1>2. <<a, b, c, d, e>> = Append(<<a, b, c, d>>, e)
  OBVIOUS
<1>3. s \o <<a, b, c, d>> = Append(Append(Append(Append(s, a), b), c), d)
  BY FourMore DEF Then4
<1>4. s \o Append(<<a, b, c, d>>, e) = Append(s \o <<a, b, c, d>>, e)
  BY <1>1, Joined
<1> QED
  BY <1>1, <1>2, <1>3, <1>4 DEF Then5

\* The words of a line, as they are.
LEMMA AtText ==
    ASSUME NEW s, NEW x, NEW o, At(s, x, o), NEW k \in Kind
    PROVE  At(s \o LineText[k], x \o LineText[k], o)
<1>1. s \in Tokens /\ x \in Tokens /\ Words \subseteq Token
  BY PairFacts DEF At
<1>2. CASE LineText[k] = <<>>
  <2>1. s \o LineText[k] = s /\ x \o LineText[k] = x
    BY <1>1, <1>2, Joined
  <2> QED
    BY <2>1
<1>3. ASSUME NEW a \in Words, LineText[k] = <<a>>
      PROVE  At(s \o LineText[k], x \o LineText[k], o)
  <2>1. s \o LineText[k] = Append(s, a) /\ x \o LineText[k] = Append(x, a)
    BY <1>1, <1>3, Joined
  <2>2. At(Append(s, a), Append(x, a), o)
    BY <1>1, AtStep
  <2> QED
    BY <2>1, <2>2
<1>4. ASSUME NEW a \in Words, NEW b \in Words, LineText[k] = <<a, b>>
      PROVE  At(s \o LineText[k], x \o LineText[k], o)
  <2>1. s \o LineText[k] = Append(Append(s, a), b) /\ x \o LineText[k] = Append(Append(x, a), b)
    BY <1>1, <1>4, Joined
  <2>2. At(Append(s, a), Append(x, a), o)
    BY <1>1, AtStep
  <2>3. At(Append(Append(s, a), b), Append(Append(x, a), b), o)
    BY <1>1, <2>2, AtStep
  <2> QED
    BY <2>1, <2>3
<1>5. ASSUME NEW a \in Words, NEW b \in Words, NEW c \in Words, LineText[k] = <<a, b, c>>
      PROVE  At(s \o LineText[k], x \o LineText[k], o)
  <2>1. Then3(s, a, b, c) /\ Then3(x, a, b, c)
    <3>1. a \in Token /\ b \in Token /\ c \in Token
      BY <1>1
    <3> QED
      BY <1>1, <3>1, ThreeMore, Zenon
  <2>2. At(Append(s, a), Append(x, a), o)
    BY <1>1, AtStep
  <2>3. At(Append(Append(s, a), b), Append(Append(x, a), b), o)
    BY <1>1, <2>2, AtStep
  <2>4. At(Append(Append(Append(s, a), b), c), Append(Append(Append(x, a), b), c), o)
    BY <1>1, <2>3, AtStep
  <2> QED
    BY <1>5, <2>1, <2>4, Zenon DEF Then3
<1>6. \/ LineText[k] = <<>>
      \/ \E a \in Words : LineText[k] = <<a>>
      \/ \E a, b \in Words : LineText[k] = <<a, b>>
      \/ \E a, b, c \in Words : LineText[k] = <<a, b, c>>
  BY KindFacts, Zenon
<1> QED
  BY <1>2, <1>3, <1>4, <1>5, <1>6, Zenon

\* The end of a line.
LEMMA AtEnd ==
    ASSUME NEW s, NEW x, NEW o, At(s, x, o)
    PROVE  At(Append(s, "\n"), Append(x, "\n"), o)
<1>1. "\n" \in Token /\ "\n" \in Words
  BY DEF Token, Words
<1> QED
  BY <1>1, AtStep

\* A line that comes back as it was.
Whole(m, k) == k # "h2" /\ ~(k \in Item /\ m \in {"none", "ul"})

\* What a line of kind k becomes, and the mode after it, in mode m.
Shape(m, k, h, n) ==
    \/ k = "empty" /\ h = Closing[m] /\ n = "none"
    \/ k = "blank" /\ m = "none" /\ h = LineText[k] \o Opening["pre"] /\ n = "pre"
    \/ k = "blank" /\ m # "none" /\ h = LineText[k] \o <<>> /\ n = m
    \/ k \in Item /\ m = "none" /\ h = Opening["ul"] \o <<"<!-- - -->", "x">> /\ n = "ul"
    \/ k \in Item /\ m = "ul" /\ h = <<"</li>", "<li>", "<!-- - -->", "x">> /\ n = m
    \/ k = "h1" /\ m = "none" /\ h = <<"<!-- # -->", "<p>", "x", "</p>">> /\ n = m
    \/ k = "h2" /\ m = "none" /\ h = <<"<!-- # -->", "<p>", "_", "x", "</p>">> /\ n = m
    \/ /\ k = "quote" /\ m = "none" /\ n = "blockquote"
       /\ h = Opening["blockquote"] \o <<"<span>", "> ", "</span>", "x">>
    \/ k = "quote" /\ m = "blockquote" /\ h = <<"<!-- > -->", "x">> /\ n = m
    \/ /\ k = "gt" /\ m = "blockquote" /\ n = m
       /\ h = <<"</p>", "<p>", "<span>", ">", "</span>">>
    \/ m = "none" /\ Whole(m, k) /\ n \in Mode \ {"none"} /\ h = Opening[n] \o LineText[k]
    \/ m # "none" /\ Whole(m, k) /\ n = m /\ h = <<>> \o LineText[k]

\* By the cases of toHTML (bm.go:67-112).
LEMMA LineCases ==
    ASSUME NEW m \in Mode, NEW k \in Kind, k \in {"h1", "h2"} => m = "none"
    PROVE  Shape(m, k, HTMLLine(m, k), NextMode(m, k))
<1>1. /\ m # "none" /\ k # "empty" => NextMode(m, k) = m
      /\ k = "empty" => NextMode(m, k) = "none"
      /\ k \in {"h1", "h2"} => NextMode(m, k) = m
      /\ m = "none" /\ k \in {"blank", "indented"} => NextMode(m, k) = "pre"
      /\ m = "none" /\ k \in Item => NextMode(m, k) = "ul"
      /\ m = "none" /\ k = "quote" => NextMode(m, k) = "blockquote"
      /\ m = "none" /\ k \in {"gt", "text", "own", "other"} => NextMode(m, k) = "p"
  BY DEF NextMode, Item
<1> DEFINE n == NextMode(m, k)
<1>2. Mode = {"none", "p", "pre", "ul", "blockquote"}
  BY DEF Mode
<1>3. k = "empty" => HTMLLine(m, k) = Closing[m]
  BY DEF HTMLLine, Item
<1>4. k = "blank" => HTMLLine(m, k) = LineText[k] \o (IF m = "none" THEN Opening["pre"] ELSE <<>>)
  BY <1>1 DEF HTMLLine, Item
<1>5. /\ k \in Item /\ m = "none" => HTMLLine(m, k) = Opening["ul"] \o <<"<!-- - -->", "x">>
      /\ k \in Item /\ m = "ul" => HTMLLine(m, k) = <<"</li>", "<li>", "<!-- - -->", "x">>
  BY <1>1 DEF HTMLLine, Item
<1>6. /\ k = "h1" => HTMLLine(m, k) = <<"<!-- # -->", "<p>", "x", "</p>">>
      /\ k = "h2" => HTMLLine(m, k) = <<"<!-- # -->", "<p>", "_", "x", "</p>">>
  BY DEF HTMLLine, Item
<1>7. /\ k = "quote" /\ m = "none" => HTMLLine(m, k) = Opening["blockquote"] \o <<"<span>", "> ", "</span>", "x">>
      /\ k = "quote" /\ m = "blockquote" => HTMLLine(m, k) = <<"<!-- > -->", "x">>
      /\ k = "gt" /\ m = "blockquote" => HTMLLine(m, k) = <<"</p>", "<p>", "<span>", ">", "</span>">>
  BY <1>1 DEF HTMLLine
<1>8. /\ m = "none" /\ k \in {"indented", "gt", "text", "own", "other"} => HTMLLine(m, k) = Opening[n] \o LineText[k]
      /\ m # "none" /\ k \in {"indented", "text", "own", "other"} => HTMLLine(m, k) = <<>> \o LineText[k]
      /\ m # "none" /\ m # "blockquote" /\ k = "gt" => HTMLLine(m, k) = <<>> \o LineText[k]
      /\ m # "none" /\ m # "ul" /\ k \in Item => HTMLLine(m, k) = <<>> \o LineText[k]
      /\ m # "none" /\ m # "blockquote" /\ k = "quote" => HTMLLine(m, k) = <<>> \o LineText[k]
  BY <1>1 DEF HTMLLine, Item
<1>9. k \in {"empty", "blank", "indented", "dash", "wide", "h1", "h2", "quote", "gt", "text", "own", "other"}
  BY KindFacts
<1>10. m = "none" /\ k \notin {"empty", "h1", "h2"} => NextMode(m, k) \in Mode \ {"none"}
  BY <1>1, <1>2, <1>9 DEF Item
<1>11. CASE k \in {"empty", "blank", "h1", "h2"}
  BY <1>1, <1>3, <1>4, <1>6, <1>11 DEF Shape
<1>12. CASE k \in Item
  BY <1>1, <1>2, <1>5, <1>8, <1>12 DEF Shape, Whole, Item
<1>13. CASE k \in {"indented", "gt", "quote", "text", "own", "other"}
  BY <1>1, <1>2, <1>7, <1>8, <1>10, <1>13 DEF Shape, Whole, Item
<1> QED
  BY <1>9, <1>11, <1>12, <1>13 DEF Item

\* A line brings the HTML from one mode to the next, and shows what Restored
\* says of it.
LEMMA AtLine ==
    ASSUME NEW m \in Mode, NEW k \in Kind, k \in {"h1", "h2"} => m = "none",
           NEW s, NEW x, At(s, x, Blocks[m])
    PROVE  /\ HTMLLine(m, k) \in Tokens /\ NextMode(m, k) \in Mode
           /\ At(s \o HTMLLine(m, k), x \o Restored(m, k), Blocks[NextMode(m, k)])
<1> DEFINE n == NextMode(m, k)
           h == HTMLLine(m, k)
           Line == h \in Tokens /\ n \in Mode /\ At(s \o h, x \o Restored(m, k), Blocks[n])
<1>1. s \in Tokens /\ x \in Tokens /\ LineText[k] \in Tokens /\ <<>> \in Tokens
  BY KindFacts DEF At, Tokens
<1>2. \A u, v \in Tokens : u \o v \in Tokens /\ s \o (u \o v) = (s \o u) \o v /\ s \o <<>> = s
  BY <1>1, Joined
<1>3. \A b \in Mode : Closing[b] \in Tokens /\ (b # "none" => Opening[b] \in Tokens)
  BY OpeningFacts
<1>4. /\ LineText["empty"] = <<>> /\ LineText["dash"] = <<"- ", "x">> /\ LineText["h1"] = <<"# ", "x">>
      /\ LineText["quote"] = <<"> ", "x">> /\ LineText["gt"] = <<">">>
  BY DEF LineText
<1>5. /\ Mode = {"none", "p", "pre", "ul", "blockquote"}
      /\ {"x", "_", "- ", "# ", "> ", ">"} \subseteq Words
      /\ {"<p>", "<li>", "<span>"} \subseteq Openers
      /\ {"<!-- - -->", "<!-- # -->", "<!-- > -->", "</p>", "</li>", "</span>"} \subseteq Token
      /\ Words \subseteq Token /\ Openers \subseteq Token
  <2>1. Words \subseteq Token /\ Openers \subseteq Token
    BY PairFacts
  <2>2. {"x", "_", "- ", "# ", "> ", ">"} \subseteq Words /\ {"<p>", "<li>", "<span>"} \subseteq Openers
    BY DEF Words, Openers
  <2> QED
    BY <2>1, <2>2 DEF Mode, Token, TagList, Marks
<1>6. /\ Append(Append(x, "- "), "x") = x \o LineText["dash"]
      /\ Append(Append(x, "# "), "x") = x \o LineText["h1"]
      /\ Append(Append(x, "> "), "x") = x \o LineText["quote"]
      /\ Append(x, ">") = x \o LineText["gt"]
  <2>1. "- " \in Token /\ "# " \in Token /\ "> " \in Token /\ ">" \in Token /\ "x" \in Token
    BY <1>5
  <2>2. Then2(x, "- ", "x") /\ Then2(x, "# ", "x") /\ Then2(x, "> ", "x") /\ Then1(x, ">")
    BY <1>1, <2>1, OneMore, TwoMore, Zenon
  <2> QED
    BY <1>4, <2>2 DEF Then1, Then2
<1>20. /\ "x" \in Token /\ "_" \in Token /\ "- " \in Token /\ "# " \in Token /\ "> " \in Token /\ ">" \in Token
       /\ "<p>" \in Token /\ "</p>" \in Token /\ "<li>" \in Token /\ "</li>" \in Token
       /\ "<span>" \in Token /\ "</span>" \in Token
       /\ "<!-- - -->" \in Token /\ "<!-- # -->" \in Token /\ "<!-- > -->" \in Token
  BY <1>5
<1>0. /\ Whole(m, k) => Restored(m, k) = LineText[k]
      /\ k \in Item /\ m \in {"none", "ul"} => Restored(m, k) = LineText["dash"]
      /\ k = "h2" => Restored(m, k) = <<"# ", "_", "x">>
  <2>1. k \in Item => k = "dash" \/ k = "wide"
    BY DEF Item
  <2>2. k = "wide" => k \in Item
    BY DEF Item
  <2> QED
    BY <2>1, <2>2 DEF Restored, Whole
<1>19. k \in {"empty", "blank", "h1", "quote", "gt"} => Whole(m, k)
  BY DEF Whole, Item
<1> SUFFICES Line
  OBVIOUS
<1>7. CASE k = "empty" /\ h = Closing[m] /\ n = "none"
  <2>1. At(s \o Closing[m], x, Blocks["none"])
    BY AtClosing
  <2>2. x \o LineText[k] = x
    BY <1>1, <1>4, <1>7, Joined
  <2>3. "none" \in Mode
    BY <1>5
  <2> HIDE DEF h, n
  <2> QED
    BY <1>0, <1>19, <1>3, <1>7, <2>1, <2>2, <2>3
<1>8. CASE k = "blank" /\ m = "none" /\ h = LineText[k] \o Opening["pre"] /\ n = "pre"
  <2>1. At(s \o LineText[k], x \o LineText[k], Blocks["none"])
    BY <1>8, AtText
  <2>2. "pre" \in Mode \ {"none"}
    BY <1>5
  <2>3. At((s \o LineText[k]) \o Opening["pre"], x \o LineText[k], Blocks["pre"])
    BY <2>1, <2>2, AtOpening
  <2>4. Opening["pre"] \in Tokens
    BY <1>3, <2>2
  <2> HIDE DEF h, n
  <2> QED
    BY <1>0, <1>19, <1>1, <1>2, <1>8, <2>2, <2>3, <2>4
<1>9. CASE k = "blank" /\ m # "none" /\ h = LineText[k] \o <<>> /\ n = m
  <2>1. At(s \o LineText[k], x \o LineText[k], Blocks[m])
    BY AtText
  <2>2. LineText[k] \o <<>> = LineText[k]
    BY <1>1, Joined
  <2> HIDE DEF h, n
  <2> QED
    BY <1>0, <1>19, <1>1, <1>9, <2>1, <2>2
<1>10. CASE k \in Item /\ m = "none" /\ h = Opening["ul"] \o <<"<!-- - -->", "x">> /\ n = "ul"
  <2>1. "ul" \in Mode \ {"none"}
    BY <1>5
  <2> DEFINE r == s \o Opening["ul"]
  <2>2. At(r, x, Blocks["ul"])
    BY <1>10, <2>1, AtOpening
  <2>3. At(Append(Append(r, "<!-- - -->"), "x"), Append(Append(x, "- "), "x"), Blocks["ul"])
    <3> HIDE DEF r
    <3>1. At(Append(r, "<!-- - -->"), Append(x, "- "), Blocks["ul"])
      BY <1>5, <2>2, AtStep
    <3> QED
      BY <1>5, <3>1, AtStep
  <2> DEFINE q == <<"<!-- - -->", "x">>
  <2>4. q \in Tokens /\ r \o q = Append(Append(r, "<!-- - -->"), "x")
    <3> HIDE DEF r
    <3>0. r \in Tokens
      BY <2>2 DEF At
    <3>1. Then2(r, "<!-- - -->", "x")
      BY <3>0, <1>20, TwoMore, Zenon
    <3> QED
      BY <3>1, Zenon DEF Then2
  <2> HIDE DEF q
  <2>5. s \o h = r \o q /\ h \in Tokens
    <3> HIDE DEF h, n
    <3> QED
      BY <1>1, <1>2, <1>3, <1>10, <2>1, <2>4 DEF q
  <2> HIDE DEF h, n, r
  <2> QED
    BY <1>0, <1>19, <1>6, <1>10, <2>1, <2>3, <2>4, <2>5
<1>11. CASE k \in Item /\ m = "ul" /\ h = <<"</li>", "<li>", "<!-- - -->", "x">> /\ n = m
  <2>1. At(Append(s, "</li>"), x, Append(Blocks["none"], "<ul>"))
    BY <1>5, <1>11, AtStep, PairFacts, BlockFacts
  <2>2. At(Append(Append(s, "</li>"), "<li>"), x, Blocks["ul"])
    BY <1>5, <2>1, AtStep, BlockFacts
  <2>3. At(Append(Append(Append(s, "</li>"), "<li>"), "<!-- - -->"), Append(x, "- "), Blocks["ul"])
    BY <1>5, <2>2, AtStep
  <2>4. At(Append(Append(Append(Append(s, "</li>"), "<li>"), "<!-- - -->"), "x"), Append(Append(x, "- "), "x"), Blocks["ul"])
    BY <1>5, <2>3, AtStep
  <2>5. h \in Tokens /\ s \o h = Append(Append(Append(Append(s, "</li>"), "<li>"), "<!-- - -->"), "x")
    <3>1. Then4(s, "</li>", "<li>", "<!-- - -->", "x")
      BY <1>1, <1>20, FourMore, Zenon
    <3> QED
      BY <1>11, <3>1, Zenon DEF Then4
  <2> HIDE DEF h, n
  <2> QED
    BY <1>0, <1>19, <1>5, <1>6, <1>11, <2>4, <2>5
<1>12. CASE k = "h1" /\ m = "none" /\ h = <<"<!-- # -->", "<p>", "x", "</p>">> /\ n = m
  <2>1. At(Append(s, "<!-- # -->"), Append(x, "# "), Blocks["none"])
    BY <1>5, <1>12, AtStep
  <2>2. At(Append(Append(s, "<!-- # -->"), "<p>"), Append(x, "# "), Append(Blocks["none"], "<p>"))
    BY <1>5, <2>1, AtStep
  <2>3. At(Append(Append(Append(s, "<!-- # -->"), "<p>"), "x"), Append(Append(x, "# "), "x"), Append(Blocks["none"], "<p>"))
    BY <1>5, <2>2, AtStep
  <2>4. At(Append(Append(Append(Append(s, "<!-- # -->"), "<p>"), "x"), "</p>"), Append(Append(x, "# "), "x"), Blocks["none"])
    BY <1>5, <2>3, AtStep, PairFacts, BlockFacts
  <2>5. h \in Tokens /\ s \o h = Append(Append(Append(Append(s, "<!-- # -->"), "<p>"), "x"), "</p>")
    <3>1. Then4(s, "<!-- # -->", "<p>", "x", "</p>")
      BY <1>1, <1>20, FourMore, Zenon
    <3> QED
      BY <1>12, <3>1, Zenon DEF Then4
  <2> HIDE DEF h, n
  <2> QED
    BY <1>0, <1>19, <1>5, <1>6, <1>12, <2>4, <2>5
<1>13. CASE k = "h2" /\ m = "none" /\ h = <<"<!-- # -->", "<p>", "_", "x", "</p>">> /\ n = m
  <2>1. At(Append(s, "<!-- # -->"), Append(x, "# "), Blocks["none"])
    BY <1>5, <1>13, AtStep
  <2>2. At(Append(Append(s, "<!-- # -->"), "<p>"), Append(x, "# "), Append(Blocks["none"], "<p>"))
    BY <1>5, <2>1, AtStep
  <2>3. At(Append(Append(Append(s, "<!-- # -->"), "<p>"), "_"), Append(Append(x, "# "), "_"), Append(Blocks["none"], "<p>"))
    BY <1>5, <2>2, AtStep
  <2> DEFINE y == Append(Append(Append(x, "# "), "_"), "x")
  <2>6. At(Append(Append(Append(Append(s, "<!-- # -->"), "<p>"), "_"), "x"), y, Append(Blocks["none"], "<p>"))
    BY <1>5, <2>3, AtStep
  <2>4. At(Append(Append(Append(Append(Append(s, "<!-- # -->"), "<p>"), "_"), "x"), "</p>"), y, Blocks["none"])
    <3> HIDE DEF y
    <3> QED
      BY <1>5, <2>6, AtStep, PairFacts, BlockFacts
  <2>5. h \in Tokens /\ s \o h = Append(Append(Append(Append(Append(s, "<!-- # -->"), "<p>"), "_"), "x"), "</p>")
    <3>1. Then5(s, "<!-- # -->", "<p>", "_", "x", "</p>")
      BY <1>1, <1>20, FiveMore, Zenon
    <3> QED
      BY <1>13, <3>1, Zenon DEF Then5
  <2>7. y = x \o Restored(m, k)
    <3>1. Then3(x, "# ", "_", "x")
      BY <1>1, <1>20, ThreeMore, Zenon
    <3> QED
      BY <1>0, <1>13, <3>1, Zenon DEF Then3
  <2> HIDE DEF h, n, y
  <2> QED
    BY <1>5, <1>13, <2>4, <2>5, <2>7
<1>14. CASE /\ k = "quote" /\ m = "none" /\ n = "blockquote"
            /\ h = Opening["blockquote"] \o <<"<span>", "> ", "</span>", "x">>
  <2>1. "blockquote" \in Mode \ {"none"}
    BY <1>5
  <2> DEFINE r == s \o Opening["blockquote"]
             o == Blocks["blockquote"]
             q == <<"<span>", "> ", "</span>", "x">>
  <2>2. At(r, x, o) /\ o \in Stack
    BY <1>14, <2>1, AtOpening, BlockFacts
  <2>3. At(Append(Append(Append(Append(r, "<span>"), "> "), "</span>"), "x"), Append(Append(x, "> "), "x"), o)
    <3> HIDE DEF r, o
    <3>1. At(Append(r, "<span>"), x, Append(o, "<span>"))
      BY <1>5, <2>2, AtStep
    <3>2. At(Append(Append(r, "<span>"), "> "), Append(x, "> "), Append(o, "<span>"))
      BY <1>5, <3>1, AtStep
    <3>3. At(Append(Append(Append(r, "<span>"), "> "), "</span>"), Append(x, "> "), o)
      BY <1>5, <2>2, <3>2, AtStep, PairFacts
    <3> QED
      BY <1>5, <3>3, AtStep
  <2>4. q \in Tokens /\ r \o q = Append(Append(Append(Append(r, "<span>"), "> "), "</span>"), "x")
    <3> HIDE DEF r
    <3>0. r \in Tokens
      BY <2>2 DEF At
    <3>1. Then4(r, "<span>", "> ", "</span>", "x")
      BY <3>0, <1>20, FourMore, Zenon
    <3> QED
      BY <3>1, Zenon DEF Then4
  <2> HIDE DEF q
  <2>5. s \o h = r \o q /\ h \in Tokens
    <3> HIDE DEF h, n
    <3> QED
      BY <1>1, <1>2, <1>3, <1>14, <2>1, <2>4 DEF q
  <2> HIDE DEF h, n, r
  <2> QED
    BY <1>0, <1>19, <1>6, <1>14, <2>1, <2>3, <2>4, <2>5
<1>15. CASE k = "quote" /\ m = "blockquote" /\ h = <<"<!-- > -->", "x">> /\ n = m
  <2>1. At(Append(s, "<!-- > -->"), Append(x, "> "), Blocks[m])
    BY <1>5, AtStep
  <2>2. At(Append(Append(s, "<!-- > -->"), "x"), Append(Append(x, "> "), "x"), Blocks[m])
    BY <1>5, <2>1, AtStep
  <2>3. h \in Tokens /\ s \o h = Append(Append(s, "<!-- > -->"), "x")
    <3>1. Then2(s, "<!-- > -->", "x")
      BY <1>1, <1>20, TwoMore, Zenon
    <3> QED
      BY <1>15, <3>1, Zenon DEF Then2
  <2> HIDE DEF h, n
  <2> QED
    BY <1>0, <1>19, <1>5, <1>6, <1>15, <2>2, <2>3
<1>16. CASE /\ k = "gt" /\ m = "blockquote" /\ n = m
            /\ h = <<"</p>", "<p>", "<span>", ">", "</span>">>
  <2> DEFINE o == Blocks["blockquote"]
             r == Append(Append(s, "</p>"), "<p>")
  <2>1. At(Append(s, "</p>"), x, Append(Blocks["none"], "<blockquote>"))
    BY <1>5, <1>16, AtStep, PairFacts, BlockFacts
  <2>2. At(r, x, o) /\ o \in Stack
    BY <1>5, <2>1, AtStep, BlockFacts
  <2>3. At(Append(Append(Append(r, "<span>"), ">"), "</span>"), Append(x, ">"), o)
    <3> HIDE DEF r, o
    <3>1. At(Append(r, "<span>"), x, Append(o, "<span>"))
      BY <1>5, <2>2, AtStep
    <3>2. At(Append(Append(r, "<span>"), ">"), Append(x, ">"), Append(o, "<span>"))
      BY <1>5, <3>1, AtStep
    <3> QED
      BY <1>5, <2>2, <3>2, AtStep, PairFacts
  <2>4. h \in Tokens /\ s \o h = Append(Append(Append(r, "<span>"), ">"), "</span>")
    <3>1. Then5(s, "</p>", "<p>", "<span>", ">", "</span>")
      BY <1>1, <1>20, FiveMore, Zenon
    <3> QED
      BY <1>16, <3>1, Zenon DEF Then5
  <2> HIDE DEF h, n, r
  <2> QED
    BY <1>0, <1>19, <1>5, <1>6, <1>16, <2>3, <2>4
<1>17. CASE m = "none" /\ Whole(m, k) /\ n \in Mode \ {"none"} /\ h = Opening[n] \o LineText[k]
  <2>1. At(s \o Opening[n], x, Blocks[n])
    <3> HIDE DEF n
    <3> QED
      BY <1>17, AtOpening
  <2>2. At((s \o Opening[n]) \o LineText[k], x \o LineText[k], Blocks[n])
    <3> HIDE DEF n
    <3> QED
      BY <2>1, AtText
  <2> HIDE DEF n, h
  <2> QED
    BY <1>0, <1>19, <1>1, <1>2, <1>3, <1>17, <2>2
<1>18. CASE m # "none" /\ Whole(m, k) /\ n = m /\ h = <<>> \o LineText[k]
  <2>1. At(s \o LineText[k], x \o LineText[k], Blocks[m])
    BY AtText
  <2>2. <<>> \o LineText[k] = LineText[k]
    BY <1>1, ConcatEmptySeq DEF Tokens
  <2> HIDE DEF n, h
  <2> QED
    BY <1>0, <1>19, <1>1, <1>18, <2>1, <2>2
<1> HIDE DEF Line, h, n
<1>21. Shape(m, k, h, n)
  BY LineCases, Zenon DEF h, n
<1> SUFFICES ASSUME ~Line PROVE ~Shape(m, k, h, n)
  BY <1>21
<1>22. /\ ~(k = "empty" /\ h = Closing[m] /\ n = "none")
       /\ ~(k = "blank" /\ m = "none" /\ h = LineText[k] \o Opening["pre"] /\ n = "pre")
       /\ ~(k = "blank" /\ m # "none" /\ h = LineText[k] \o <<>> /\ n = m)
  BY <1>7, <1>8, <1>9
<1>23. /\ ~(k \in Item /\ m = "none" /\ h = Opening["ul"] \o <<"<!-- - -->", "x">> /\ n = "ul")
       /\ ~(k \in Item /\ m = "ul" /\ h = <<"</li>", "<li>", "<!-- - -->", "x">> /\ n = m)
  BY <1>10, <1>11
<1>24. /\ ~(k = "h1" /\ m = "none" /\ h = <<"<!-- # -->", "<p>", "x", "</p>">> /\ n = m)
       /\ ~(k = "h2" /\ m = "none" /\ h = <<"<!-- # -->", "<p>", "_", "x", "</p>">> /\ n = m)
  BY <1>12, <1>13
<1>25. /\ ~(k = "quote" /\ m = "none" /\ n = "blockquote" /\ h = Opening["blockquote"] \o <<"<span>", "> ", "</span>", "x">>)
       /\ ~(k = "quote" /\ m = "blockquote" /\ h = <<"<!-- > -->", "x">> /\ n = m)
       /\ ~(k = "gt" /\ m = "blockquote" /\ n = m /\ h = <<"</p>", "<p>", "<span>", ">", "</span>">>)
  BY <1>14, <1>15, <1>16
<1>26. /\ ~(m = "none" /\ Whole(m, k) /\ n \in Mode \ {"none"} /\ h = Opening[n] \o LineText[k])
       /\ ~(m # "none" /\ Whole(m, k) /\ n = m /\ h = <<>> \o LineText[k])
  BY <1>17, <1>18
<1> QED
  BY <1>22, <1>23, <1>24, <1>25, <1>26 DEF Shape

-----------------------------------------------------------------------------
(***************************************************************************)
(* The loop over the lines.                                                *)
(***************************************************************************)
LEMMA AtStart == At(<<"<div>">>, <<>>, Blocks["none"])
<1>1. "<div>" \in Token /\ "<div>" \in Openers /\ "<div>" \in TagList /\ "<div>" # "<pre>"
  BY DEF Token, Openers, TagList
<1>2. <<>> \in Tokens /\ <<"<div>">> \in Tokens /\ <<"<div>">> \in Stack
  BY <1>1 DEF Tokens, Stack
<1>3. Append(<<>>, "<div>") = <<"<div>">>
  <2>1. <<>> \in Seq(Token) /\ <<"<div>">> \in Seq(Token)
    BY <1>1
  <2> QED
    BY <1>1, <2>1, AppendIsConcat, ConcatEmptySeq
<1>4. Merged(<<"<div>">>) = <<"<div>">>
  <2>1. Merged(Append(<<>>, "<div>")) = MergePre(Merged(<<>>), "<div>") /\ Merged(<<>>) = <<>>
    BY <1>1, <1>2, MergePreAppend
  <2> QED
    BY <1>1, <1>3, <2>1 DEF MergePre
<1>5. Untagged(<<"<div>">>) = <<>>
  <2>1. Untagged(Append(<<>>, "<div>")) = Untag(Untagged(<<>>), "<div>") /\ Untagged(<<>>) = <<>>
    BY <1>1, <1>2, UntagAppend
  <2> QED
    BY <1>1, <1>3, <2>1, UntagCases
<1>6. Unclosed(<<"<div>">>) = <<"<div>">>
  <2>1. Unclosed(Append(<<>>, "<div>")) = Nest(Unclosed(<<>>), "<div>") /\ Unclosed(<<>>) = <<>>
    BY <1>1, <1>2, NestAppend
  <2> QED
    BY <1>1, <1>2, <1>3, <2>1, NestCases
<1>7. Blocks["none"] = <<"<div>">>
  BY DEF Blocks
<1> QED
  BY <1>2, <1>4, <1>5, <1>6, <1>7, Zenon DEF At

\* A line becomes tokens, and the mode stays one, even where it is rejected.
LEMMA LineType ==
    ASSUME NEW m \in Mode, NEW k \in Kind
    PROVE  HTMLLine(m, k) \in Tokens /\ NextMode(m, k) \in Mode
<1>1. "none" \in Mode
  BY DEF Mode
<1>2. \E s, x : At(s, x, Blocks[m])
  <2>1. CASE m = "none"
    BY <2>1, AtStart
  <2>2. CASE m # "none"
    BY <2>2, AtStart, AtOpening
  <2> QED
    BY <2>1, <2>2
<1>3. CASE k \in {"h1", "h2"} => m = "none"
  BY <1>2, <1>3, AtLine
<1>4. CASE k \in {"h1", "h2"} /\ m # "none"
  <2>1. HTMLLine("none", k) \in Tokens
    BY <1>1, AtStart, AtLine
  <2>2. k = "h1" \/ k = "h2"
    BY <1>4
  <2>3. HTMLLine(m, k) = HTMLLine("none", k)
    BY <2>2 DEF HTMLLine, Item
  <2>4. NextMode(m, k) = m
    BY <1>4 DEF NextMode
  <2> QED
    BY <2>1, <2>3, <2>4
<1> QED
  BY <1>3, <1>4

\* The mode, the output and whether a heading was rejected.
Acc == [mode : Mode, out : Tokens, rejected : BOOLEAN]

\* The accumulator of the loop keeps its type.
LEMMA ConvertType ==
    ASSUME NEW acc \in Acc, NEW k \in Kind
    PROVE  Convert(acc, k) \in Acc
<1>1. acc.mode \in Mode /\ acc.out \in Tokens /\ acc.rejected \in BOOLEAN
  BY DEF Acc
<1>2. HTMLLine(acc.mode, k) \in Tokens /\ NextMode(acc.mode, k) \in Mode
  BY <1>1, LineType
<1>3. "\n" \in Token
  BY DEF Token, Words
<1>4. Append(HTMLLine(acc.mode, k), "\n") \in Tokens
  BY <1>2, <1>3 DEF Tokens
<1>5. acc.out \o Append(HTMLLine(acc.mode, k), "\n") \in Tokens
  BY <1>1, <1>4, Joined
<1> QED
  BY <1>1, <1>2, <1>5 DEF Convert, Acc

\* The mode and the text so far.
TextAcc == [mode : Mode, text : Tokens]

\* What comes back of a line is tokens.
LEMMA RestoredType ==
    ASSUME NEW m \in Mode, NEW k \in Kind
    PROVE  Restored(m, k) \in Tokens
<1>1. LineText[k] \in Tokens /\ LineText["dash"] \in Tokens
  <2>1. "dash" \in Kind
    BY KindFacts
  <2> QED
    BY <2>1, KindFacts
<1>2. <<"# ", "_", "x">> \in Tokens
  <2>1. "# " \in Token /\ "_" \in Token /\ "x" \in Token /\ <<>> \in Tokens
    BY DEF Token, Words, Tokens
  <2> QED
    BY <2>1, ThreeMore, Zenon DEF Then3
<1> QED
  BY <1>1, <1>2, Zenon DEF Restored

\* The text keeps its type.
LEMMA RestoredLineType ==
    ASSUME NEW r \in TextAcc, NEW k \in Kind
    PROVE  RestoredLine(r, k) \in TextAcc
<1>1. r.mode \in Mode /\ r.text \in Tokens
  BY DEF TextAcc
<1>2. NextMode(r.mode, k) \in Mode
  BY <1>1, LineType
<1>3. Restored(r.mode, k) \in Tokens
  BY <1>1, RestoredType
<1>4. "\n" \in Token
  BY DEF Token, Words
<1>5. Append(Restored(r.mode, k), "\n") \in Tokens
  BY <1>3, <1>4 DEF Tokens
<1>6. r.text \o Append(Restored(r.mode, k), "\n") \in Tokens
  BY <1>1, <1>5, Joined
<1> QED
  BY <1>2, <1>6 DEF RestoredLine, TextAcc

\* The accumulator before the loop.
LEMMA StartFacts == HTMLStart \in Acc /\ HTMLStart.mode = "none" /\ HTMLStart.out = <<"<div>">> /\ ~HTMLStart.rejected
<1>1. <<"<div>">> \in Tokens /\ "none" \in Mode
  BY AtStart DEF At, Mode
<1> QED
  BY <1>1 DEF HTMLStart, Acc

\* And the one of the text.
LEMMA TextStartFacts == RestoredStart \in TextAcc /\ RestoredStart.mode = "none" /\ RestoredStart.text = <<>>
<1>1. <<>> \in Tokens /\ "none" \in Mode
  BY AtStart DEF At, Mode
<1> QED
  BY <1>1 DEF RestoredStart, TextAcc

ConvertStep == [p \in Acc \X Kind |-> Convert(p[1], p[2])]
\* Converted takes its steps.
LEMMA ConvertFolds ==
    ASSUME NEW s \in Seq(Kind)
    PROVE  Folds(Acc, HTMLStart, ConvertStep, s, Converted(s))
<1> DEFINE Is(f) == f = [i \in 0..Len(s) |-> IF i = 0 THEN HTMLStart ELSE Convert(f[i - 1], s[i])]
           c == CHOOSE f : Is(f)
<1>1. ConvertStep \in [Acc \X Kind -> Acc]
  BY ConvertType DEF ConvertStep
<1>2. HTMLStart \in Acc /\ Len(s) \in Nat /\ \A i \in 1..Len(s) : s[i] \in Kind
  BY StartFacts
<1>3. PICK f \in [0..Len(s) -> Acc] :
        f[0] = HTMLStart /\ \A i \in 1..Len(s) : f[i] = ConvertStep[<<f[i - 1], s[i]>>]
  <2>1. HasFold(Acc, HTMLStart, ConvertStep, s)
    BY <1>1, <1>2, FoldExists, Zenon
  <2> QED
    BY <2>1 DEF HasFold
<1>4. \A i \in 1..Len(s) : f[i] = Convert(f[i - 1], s[i])
  <2>1. \A i \in 1..Len(s) : f[i - 1] \in Acc
    BY <1>3
  <2> QED
    BY <1>2, <1>3, <2>1 DEF ConvertStep
<1>5. Is(f)
  BY <1>2, <1>3, <1>4
<1>6. Is(c)
  <2> HIDE DEF Is
  <2> QED
    BY <1>5
<1>7. Steps(Acc, HTMLStart, ConvertStep, s, c)
  <2> HIDE DEF c
  <2>1. c[0] = HTMLStart /\ \A i \in 1..Len(s) : c[i] = Convert(c[i - 1], s[i])
    BY <1>2, <1>6
  <2> QED
    BY <1>2, <2>1 DEF Steps, ConvertStep
<1>8. Converted(s) = c[Len(s)]
  BY DEF Converted, Fold
<1>9. Folds(Acc, HTMLStart, ConvertStep, s, c[Len(s)])
  <2> HIDE DEF c
  <2> QED
    BY <1>1, <1>2, <1>7, FoldValue, Zenon
<1> QED
  BY <1>8, <1>9

RestoredStep == [p \in TextAcc \X Kind |-> RestoredLine(p[1], p[2])]
\* AllRestored takes its steps.
LEMMA RestoredFolds ==
    ASSUME NEW s \in Seq(Kind)
    PROVE  Folds(TextAcc, RestoredStart, RestoredStep, s, AllRestored(s))
<1> DEFINE Is(f) == f = [i \in 0..Len(s) |-> IF i = 0 THEN RestoredStart ELSE RestoredLine(f[i - 1], s[i])]
           c == CHOOSE f : Is(f)
<1>1. RestoredStep \in [TextAcc \X Kind -> TextAcc]
  BY RestoredLineType DEF RestoredStep
<1>2. RestoredStart \in TextAcc /\ Len(s) \in Nat /\ \A i \in 1..Len(s) : s[i] \in Kind
  BY TextStartFacts
<1>3. PICK f \in [0..Len(s) -> TextAcc] :
        f[0] = RestoredStart /\ \A i \in 1..Len(s) : f[i] = RestoredStep[<<f[i - 1], s[i]>>]
  <2>1. HasFold(TextAcc, RestoredStart, RestoredStep, s)
    BY <1>1, <1>2, FoldExists, Zenon
  <2> QED
    BY <2>1 DEF HasFold
<1>4. \A i \in 1..Len(s) : f[i] = RestoredLine(f[i - 1], s[i])
  <2>1. \A i \in 1..Len(s) : f[i - 1] \in TextAcc
    BY <1>3
  <2> QED
    BY <1>2, <1>3, <2>1 DEF RestoredStep
<1>5. Is(f)
  BY <1>2, <1>3, <1>4
<1>6. Is(c)
  <2> HIDE DEF Is
  <2> QED
    BY <1>5
<1>7. Steps(TextAcc, RestoredStart, RestoredStep, s, c)
  <2> HIDE DEF c
  <2>1. c[0] = RestoredStart /\ \A i \in 1..Len(s) : c[i] = RestoredLine(c[i - 1], s[i])
    BY <1>2, <1>6
  <2> QED
    BY <1>2, <2>1 DEF Steps, RestoredStep
<1>8. AllRestored(s) = c[Len(s)]
  BY DEF AllRestored, Fold
<1>9. Folds(TextAcc, RestoredStart, RestoredStep, s, c[Len(s)])
  <2> HIDE DEF c
  <2> QED
    BY <1>1, <1>2, <1>7, FoldValue, Zenon
<1> QED
  BY <1>8, <1>9

\* The last token of the second of two sequences.
LEMMA EndJoined ==
    ASSUME NEW s \in Tokens, NEW u \in Tokens, NEW a \in Token
    PROVE  s \o Append(u, a) = Append(s \o u, a)
  BY Joined

\* So far as no heading was rejected, what is shown is what Restored says.
Reached(acc, r) ==
    r.mode = acc.mode /\ (acc.rejected \/ At(acc.out, r.text, Blocks[acc.mode]))

\* One line more.
LEMMA ReachedStep ==
    ASSUME NEW acc \in Acc, NEW r \in TextAcc, NEW k \in Kind, Reached(acc, r)
    PROVE  Reached(Convert(acc, k), RestoredLine(r, k))
<1> DEFINE m == acc.mode
           h == HTMLLine(m, k)
           t == Restored(m, k)
<1>1. m \in Mode /\ acc.out \in Tokens /\ acc.rejected \in BOOLEAN /\ r.mode = m /\ r.text \in Tokens
  BY DEF Acc, TextAcc, Reached
<1>2. /\ Convert(acc, k).mode = NextMode(m, k)
      /\ Convert(acc, k).out = acc.out \o Append(h, "\n")
      /\ Convert(acc, k).rejected = (acc.rejected \/ (k \in {"h1", "h2"} /\ m # "none"))
  BY DEF Convert
<1>5. RestoredLine(r, k).mode = NextMode(m, k) /\ RestoredLine(r, k).text = r.text \o Append(t, "\n")
  BY <1>1 DEF RestoredLine
<1>3. CASE acc.rejected \/ (k \in {"h1", "h2"} /\ m # "none")
  BY <1>2, <1>3, <1>5 DEF Reached
<1>4. CASE ~(acc.rejected \/ (k \in {"h1", "h2"} /\ m # "none"))
  <2>1. At(acc.out, r.text, Blocks[m])
    BY <1>4 DEF Reached
  <2>2. h \in Tokens /\ At(acc.out \o h, r.text \o t, Blocks[NextMode(m, k)])
    BY <1>1, <1>4, <2>1, AtLine
  <2> HIDE DEF h, m, t
  <2>3. At(Append(acc.out \o h, "\n"), Append(r.text \o t, "\n"), Blocks[NextMode(m, k)])
    BY <2>2, AtEnd
  <2>4. "\n" \in Token
    BY DEF Token, Words
  <2>5. acc.out \o Append(h, "\n") = Append(acc.out \o h, "\n")
    BY <1>1, <2>2, <2>4, EndJoined, Zenon
  <2>6. r.text \o Append(t, "\n") = Append(r.text \o t, "\n")
    <3>1. t \in Tokens
      BY <1>1, RestoredType DEF t
    <3> QED
      BY <1>1, <2>4, <3>1, EndJoined, Zenon
  <2> QED
    BY <1>2, <1>5, <2>3, <2>5, <2>6 DEF Reached
<1> QED
  BY <1>3, <1>4

\* All lines.
LEMMA AllReached ==
    ASSUME NEW doc \in Seq(Kind)
    PROVE  /\ Converted(doc) \in Acc /\ AllRestored(doc) \in TextAcc
           /\ Reached(Converted(doc), AllRestored(doc))
<1> DEFINE n == Len(doc)
<1>1. n \in Nat /\ n \in 0..n /\ \A i \in 1..n : doc[i] \in Kind
  OBVIOUS
<1>2. PICK f \in [0..n -> Acc] :
        f[0] = HTMLStart /\ f[n] = Converted(doc) /\ \A i \in 1..n : f[i] = ConvertStep[<<f[i - 1], doc[i]>>]
  BY ConvertFolds DEF Folds
<1>3. PICK g \in [0..n -> TextAcc] :
        g[0] = RestoredStart /\ g[n] = AllRestored(doc) /\ \A i \in 1..n : g[i] = RestoredStep[<<g[i - 1], doc[i]>>]
  BY RestoredFolds DEF Folds
<1> HIDE DEF n
<1>0. \A i \in 1..n : f[i - 1] \in Acc /\ g[i - 1] \in TextAcc
  BY <1>1, <1>2, <1>3
<1>4. \A i \in 1..n : f[i] = Convert(f[i - 1], doc[i]) /\ f[i - 1] \in Acc
  <2> SUFFICES ASSUME NEW i \in 1..n PROVE f[i] = Convert(f[i - 1], doc[i])
    BY <1>0
  <2>1. <<f[i - 1], doc[i]>> \in Acc \X Kind
    BY <1>0, <1>1
  <2>2. ConvertStep[<<f[i - 1], doc[i]>>] = Convert(f[i - 1], doc[i])
    BY <2>1 DEF ConvertStep
  <2> QED
    BY <1>2, <2>2
<1>5. \A i \in 1..n : g[i] = RestoredLine(g[i - 1], doc[i]) /\ g[i - 1] \in TextAcc
  <2> SUFFICES ASSUME NEW i \in 1..n PROVE g[i] = RestoredLine(g[i - 1], doc[i])
    BY <1>0
  <2>1. <<g[i - 1], doc[i]>> \in TextAcc \X Kind
    BY <1>0, <1>1
  <2>2. RestoredStep[<<g[i - 1], doc[i]>>] = RestoredLine(g[i - 1], doc[i])
    BY <2>1 DEF RestoredStep
  <2> QED
    BY <1>3, <2>2
<1> DEFINE A == {i \in 0..n : Reached(f[i], g[i])}
<1>6. 0 \in A
  <2>1. Reached(f[0], g[0])
    BY <1>2, <1>3, AtStart, StartFacts, TextStartFacts DEF Reached
  <2> QED
    BY <1>1, <2>1
<1>7. \A i \in 1..n : i - 1 \in A => i \in A
  <2> SUFFICES ASSUME NEW i \in 1..n, Reached(f[i - 1], g[i - 1])
               PROVE  Reached(f[i], g[i])
    BY <1>1
  <2> QED
    BY <1>1, <1>4, <1>5, ReachedStep
<1>8. \A i \in 0..n : i \in A
  <2> HIDE DEF A
  <2> QED
    BY <1>1, <1>6, <1>7, UpTo
<1> QED
  BY <1>1, <1>2, <1>3, <1>8

-----------------------------------------------------------------------------
(***************************************************************************)
(* The ends of the text.                                                   *)
(***************************************************************************)
\* The last token that is not white space.
Kept(s, ws, n) ==
    n \in 0..Len(s) /\ (n # 0 => s[n] \notin ws) /\ \A i \in n + 1..Len(s) : s[i] \in ws

\* TrimEnd cuts off what is after it.
LEMMA TrimFacts ==
    ASSUME NEW s \in Seq(Token), NEW ws
    PROVE  \E n : Kept(s, ws, n) /\ TrimEnd(s, ws) = SubSeq(s, 1, n)
<1> DEFINE I == {i \in 1..Len(s) : s[i] \notin ws}
           last == IF I # {} THEN CHOOSE x \in I : \A y \in I : x >= y ELSE 0
<1>1. Len(s) \in Nat
  OBVIOUS
<1>2. TrimEnd(s, ws) = SubSeq(s, 1, last)
  BY DEF TrimEnd, SelectLastInSeq, Max
<1>3. CASE I = {}
  <2>1. Kept(s, ws, 0)
    BY <1>1, <1>3 DEF Kept
  <2> QED
    BY <1>2, <1>3, <2>1
<1>4. CASE I # {}
  <2> DEFINE D == {j \in 0..Len(s) : Len(s) - j \in I}
  <2>1. PICK j \in D : \A k \in D : <<k, j>> \notin OpToRel(<, Nat)
    <3>1. PICK i \in I : TRUE
      BY <1>4
    <3>2. Len(s) - i \in D
      BY <1>1
    <3>3. D \subseteq Nat
      BY <1>1
    <3>4. D # {}
      <4> HIDE DEF D
      <4> QED
        BY <3>2
    <3> HIDE DEF D
    <3> QED
      BY <3>3, <3>4, NatLessThanWellFounded, WFMin
  <2>2. \A k \in D : ~(k < j)
    <3>1. D \subseteq Nat
      BY <1>1
    <3> HIDE DEF D
    <3> QED
      BY <2>1, <3>1 DEF OpToRel
  <2>3. Len(s) - j \in I /\ \A y \in I : Len(s) - j >= y
    <3>1. ASSUME NEW y \in I
          PROVE  Len(s) - j >= y
      <4>1. Len(s) - y \in D
        BY <1>1
      <4>2. ~(Len(s) - y < j)
        <5> HIDE DEF D
        <5> QED
          BY <2>2, <4>1
      <4> QED
        BY <1>1, <4>2
    <3> QED
      BY <3>1
  <2>4. last \in I /\ \A y \in I : last >= y
    <3> HIDE DEF I
    <3> QED
      BY <1>4, <2>3
  <2>5. Kept(s, ws, last)
    <3> HIDE DEF last
    <3> QED
      BY <1>1, <2>4 DEF Kept
  <2> QED
    BY <1>2, <2>5
<1> QED
  BY <1>3, <1>4

\* There is one such position only.
LEMMA KeptOnce ==
    ASSUME NEW s \in Seq(Token), NEW ws, NEW n, NEW k, Kept(s, ws, n), Kept(s, ws, k)
    PROVE  n = k
<1>1. Len(s) \in Nat /\ n \in 0..Len(s) /\ k \in 0..Len(s)
  BY DEF Kept
<1>2. ~(n < k) /\ ~(k < n)
  BY <1>1 DEF Kept
<1> QED
  BY <1>1, <1>2

\* A newline at the end does not show.
LEMMA TrimNewline ==
    ASSUME NEW s \in Tokens
    PROVE  TrimSpace(Append(s, "\n")) = TrimSpace(s)
<1> DEFINE u == Append(s, "\n")
<1>1. s \in Seq(Token) /\ "\n" \in Token /\ "\n" \in Blank
  BY DEF Tokens, Token, Words, Blank
<1>2. u \in Seq(Token) /\ Len(s) \in Nat /\ Len(u) = Len(s) + 1 /\ u[Len(s) + 1] = "\n" /\ \A i \in 1..Len(s) : u[i] = s[i]
  BY <1>1
<1> HIDE DEF u
<1>3. PICK n : Kept(s, Blank, n) /\ TrimEnd(s, Blank) = SubSeq(s, 1, n)
  BY <1>1, TrimFacts
<1>4. Kept(u, Blank, n)
  <2>1. n \in 0..Len(s) /\ (n # 0 => s[n] \notin Blank) /\ \A i \in n + 1..Len(s) : s[i] \in Blank
    BY <1>3 DEF Kept
  <2>2. \A i \in n + 1..Len(u) : i = Len(s) + 1 \/ (i \in n + 1..Len(s) /\ i \in 1..Len(s))
    BY <1>2, <2>1
  <2> QED
    BY <1>1, <1>2, <2>1, <2>2 DEF Kept
<1>5. PICK k : Kept(u, Blank, k) /\ TrimEnd(u, Blank) = SubSeq(u, 1, k)
  BY <1>2, TrimFacts
<1>6. k = n /\ n \in 0..Len(s)
  BY <1>2, <1>3, <1>4, <1>5, KeptOnce DEF Kept
<1>7. SubSeq(u, 1, n) = SubSeq(s, 1, n)
  <2>1. /\ SubSeq(u, 1, n) \in Seq(Token) /\ SubSeq(s, 1, n) \in Seq(Token)
        /\ Len(SubSeq(u, 1, n)) = n /\ Len(SubSeq(s, 1, n)) = n
        /\ \A i \in 1..n : SubSeq(u, 1, n)[i] = u[i] /\ SubSeq(s, 1, n)[i] = s[i] /\ u[i] = s[i]
    BY <1>1, <1>2, <1>6
  <2> QED
    BY <2>1, SeqEqual
<1> QED
  BY <1>3, <1>5, <1>6, <1>7 DEF TrimSpace, u

\* A newline at the end of HTML.
LEMMA AddNewline ==
    ASSUME NEW s \in Tokens
    PROVE  /\ Append(s, "\n") \in Tokens
           /\ Untagged(Append(s, "\n")) = Append(Untagged(s), "\n")
           /\ Unclosed(Append(s, "\n")) = Unclosed(s)
           /\ Untagged(s) \in Tokens
           /\ TrimSpace(Untagged(Append(s, "\n"))) = TrimSpace(Untagged(s))
<1>1. "\n" \in Token /\ "\n" \in Words
  BY DEF Token, Words
<1>2. Append(s, "\n") \in Tokens
  BY <1>1 DEF Tokens
<1>3. Untagged(Append(s, "\n")) = Append(Untagged(s), "\n") /\ Untagged(s) \in Tokens
  BY <1>1, UntagAppend, UntagCases
<1>4. Unclosed(Append(s, "\n")) = Unclosed(s)
  BY <1>1, NestAppend, NestCases
<1> QED
  BY <1>2, <1>3, <1>4, TrimNewline

\* Newlines at the end close nothing, and do not show.
LEMMA TrimmedHTML ==
    ASSUME NEW s \in Tokens
    PROVE  /\ TrimEnd(s, {"\n"}) \in Tokens
           /\ Unclosed(TrimEnd(s, {"\n"})) = Unclosed(s)
           /\ TrimSpace(Untagged(TrimEnd(s, {"\n"}))) = TrimSpace(Untagged(s))
<1>1. s \in Seq(Token) /\ Len(s) \in Nat /\ \A i \in 1..Len(s) : s[i] \in Token
  BY DEF Tokens
<1>2. PICK n : Kept(s, {"\n"}, n) /\ TrimEnd(s, {"\n"}) = SubSeq(s, 1, n)
  BY <1>1, TrimFacts
<1>3. n \in 0..Len(s) /\ \A i \in n + 1..Len(s) : s[i] = "\n"
  BY <1>2 DEF Kept
<1> DEFINE u(i) == SubSeq(s, 1, n + i)
           N == Len(s) - n
           Same(i) == /\ u(i) \in Tokens /\ Unclosed(u(i)) = Unclosed(u(0))
                      /\ TrimSpace(Untagged(u(i))) = TrimSpace(Untagged(u(0)))
           A == {i \in 0..N : Same(i)}
<1>4. \A i \in 0..N : u(i) \in Tokens
  BY <1>1, <1>3 DEF Tokens
<1>5. N \in Nat /\ 0 \in A
  BY <1>1, <1>3, <1>4
<1>6. \A i \in 1..N : i - 1 \in A => i \in A
  <2> SUFFICES ASSUME NEW i \in 1..N, Same(i - 1)
               PROVE  Same(i)
    <3> HIDE DEF Same
    <3>1. \A i \in 1..N : i \in 0..N
      BY <1>5
    <3> QED
      BY <3>1
  <2>1. n + i \in n + 1..Len(s) /\ n + i \in 1..Len(s) /\ n + (i - 1) = n + i - 1 /\ 1 \in 1..Len(s)
        /\ i \in 0..N /\ n + i \in 1..Len(s)
    BY <1>1, <1>3
  <2>2. u(i) = Append(u(i - 1), "\n")
    <3>1. s[n + i] = "\n"
      BY <1>3, <2>1
    <3>2. SubSeq(s, 1, n + i) = SubSeq(s, 1, n + i - 1) \o <<s[n + i]>>
      <4>1. \A j \in 1..Len(s) : SubSeq(s, 1, j) = SubSeq(s, 1, j - 1) \o <<s[j]>>
        BY <1>1, SubSeqRecursiveSecond
      <4> QED
        BY <1>1, <1>3, <2>1, <4>1
    <3>3. u(i - 1) \in Seq(Token) /\ s[n + i] \in Token
      BY <1>1, <2>1 DEF Tokens
    <3>4. Append(u(i - 1), s[n + i]) = u(i - 1) \o <<s[n + i]>>
      BY <3>3, AppendIsConcat
    <3> QED
      BY <2>1, <3>1, <3>2, <3>4
  <2>3. u(i - 1) \in Tokens
    OBVIOUS
  <2> HIDE DEF u
  <2> QED
    BY <2>2, <2>3, AddNewline
<1>7. \A i \in 0..N : i \in A
  <2> HIDE DEF A, N
  <2> QED
    BY <1>5, <1>6, UpTo
<1>8. Same(N)
  <2> HIDE DEF Same
  <2>1. N \in 0..N
    BY <1>5
  <2> QED
    BY <1>7, <2>1
<1>9. u(N) = s /\ u(0) = TrimEnd(s, {"\n"})
  <2>1. n + N = Len(s) /\ n + 0 = n
    BY <1>1, <1>3
  <2> QED
    BY <1>1, <1>2, <2>1, SubSeqFull
<1>10. u(0) \in Tokens
  BY <1>4, <1>5
<1> HIDE DEF u, N
<1> QED
  BY <1>8, <1>9, <1>10

\* A text of any number of lines that toHTML does not reject becomes HTML that
\* is well formed, and toMarkdown gives every line back as it was (bm.go:233),
\* but headings of the second kind and items with more white space than one
\* space in front of their text, of which Restored says what comes back.
THEOREM Faithful ==
    ASSUME NEW doc \in Seq(Kind), ~Rejected(doc)
    PROVE  WellNested(ToHTML(doc)) /\ RoundTrip(doc)
<1> DEFINE acc == Converted(doc)
           html == Merged(acc.out \o Closing[acc.mode])
           kept == TrimEnd(html, {"\n"})
           open == Append(kept, "</div>")
           y == AllRestored(doc).text
<1>1. acc \in Acc /\ ~acc.rejected /\ acc.mode \in Mode /\ acc.out \in Tokens /\ y \in Tokens
  BY AllReached DEF Rejected, Acc, TextAcc
<1>2. At(acc.out, y, Blocks[acc.mode])
  BY <1>1, AllReached DEF Reached
<1>3. At(acc.out \o Closing[acc.mode], y, Blocks["none"])
  BY <1>1, <1>2, AtClosing
<1>4. html \in Tokens /\ Untagged(html) = y /\ Unclosed(html) = <<"<div>">>
  BY <1>3, MergePreAppend DEF At, Blocks
<1> HIDE DEF html
<1>5. kept \in Tokens /\ Unclosed(kept) = <<"<div>">> /\ TrimSpace(Untagged(kept)) = TrimSpace(y)
  BY <1>4, TrimmedHTML
<1> HIDE DEF kept
<1>6. "</div>" \in Token /\ "</div>" \in TagList /\ "\n" \in Token /\ "<div>" \in Token
  BY DEF Token, Words, TagList
<1>7. open \in Tokens /\ Untagged(open) = Untagged(kept)
  <2>1. open \in Tokens
    BY <1>5, <1>6 DEF Tokens
  <2>2. Untagged(open) = Untag(Untagged(kept), "</div>") /\ Untag(Untagged(kept), "</div>") = Untagged(kept)
    BY <1>5, <1>6, UntagAppend, UntagCases
  <2> QED
    BY <2>1, <2>2
<1>8. Unclosed(open) = <<>>
  <2>1. Unclosed(open) = Nest(<<"<div>">>, "</div>")
    BY <1>5, <1>6, NestAppend
  <2>2. <<>> \in Tokens /\ Append(<<>>, "<div>") = <<"<div>">> /\ Closes("<div>", "</div>")
    <3>1. <<>> \in Seq(Token) /\ <<"<div>">> \in Seq(Token)
      BY <1>6
    <3> QED
      BY <1>6, <3>1, AppendIsConcat, ConcatEmptySeq, PairFacts DEF Tokens
  <2>3. Nest(Append(<<>>, "<div>"), "</div>") = <<>>
    BY <1>6, <2>2, NestCases
  <2> QED
    BY <2>1, <2>2, <2>3
<1>9. ToHTML(doc) = Append(open, "\n")
  <2>1. ToHTML(doc) = kept \o <<"</div>", "\n">>
    BY DEF ToHTML, kept, html
  <2>2. Then2(kept, "</div>", "\n")
    BY <1>5, <1>6, TwoMore, Zenon
  <2> QED
    BY <2>1, <2>2, Zenon DEF Then2, open
<1> HIDE DEF open
<1>10. Unclosed(ToHTML(doc)) = <<>> /\ TrimSpace(Untagged(ToHTML(doc))) = TrimSpace(y)
  BY <1>5, <1>7, <1>8, <1>9, AddNewline
<1>11. RoundTrip(doc)
  BY <1>10 DEF RoundTrip, ToMarkdown, Normal
<1> QED
  BY <1>10, <1>11 DEF WellNested

\* The lines of an item are lines.
ItemAcc == [item : {"own", "other"}, out : Seq(Kind)]
ItemStart == [item |-> "other", out |-> <<>>]
ItemRead(doc) == Fold(SectionLine, ItemStart, doc)

\* The lines of an item keep their type.
LEMMA SectionLineType ==
    ASSUME NEW acc \in ItemAcc, NEW k \in Kind
    PROVE  SectionLine(acc, k) \in ItemAcc
<1>1. acc.item \in {"own", "other"} /\ acc.out \in Seq(Kind) /\ Append(acc.out, k) \in Seq(Kind)
  BY DEF ItemAcc
<1>2. CASE k \in {"own", "other"}
  BY <1>1, <1>2 DEF SectionLine, ItemAcc
<1>3. CASE k \notin {"own", "other"} /\ acc.item = "own" /\ (acc.out # <<>> \/ k # "empty")
  BY <1>1, <1>3 DEF SectionLine, ItemAcc
<1>4. CASE k \notin {"own", "other"} /\ ~(acc.item = "own" /\ (acc.out # <<>> \/ k # "empty"))
  <2>1. SectionLine(acc, k) = acc
    BY <1>4 DEF SectionLine
  <2> QED
    BY <2>1
<1> QED
  BY <1>2, <1>3, <1>4

\* At first there are none.
LEMMA ItemStartFacts == ItemStart \in ItemAcc
  BY DEF ItemStart, ItemAcc

SectionLineStep == [p \in ItemAcc \X Kind |-> SectionLine(p[1], p[2])]
\* The loop over the lines takes its steps.
LEMMA SectionLineFolds ==
    ASSUME NEW s \in Seq(Kind)
    PROVE  Folds(ItemAcc, ItemStart, SectionLineStep, s, ItemRead(s))
<1> DEFINE Is(f) == f = [i \in 0..Len(s) |-> IF i = 0 THEN ItemStart ELSE SectionLine(f[i - 1], s[i])]
           c == CHOOSE f : Is(f)
<1>1. SectionLineStep \in [ItemAcc \X Kind -> ItemAcc]
  BY SectionLineType DEF SectionLineStep
<1>2. ItemStart \in ItemAcc /\ Len(s) \in Nat /\ \A i \in 1..Len(s) : s[i] \in Kind
  BY ItemStartFacts
<1>3. PICK f \in [0..Len(s) -> ItemAcc] :
        f[0] = ItemStart /\ \A i \in 1..Len(s) : f[i] = SectionLineStep[<<f[i - 1], s[i]>>]
  <2>1. HasFold(ItemAcc, ItemStart, SectionLineStep, s)
    BY <1>1, <1>2, FoldExists, Zenon
  <2> QED
    BY <2>1 DEF HasFold
<1>4. \A i \in 1..Len(s) : f[i] = SectionLine(f[i - 1], s[i])
  <2>1. \A i \in 1..Len(s) : f[i - 1] \in ItemAcc
    BY <1>3
  <2> QED
    BY <1>2, <1>3, <2>1 DEF SectionLineStep
<1>5. Is(f)
  BY <1>2, <1>3, <1>4
<1>6. Is(c)
  <2> HIDE DEF Is
  <2> QED
    BY <1>5
<1>7. Steps(ItemAcc, ItemStart, SectionLineStep, s, c)
  <2> HIDE DEF c
  <2>1. c[0] = ItemStart /\ \A i \in 1..Len(s) : c[i] = SectionLine(c[i - 1], s[i])
    BY <1>2, <1>6
  <2> QED
    BY <1>2, <2>1 DEF Steps, SectionLineStep
<1>8. ItemRead(s) = c[Len(s)]
  BY DEF ItemRead, Fold
<1>9. Folds(ItemAcc, ItemStart, SectionLineStep, s, c[Len(s)])
  <2> HIDE DEF c
  <2> QED
    BY <1>1, <1>2, <1>7, FoldValue, Zenon
<1> QED
  BY <1>8, <1>9

\* And so does what readContent returns.
LEMMA SectionType ==
    ASSUME NEW doc \in Seq(Kind)
    PROVE  Section(doc) \in Seq(Kind)
<1>1. ItemRead(doc) \in ItemAcc
  BY SectionLineFolds, FoldType
<1>2. ItemLines(doc) = ItemRead(doc).out
  BY DEF ItemLines, ItemRead, ItemStart
<1>3. ItemLines(doc) \in Seq(Kind) /\ "empty" \in Kind /\ <<>> \in Seq(Kind)
  BY <1>1, <1>2, KindFacts DEF ItemAcc
<1> QED
  BY <1>3 DEF Section

\* What is served is well formed and gives the text back (bm.go:233) but for the
\* two kinds of lines of Restored, whatever the user writes, with or without -t.
THEOREM ServedFaithfully == Spec => []ServedIsFaithful
<1>1. ASSUME NEW x \in (BOOLEAN \X Texts) \ Fatal
      PROVE  WellNested(ToHTML(ReadContent(x[1], x[2]))) /\ RoundTrip(ReadContent(x[1], x[2]))
  <2>1. x[2] \in Seq(Kind)
    BY PreviewAssumption DEF Texts
  <2>2. ReadContent(x[1], x[2]) \in Seq(Kind)
    BY <2>1, SectionType DEF ReadContent
  <2>3. ~Rejected(ReadContent(x[1], x[2]))
    BY DEF Fatal
  <2> QED
    BY <2>2, <2>3, Faithful
<1>2. Unfaithful = {}
  BY <1>1, Zenon DEF Unfaithful
<1>3. ServedIsFaithful
  BY <1>2 DEF ServedIsFaithful
<1> QED
  BY <1>3, PTL
=============================================================================
