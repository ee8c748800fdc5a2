------------------------------- MODULE Preview -------------------------------
(***************************************************************************)
(* bm as a server (utils/bm.go:138-192 and 304-374): one goroutine polls   *)
(* the file and takes requests from a queue; each browser shows what it    *)
(* got, and asks for what is newer than the time it was given with it.     *)
(***************************************************************************)
EXTENDS Markdown, FiniteSets

CONSTANTS
    Browser,
    FirstDocs,    \* what the file may hold when bm starts
    Docs,         \* what the user writes later
    Cap,          \* cap(waitingRequests), 100 in the code
    QueueCap,     \* the slots of the work queue, 100 in the code
    MaxTime,      \* bound on modification times
    MaxVersion    \* bound on the user's writes

ASSUME PreviewAssumption ==
    /\ IsFiniteSet(Browser)
    /\ Cap \in Nat \ {0} /\ QueueCap \in Nat \ {0} /\ MaxTime \in Nat \ {0}
    /\ FirstDocs \subseteq Seq(Kind) /\ Docs \subseteq Seq(Kind)

VARIABLES
    tFlag,      \* whether one item of the file is asked for (-t)
    file,       \* the file: its text, modification time and version, and whether it is there
    lastMod,    \* modification time at the last change seen, 0 at first
    content,    \* the version of the file whose HTML is served, 0 for none
    pc,         \* the serving loop: "stat", "read", "select", "dead"
    wq,         \* the requests queued, each a browser and its ts
    waiting,    \* the requests held: slot -> request
    browser,    \* browser -> "idle", "asked", "dead" (its script has ended), "closed",
                \* "vanished" (gone, and its connection not known to be closed)
    ts,         \* browser -> the time it was given last, 0 for none
    shown,      \* browser -> the version of the text it shows, 0 for none
    merged,     \* ghost: a write bore the time of the one before
    backwards   \* ghost: a write bore an earlier time

vars == <<tFlag, file, lastMod, content, pc, wq, waiting, browser, ts, shown, merged, backwards>>
server == <<lastMod, content, pc, wq, waiting>>
browsers == <<browser, ts, shown>>
ghosts == <<merged, backwards>>

\* What readContent makes of a text: all of it, or the lines of the item asked
\* for, without the empty ones in front.
ReadContent(t, doc) == IF t THEN Section(doc) ELSE doc

\* The texts that end the server: the item is not there (bm.go:219-221), or
\* toHTML rejects a heading.  (A set, for TLC computes it only once.)
Texts == FirstDocs \cup Docs
Fatal == {x \in BOOLEAN \X Texts : (x[1] /\ Section(x[2]) = <<>>) \/ Rejected(ReadContent(x[1], x[2]))}

TypeOK ==
    /\ lastMod \in 0..MaxTime /\ file.time \in 1..MaxTime
    /\ pc \in {"stat", "read", "select", "dead"}
    /\ Len(wq) <= QueueCap /\ Len(waiting) <= Cap
    /\ browser \in [Browser -> {"idle", "asked", "dead", "closed", "vanished"}]
    /\ ts \in [Browser -> 0..MaxTime]

Init ==
    /\ tFlag \in BOOLEAN
    /\ file \in [doc : FirstDocs, time : {1}, version : {1}, here : {TRUE}]
    /\ lastMod = 0 /\ content = 0
    /\ pc = "stat" /\ wq = <<>> /\ waiting = <<>>
    /\ browser = [b \in Browser |-> "idle"] /\ ts = [b \in Browser |-> 0]
    /\ shown = [b \in Browser |-> 0]
    /\ merged = FALSE /\ backwards = FALSE

(***************************************************************************)
(* The user saves the file, with a later time, the same one when the clock *)
(* of the file system is coarse, or an earlier one (a copy restored).      *)
(***************************************************************************)
Write ==
    /\ file.version < MaxVersion
    /\ \E d \in Docs, t \in 1..MaxTime :
         /\ file' = [doc |-> d, time |-> t, version |-> file.version + 1, here |-> TRUE]
         /\ merged' = (merged \/ t = file.time)
         /\ backwards' = (backwards \/ t < file.time)
    /\ UNCHANGED <<tFlag, server, browsers>>

\* An editor that removes the file before it writes it anew.
Unlink ==
    /\ file.here /\ file.version < MaxVersion
    /\ file' = [file EXCEPT !.here = FALSE]
    /\ UNCHANGED <<tFlag, server, browsers, ghosts>>

(***************************************************************************)
(* Answers.  A browser that is answered takes the time and the text; one   *)
(* whose answer has no time in front ends its script.                      *)
(***************************************************************************)
AnsweredNow(reqs) ==
    /\ browser' = [b \in Browser |-> IF b \in reqs /\ browser[b] = "asked" THEN "idle" ELSE browser[b]]
    /\ ts' = [b \in Browser |-> IF b \in reqs /\ browser[b] = "asked" THEN file.time ELSE ts[b]]
    /\ shown' = [b \in Browser |-> IF b \in reqs /\ browser[b] = "asked" THEN content' ELSE shown[b]]

Answered(reqs) ==
    /\ browser' = [b \in Browser |-> IF b \in reqs /\ browser[b] = "asked" THEN "idle" ELSE browser[b]]
    /\ ts' = [b \in Browser |-> IF b \in reqs /\ browser[b] = "asked" THEN lastMod' ELSE ts[b]]
    /\ shown' = [b \in Browser |-> IF b \in reqs /\ browser[b] = "asked" THEN content' ELSE shown[b]]

Refused(b) ==
    /\ browser' = [browser EXCEPT ![b] = IF @ = "asked" THEN "dead" ELSE @]
    /\ UNCHANGED <<ts, shown>>

(***************************************************************************)
(* The serving loop.  log.Fatal ends the program: what it held is gone, and *)
(* the scripts that wait for an answer end, for fetch rejects.             *)
(***************************************************************************)
LogFatal ==
    /\ pc' = "dead" /\ wq' = <<>> /\ waiting' = <<>>
    /\ browser' = [b \in Browser |-> IF browser[b] = "asked" THEN "dead" ELSE browser[b]]
    /\ UNCHANGED <<lastMod, content, ts, shown>>

Stat ==
    /\ pc = "stat"
    /\ UNCHANGED <<tFlag, file, ghosts>>
    /\ \/ ~file.here /\ LogFatal
       \/ /\ file.here
          /\ lastMod' = file.time
          /\ pc' = IF file.time # lastMod THEN "read" ELSE "select"
          /\ UNCHANGED <<content, wq, waiting, browsers>>

ReadAnswersNoOne ==
    /\ pc = "read" /\ file.here /\ <<tFlag, file.doc>> \notin Fatal
    /\ content' = file.version /\ pc' = "select"
    /\ UNCHANGED <<tFlag, file, lastMod, wq, waiting, browsers, ghosts>>

\* readContent, toHTML and the answers to all that wait.
Read ==
    /\ pc = "read"
    /\ UNCHANGED <<tFlag, file, ghosts>>
    /\ \/ (~file.here \/ <<tFlag, file.doc>> \in Fatal) /\ LogFatal
       \/ /\ file.here /\ <<tFlag, file.doc>> \notin Fatal
          /\ content' = file.version /\ UNCHANGED <<lastMod, wq>>
          /\ Answered({waiting[i].b : i \in DOMAIN waiting})
          /\ waiting' = <<>> /\ pc' = "select"

Timer ==
    /\ pc = "select"
    /\ pc' = "stat"
    /\ UNCHANGED <<tFlag, file, lastMod, content, wq, waiting, browsers, ghosts>>

\* The context of a request ends when its connection is known to be closed.
AnyOne(r) == TRUE
Gone(r) == browser[r.b] = "closed"

\* The slot of the first held request whose browser is gone, 0 for none.
NoStaleConn == 0
StaleConn == SelectInSeq(waiting, Gone)

Full == Len(waiting) = Cap

Serve ==
    /\ pc = "select" /\ wq # <<>>
    /\ wq' = Tail(wq)
    /\ pc' = "stat"
    /\ LET r == Head(wq) IN
       \/ /\ lastMod > r.ts
          /\ UNCHANGED <<lastMod, content, waiting>> /\ Answered({r.b})
       \/ /\ lastMod = r.ts /\ ~Full
          /\ waiting' = Append(waiting, r)
          /\ UNCHANGED <<lastMod, content, browsers>>
       \/ /\ lastMod = r.ts /\ Full /\ StaleConn # 0
          /\ waiting' = [waiting EXCEPT ![StaleConn] = r]
          /\ UNCHANGED <<lastMod, content, browsers>>
       \/ /\ \/ lastMod < r.ts
             \/ lastMod = r.ts /\ Full /\ StaleConn = 0
          /\ UNCHANGED <<lastMod, content, waiting>> /\ Refused(r.b)
    /\ UNCHANGED <<tFlag, file, ghosts>>

(***************************************************************************)
(* The browsers.  handleContent blocks while the queue is full.            *)
(***************************************************************************)
Ask(b) ==
    /\ browser[b] = "idle" /\ pc # "dead"
    /\ Len(wq) < QueueCap
    /\ wq' = Append(wq, [b |-> b, ts |-> ts[b]])
    /\ browser' = [browser EXCEPT ![b] = "asked"]
    /\ UNCHANGED <<tFlag, file, lastMod, content, pc, waiting, ts, shown, ghosts>>

\* fetch rejects when there is no server, and the script ends.
FetchFails(b) ==
    /\ browser[b] = "idle" /\ pc = "dead"
    /\ browser' = [browser EXCEPT ![b] = "dead"]
    /\ UNCHANGED <<tFlag, file, server, ts, shown, ghosts>>

\* A browser closes its connection, or vanishes without (a machine that sleeps,
\* a network that is gone), which the server may find out later.
Close(b) ==
    /\ \/ browser[b] \in {"idle", "asked"} /\ browser' \in {[browser EXCEPT ![b] = s] : s \in {"closed", "vanished"}}
       \/ browser[b] = "vanished" /\ browser' = [browser EXCEPT ![b] = "closed"]
    /\ UNCHANGED <<tFlag, file, server, ts, shown, ghosts>>

Serving == Stat \/ Read \/ Timer \/ Serve
Next == Write \/ Unlink \/ Serving \/ \E b \in Browser : Ask(b) \/ FetchFails(b) \/ Close(b)

\* Go runs the loop, and select takes a request in the end when there are
\* always some (the timer does not win for ever); browsers ask again.
Fairness == WF_vars(Serving) /\ SF_vars(Serve) /\ \A b \in Browser : WF_vars(Ask(b))

Spec == Init /\ [][Next]_vars /\ Fairness

-----------------------------------------------------------------------------
(***************************************************************************)
(* Properties.                                                             *)
(***************************************************************************)
\* A browser whose ts is the time of the file shows the file as it is, so that
\* it may wait (bm.go:347): text read after its time was taken is never older.
\* The exceptions are writes that the time does not tell apart, or that turn it
\* back to one already given.
WaitsForNews ==
    \A b \in Browser : ts[b] = file.time /\ ~merged /\ ~backwards => shown[b] = file.version

\* Browsers that take places or may want one: those that are open, and those
\* that have vanished while they were held.
Taking == {b \in Browser :
    \/ browser[b] \in {"idle", "asked"}
    \/ browser[b] = "vanished" /\ \E i \in DOMAIN waiting : waiting[i].b = b}

\* While the network works, the script of a browser ends (bm.go:166-172) only
\* when the server has ended, when the time of the file has gone back, or when
\* there are more browsers than can be held: those that have closed their
\* connection take no place from it.
DiesOnlyIf ==
    [][\A b \in Browser : browser[b] # "dead" /\ browser'[b] = "dead" =>
           pc' = "dead" \/ backwards \/ Cardinality(Taking) > Cap]_vars

\* No browser that is open is forgotten: one that has asked is in the queue
\* or held, once, and there are as many places as the array has (bm.go:347).
Asks(b) == Cardinality({i \in DOMAIN wq : wq[i].b = b}) + Cardinality({i \in DOMAIN waiting : waiting[i].b = b})
HeldOnce == TypeOK /\ \A b \in Browser : (browser[b] = "asked" => Asks(b) = 1) /\ (browser[b] = "idle" => Asks(b) = 0)

\* What is served is well formed, and -r gives the text back ("restore the html
\* back to the original text", bm.go:233), but for the two kinds of lines that
\* Restored names.
Unfaithful ==
    {x \in (BOOLEAN \X Texts) \ Fatal : LET read == ReadContent(x[1], x[2]) IN
        ~WellNested(ToHTML(read)) \/ ~RoundTrip(read)}

ServedIsFaithful ==
    content = file.version => <<tFlag, file.doc>> \notin Unfaithful

\* When the user stops writing, every browser that is still there comes to
\* show the file.
CatchesUp ==
    \A b \in Browser :
        <>[](browser[b] \in {"idle", "asked"} /\ pc # "dead" /\ ~merged /\ ~backwards
                => shown[b] = file.version)
=============================================================================
