--------------------------------- MODULE Todo ---------------------------------
(***************************************************************************)
(* A run of todo (todotool/todo.go): it reads and rewrites the user's      *)
(* files, prints what is ready, and then waits for what it has asked of    *)
(* the network at once: the blog, each mailbox and the router.             *)
(***************************************************************************)
EXTENDS Tasks

CONSTANTS
    Files,       \* the sequence of the files, "rems" first
    FirstLines,  \* what each file may hold at first
    Edits,       \* what the user saves later
    TaskLists,   \* the lists of tasks that readiness is checked on
    Dates,       \* the dates that normalizing is checked on
    Mailboxes,   \* the mailboxes that the report of an account is checked on
    Account,     \* the sequence of mail accounts
    MaxEdits

Blocker == ({"date", "dashed"} \X Written) \cup ({"task", "urgent", "backlog"} \X STRING)
Line    == [task : STRING \cup {NoTask}, blockers : Seq(Blocker)]
Task    == [task : STRING, blockers : Seq(Blocker), file : STRING]
Message == [title : STRING, seen : BOOLEAN]

ASSUME TodoAssumption ==
    /\ Files \in Seq(STRING) /\ Files # <<>> /\ Files[1] = "rems"
    /\ Account \in Seq(Range(Account)) /\ MaxEdits \in Nat
    /\ FirstLines \subseteq Seq(Line) /\ Edits \subseteq Seq(Line)
    /\ TaskLists \subseteq Seq(Task) /\ Mailboxes \subseteq Seq(Message) /\ Dates \subseteq Written

VARIABLES
    disk,      \* file -> its lines
    pc,        \* of Run: "idle", "old", "new", "write", "writing", "print",
               \* "config", "router", "blog", "mail", "done", "dead" or "panic"
    at,        \* the file it is at, then the account it waits for
    old, new,  \* the file as first read, and the text to replace it with
    interrupted, \* SIGINT has come and cancelled the context
    blog,      \* the goroutine for the blog: "off", "asks", "sent", "taken"
    mail,      \* account -> its goroutine: "off", "dials", "reads", "sends", "done"
    user,      \* ghost: file -> what the user saved last
    lost,      \* ghost: the files saved between reading and rewriting, or cut off
    clean,     \* ghost: the files gone through since the user saved them
    edits

vars == <<disk, pc, at, old, new, interrupted, blog, mail, user, lost, clean, edits>>
fileVars == <<disk, old, new, user, lost, clean, edits>>
netVars == <<interrupted, blog, mail>>

File == Range(Files)
F == Files[at]
Lines(s) == [i \in DOMAIN s |-> Normalize(s[i])]

TypeOK ==
    /\ DOMAIN disk = File /\ at \in 1..Len(Files) + Len(Account)
    /\ pc \in {"idle", "old", "new", "write", "writing", "print", "config", "router", "blog", "mail", "done", "dead", "panic"}
    /\ pc \in {"blog", "mail"} => blog # "off"
    /\ \A a \in Range(Account) : mail[a] = "done" => pc \in {"mail", "done", "dead"}

NotRunning == [a \in Range(Account) |-> "off"]

Init ==
    /\ disk \in [File -> FirstLines] /\ user = disk
    /\ pc = "idle" /\ at = 1 /\ old = <<>> /\ new = <<>>
    /\ interrupted = FALSE /\ blog = "off" /\ mail = NotRunning
    /\ lost = {} /\ clean = {} /\ edits = 0

(***************************************************************************)
(* The user.                                                               *)
(***************************************************************************)
HasRead(f) == at <= Len(Files) /\ f = F /\ (pc \in {"write", "writing"} \/ (pc = "new" /\ f = "rems"))
Edit ==
    /\ edits < MaxEdits /\ edits' = edits + 1
    /\ \E f \in File, c \in Edits :
         /\ disk' = [disk EXCEPT ![f] = c]
         /\ user' = [user EXCEPT ![f] = c]
         /\ clean' = clean \ {f}
         /\ lost' = IF HasRead(f) THEN lost \cup {f} ELSE lost \ {f}
    /\ UNCHANGED <<pc, at, old, new, netVars>>

Interrupt ==
    /\ pc \notin {"idle", "done", "dead", "panic"} /\ ~interrupted
    /\ interrupted' = TRUE
    /\ UNCHANGED <<fileVars, pc, at, blog, mail>>

Start ==
    /\ pc = "idle"
    /\ pc' = "old"
    /\ UNCHANGED <<fileVars, at, netVars>>

\* The terminal is closed, or the machine goes down.
Kill ==
    /\ pc \notin {"idle", "done", "dead", "panic"}
    /\ lost' = IF pc = "writing" THEN lost \cup {F} ELSE lost
    /\ pc' = "dead"
    /\ UNCHANGED <<disk, at, old, new, netVars, user, clean, edits>>

\* The process is gone, and what it had in memory with it.
Exit ==
    /\ pc \in {"done", "dead", "panic"}
    /\ pc' = "idle" /\ at' = 1 /\ old' = <<>> /\ new' = <<>>
    /\ interrupted' = FALSE /\ blog' = "off" /\ mail' = NotRunning
    /\ UNCHANGED <<disk, user, lost, clean, edits>>

(***************************************************************************)
(* The files.  .rems is read once, the others twice: what is compared is   *)
(* not what is rewritten.                                                  *)
(***************************************************************************)
ReadOld ==
    /\ pc = "old"
    /\ old' = disk[F]
    /\ pc' = "new"
    /\ UNCHANGED <<disk, at, new, netVars, user, lost, clean, edits>>

NextFile ==
    /\ IF at < Len(Files) THEN pc' = "old" /\ at' = at + 1 ELSE pc' = "print" /\ at' = 1
    /\ old' = <<>> /\ new' = <<>>

NewTextTasks(text) == SelectSeq(Lines(text), LAMBDA l : l.task # NoTask)
NewText(text) == Lines(text)

ReadNew ==
    /\ pc = "new"
    /\ LET text == IF F = "rems" THEN old ELSE disk[F] IN
         IF F # "rems" /\ Urgent(text)
         THEN pc' = "done" /\ UNCHANGED <<at, old, new, clean>>
         ELSE IF NewText(text) # old
         THEN /\ pc' = "write" /\ new' = NewText(text)
              /\ UNCHANGED <<at, old, clean>>
         ELSE /\ NextFile
              /\ clean' = IF disk[F] = old THEN clean \cup {F} ELSE clean
    /\ UNCHANGED <<disk, netVars, user, lost, edits>>

\* os.WriteFile empties the file before it writes it.
Truncate ==
    /\ pc = "write"
    /\ disk' = [disk EXCEPT ![F] = <<>>]
    /\ pc' = "writing"
    /\ UNCHANGED <<at, old, new, netVars, user, lost, clean, edits>>

WriteFile ==
    /\ pc = "writing"
    /\ disk' = [disk EXCEPT ![F] = new]
    /\ clean' = IF F \in lost THEN clean ELSE clean \cup {F}
    /\ NextFile
    /\ UNCHANGED <<netVars, user, lost, edits>>

(***************************************************************************)
(* The network.                                                            *)
(***************************************************************************)
Report ==
    /\ pc = "print"
    /\ pc' = "config" /\ blog' = "asks"
    /\ UNCHANGED <<fileVars, at, interrupted, mail>>

\* One goroutine for each account; a line that is no account, or no list of
\* accounts, ends the run.
Config ==
    /\ pc = "config"
    /\ \/ pc' = "router" /\ mail' = [a \in Range(Account) |-> "dials"]
       \/ pc' = "dead" /\ UNCHANGED mail
    /\ UNCHANGED <<fileVars, at, interrupted, blog>>

\* The router's list of hosts, an error, or nothing for ever.
Router ==
    /\ pc = "router"
    /\ pc' = "blog"
    /\ UNCHANGED <<fileVars, at, netVars>>

Running == pc \in {"config", "router", "blog", "mail"}

BlogOnlyNews == Running /\ blog = "asks" /\ blog' \in {"asks", "sent"} /\ UNCHANGED <<fileVars, pc, at, interrupted, mail>>

\* An answer, an error or nothing within five seconds or until the context is
\* cancelled; the channel has a slot, so that sending is not waiting.  A
\* body of one line is sliced past its end.
Blog ==
    /\ Running /\ blog = "asks"
    /\ \/ blog' = "sent" /\ pc' = pc
       \/ blog' = blog /\ pc' = "panic"
    /\ UNCHANGED <<fileVars, at, interrupted, mail>>

\* tls.Dial does not know of the context, and may never return.
Dial(a) ==
    /\ Running /\ mail[a] = "dials"
    /\ \E s \in {"reads", "sends"} : mail' = [mail EXCEPT ![a] = s]
    /\ UNCHANGED <<fileVars, pc, at, interrupted, blog>>

\* The reply has come to its end, or reading has failed.
Reply(a) ==
    /\ Running /\ mail[a] = "reads"
    /\ mail' = [mail EXCEPT ![a] = "sends"]
    /\ UNCHANGED <<fileVars, pc, at, interrupted, blog>>

NoDeadline(a) == FALSE /\ UNCHANGED vars

\* The other goroutine of the account sets a deadline in the past.
Deadline(a) ==
    /\ interrupted
    /\ Reply(a)

TakeBlog ==
    /\ pc = "blog" /\ blog = "sent"
    /\ blog' = "taken" /\ pc' = "mail" /\ at' = 1
    /\ UNCHANGED <<fileVars, interrupted, mail>>

TakeMail ==
    /\ pc = "mail"
    /\ IF at > Len(Account)
       THEN pc' = "done" /\ UNCHANGED <<at, mail>>
       ELSE /\ mail[Account[at]] = "sends"
            /\ mail' = [mail EXCEPT ![Account[at]] = "done"]
            /\ at' = at + 1 /\ pc' = pc
    /\ UNCHANGED <<fileVars, interrupted, blog>>

Main == ReadOld \/ ReadNew \/ Truncate \/ WriteFile \/ Report \/ Config \/ TakeBlog \/ TakeMail

Next ==
    \/ Edit \/ Interrupt \/ Start \/ Kill \/ Exit
    \/ Main \/ Router \/ Blog \/ \E a \in Range(Account) : Dial(a) \/ Reply(a) \/ Deadline(a)

\* The program runs, the blog has five seconds, and reading fails once the
\* deadline is past.  A mailbox, a dial or the router may be silent for ever.
Fairness == WF_vars(Main) /\ WF_vars(Blog) /\ \A a \in Range(Account) : WF_vars(Deadline(a))

Spec == Init /\ [][Next]_vars /\ Fairness

-----------------------------------------------------------------------------
(***************************************************************************)
(* Properties.                                                             *)
(***************************************************************************)
\* What the user wrote is in the files, with its dates brought in order and
\* nothing else changed, whatever is rewritten and whenever a run ends
\* (todo.go:212-217 and 261-267).  Two gaps are left: a file saved between the
\* read and the rewrite, and a run cut off in the middle of a rewrite.
NothingLost ==
    TypeOK /\ \A f \in File :
        f \notin lost /\ ~(pc = "writing" /\ f = F) => disk[f] = user[f] \/ Lines(disk[f]) = Lines(user[f])

\* A file that a run has gone through is not rewritten again until the user
\* saves it: normalizing is idempotent, and what is compared is what was there
\* ("does the right thing" of lines 215 and 265).
RewrittenOnce ==
    [][pc = "write" /\ pc' = "writing" => F \notin clean]_vars

\* Which tasks are shown (todo.go:279-313): exactly those that are due, which
\* depends on the order of the lines only for the backlog and for subtasks.  A
\* task waits while #name is there, and while one before it holds the backlog;
\* usage has both the other way round, "task is blocked until #name exists" and
\* "until there's another backlog item" (todo.go:37 and 39).  This is of lists
\* where no name is repeated, which the code reports (line 255).
WrongLists ==
    {l \in TaskLists :
        IsInjective([i \in DOMAIN l |-> l[i].task]) /\ ActiveTasks(l) # DueTasks(l)}
ReadyIffClear == pc = "print" => WrongLists = {}

\* A title is shown as unread when, and only when, one of its messages is
\* (todo.go:427-433), where no message without a subject has been read: its
\* flag would go to the one after it.
Misread ==
    {box \in Mailboxes :
        /\ \A j \in DOMAIN box : box[j].title = "" => ~box[j].seen
        /\ \E i \in DOMAIN box :
              /\ box[i].title # ""
              /\ Titles(box)[box[i].title] # (\A j \in DOMAIN box : box[j].title = box[i].title => box[j].seen)}
UnreadIsShown == pc = "mail" => Misread = {}

\* Dates are compared as strings (todo.go:208 and 289): once normalized, their
\* order is that of the days, counted from the start of the calendar.
DaysBefore(y, m) == <<0, 31, 59, 90, 120, 151, 181, 212, 243, 273, 304, 334>>[m] + (IF m > 2 /\ Leap(y) THEN 1 ELSE 0)
YearStart(y) == 365 * (y - 1) + ((y - 1) \div 4) - ((y - 1) \div 100) + ((y - 1) \div 400)
DayNumber(d) == YearStart(CarryMonth(d)[1]) + DaysBefore(CarryMonth(d)[1], CarryMonth(d)[2]) + d[3]
Misdated == {d \in Dates : AtMost(NormalizeDate(d), Today) # (DayNumber(d) <= DayNumber(Today))}
DueOnItsDay == pc = "print" => Misdated = {}

\* "b:YYYY-MM-DD.HH:MM:SS: blocks on date" (todo.go:36): a day to come that the
\* user has written so still blocks when the tasks are printed.
DashedBlocks ==
    pc = "print" =>
        \A f \in File \ lost : \A i \in DOMAIN user[f] : \A j \in DOMAIN user[f][i].blockers :
            LET b == user[f][i].blockers[j] IN
            b[1] = "dashed" /\ ~AtMost(b[2], Today) => Holds([t \in {} |-> TRUE], Normalize(disk[f][i]).blockers[j])

\* ^C ends a run that waits for mailboxes (todo.go:399-402), whatever else it
\* has to wait for, unless the router or a dial never comes back: neither has a
\* timeout or sees the context (393, 487), and NotifyContext (ybb.go:68) has
\* taken from the signal that it ends the program.
Returns == []<>(pc # "router") /\ \A a \in Range(Account) : []<>(mail[a] # "dials")
InterruptEnds == Returns => ((interrupted /\ Running) ~> ~Running)
=============================================================================
