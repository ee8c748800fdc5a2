-------------------------------- MODULE Tasks --------------------------------
(***************************************************************************)
(* What todo (todotool/todo.go) makes of the lines of its files: dates     *)
(* brought into the calendar, tasks with their blockers, and the titles in *)
(* a mailbox.  A line is a task with its blockers, pairs of a kind and an  *)
(* argument, or a note, with no task; a date is <<year, month, day>>, in   *)
(* range or not, written yyyymmdd or, "dashed", yyyy-mm-dd.                *)
(***************************************************************************)
EXTENDS Integers, Sequences, SequencesExt

CONSTANTS
    Subtask,    \* the names with a dot in them
    NoTask,     \* of a line that is a note
    Today       \* <<year, month, day>>

Leap(y) == y % 4 = 0 /\ (y % 100 # 0 \/ y % 400 = 0)
DaysIn(y, m) == CASE m = 2 -> IF Leap(y) THEN 29 ELSE 28 [] m \in {4, 6, 9, 11} -> 30 [] OTHER -> 31

\* The days of the calendar, and the dates that four and twice two digits
\* write; those of the last years would leave it.
Date    == {d \in Int \X (1..12) \X (1..31) : d[3] <= DaysIn(d[1], d[2])}
Written == (1..9990) \X (0..99) \X (0..99)

ASSUME TasksAssumption == Today \in Date /\ NoTask \notin Subtask

(***************************************************************************)
(* normalizedate: time.Date carries months over to years, then days to     *)
(* months, at most four times for two digits.                              *)
(***************************************************************************)
CarryMonth(d) == <<d[1] + ((d[2] - 1) \div 12), ((d[2] - 1) % 12) + 1, d[3]>>
FromEnd(month, n) == <<month[1], month[2], DaysIn(month[1], month[2]) + n>>
CarryDay(d) ==
    IF d[3] > DaysIn(d[1], d[2]) THEN CarryMonth(<<d[1], d[2] + 1, d[3] - DaysIn(d[1], d[2])>>)
    ELSE IF d[3] < 1 THEN FromEnd(CarryMonth(<<d[1], d[2] - 1, 1>>), d[3])
    ELSE d

NormalizeNot(d) == d
NormalizeZeroBased(d) == CarryDay(CarryDay(CarryDay(CarryDay(CarryMonth(<<d[1], d[2] + 1, d[3]>>)))))
NormalizeDate(d) == CarryDay(CarryDay(CarryDay(CarryDay(CarryMonth(d)))))

\* The comparison of strings: digits in front count more.
AtMost(d, e) ==
    \/ d = e
    \/ \E i \in 1..3 : d[i] < e[i] /\ \A j \in 1..i - 1 : d[j] = e[j]

\* Sscanf reads a dash as a sign: the month is minus its first digit, the day
\* its second one.
ScanDashed(d) == <<d[1], 0 - (d[2] \div 10), d[2] % 10>>

NormalizeBlocker(b) ==
    CASE b[1] = "date"   -> <<"date", NormalizeDate(b[2])>>
      [] b[1] = "dashed" -> <<"date", NormalizeDate(ScanDashed(b[2]))>>
      [] OTHER           -> b
Normalize(line) == [line EXCEPT !.blockers = [i \in DOMAIN @ |-> NormalizeBlocker(@[i])]]

(***************************************************************************)
(* Readiness.  tasks are the lines of all files, each with the file it is  *)
(* in, in their order.  ready is the map taskready of the code.            *)
(***************************************************************************)
Urgent(lines) == \E i \in DOMAIN lines : \E j \in DOMAIN lines[i].blockers : lines[i].blockers[j][1] = "urgent"

\* Before the loop: the tasks without a dot; ready in todo, by the last of
\* several lines with the same name.
Ready0(tasks) ==
    [t \in {tasks[i].task : i \in DOMAIN tasks} \ Subtask |->
        \E i \in DOMAIN tasks :
            /\ tasks[i].task = t /\ tasks[i].file = "todo"
            /\ \A j \in DOMAIN tasks : tasks[j].task = t => j <= i]

SetReady(ready, t, b) == [u \in DOMAIN ready \cup {t} |-> IF u = t THEN b ELSE ready[u]]

HoldsIfReady(ready, blocker) ==
    \/ blocker[1] = "date" /\ ~AtMost(blocker[2], Today)
    \/ blocker[1] = "task" /\ blocker[2] \in DOMAIN ready /\ ready[blocker[2]]
Holds(ready, blocker) ==
    \/ blocker[1] = "date" /\ ~AtMost(blocker[2], Today)
    \/ blocker[1] = "task" /\ blocker[2] \in DOMAIN ready

\* acc is what has been found of the lines before l.
OnBacklog(l)     == \E b \in Range(l.blockers) : b[1] = "backlog"
Free(acc, l)     == \A b \in Range(l.blockers) : ~Holds(acc.ready, b)
ReadyNow(acc, l) == Free(acc, l) /\ ~(OnBacklog(l) /\ acc.backlog)
SetNow(acc, l)   == IF l.blockers = <<>> THEN acc.ready ELSE SetReady(acc.ready, l.task, ReadyNow(acc, l))
Shown(ready, t)  == t \in DOMAIN ready /\ ready[t]
Consider(acc, l) ==
    [ready   |-> SetNow(acc, l),
     backlog |-> acc.backlog \/ (Free(acc, l) /\ OnBacklog(l)),
     active  |-> IF Shown(SetNow(acc, l), l.task) THEN Append(acc.active, l.task) ELSE acc.active]

ActiveTasks(tasks) ==
    LET after[i \in 0..Len(tasks)] ==
          IF i = 0 THEN [ready |-> Ready0(tasks), backlog |-> FALSE, active |-> <<>>]
          ELSE Consider(after[i - 1], tasks[i])
    IN  after[Len(tasks)].active

(***************************************************************************)
(* Which tasks are due, without the map: a task with blockers, when none of *)
(* its days is to come, none of the names it waits for is there and, if it *)
(* is on the backlog, none before it that is clear is too; one without,    *)
(* when it is in todo and no subtask.  A subtask is there to wait for only *)
(* when it has blockers itself and stands before the line that waits.      *)
(***************************************************************************)
Present(tasks, i) ==
    ({tasks[j].task : j \in DOMAIN tasks} \ Subtask)
    \cup {tasks[j].task : j \in {k \in 1..i - 1 : tasks[k].blockers # <<>>}}
Clear(tasks, i) ==
    \A b \in Range(tasks[i].blockers) :
        /\ b[1] = "date" => AtMost(b[2], Today)
        /\ b[1] = "task" => b[2] \notin Present(tasks, i)
Due(tasks, i) ==
    IF tasks[i].blockers = <<>> THEN tasks[i].file = "todo" /\ tasks[i].task \notin Subtask
    ELSE /\ Clear(tasks, i)
         /\ OnBacklog(tasks[i]) => \A j \in 1..i - 1 : ~(OnBacklog(tasks[j]) /\ Clear(tasks, j))
DueTasks(tasks) ==
    LET upto[i \in 0..Len(tasks)] ==
          IF i = 0 THEN <<>>
          ELSE IF Due(tasks, i) THEN Append(upto[i - 1], tasks[i].task) ELSE upto[i - 1]
    IN  upto[Len(tasks)]

(***************************************************************************)
(* A mailbox is a sequence of messages, each a title ("" for no Subject)   *)
(* and whether it has been seen.  The flag is cleared only when a title    *)
(* has been recorded.                                                      *)
(***************************************************************************)
RecordLast(acc, m) == [seen |-> FALSE, titles |-> [t \in DOMAIN acc.titles \cup {m.title} |-> IF t = m.title THEN m.seen ELSE acc.titles[t]]]
Seen(acc, m) == acc.seen \/ m.seen
Record(acc, m) ==
    IF m.title = "" THEN [acc EXCEPT !.seen = Seen(acc, m)]
    ELSE [seen   |-> FALSE,
          titles |-> [t \in DOMAIN acc.titles \cup {m.title} |->
                        IF t # m.title THEN acc.titles[t]
                        ELSE Seen(acc, m) /\ (t \in DOMAIN acc.titles => acc.titles[t])]]
Titles(box) ==
    LET after[i \in 0..Len(box)] ==
          IF i = 0 THEN [seen |-> FALSE, titles |-> [t \in {} |-> FALSE]] ELSE Record(after[i - 1], box[i])
    IN  after[Len(box)].titles
=============================================================================
