------------------------------ MODULE Pararun ------------------------------
(***************************************************************************)
(* utils/pararun.c: it runs the commands on its stdin in parallel, and     *)
(* prints what they print as if they had run one after the other.  Each    *)
(* command writes into a pipe of its own; the pipes stand in a ring, and   *)
(* only the one at the head of it is read.                                 *)
(*                                                                         *)
(* A chunk is what one write of a command adds to its pipe.  Commands are  *)
(* numbered in the order of the input; a chunk that is in the pipe is one  *)
(* that was said and has not been printed.                                 *)
(***************************************************************************)
EXTENDS Integers, FiniteSets

CONSTANTS
    N,          \* the number of commands on stdin
    Threads,    \* g.threadscount
    Slots,      \* maxthreads, the size of the ring (9999 in the code)
    PipeCap,    \* how many chunks a pipe holds
    Status,     \* the exit statuses of the commands
    MaxSay,     \* bound: how many chunks a command writes
    Faults      \* what may fail: kill (a command), start (pipe2 or fork)

ASSUME SizesAssumption ==
    /\ N \in Nat /\ MaxSay \in Nat
    /\ Slots \in Nat \ {0} /\ Threads \in 1..Slots
    /\ PipeCap \in Nat \ {0}
    /\ Status \subseteq Nat

VARIABLES
    line,       \* how many lines have been read
    eof,        \* feof(stdin)
    pc,         \* where the main loop is
    ready,      \* what poll has returned
    running,    \* g.runningthreads
    current,    \* g.currentthread
    next,       \* g.nextthread
    pipes,      \* g.pipes: the command whose output each slot has
    ret,        \* returncode
    signal,     \* a SIGCHLD is pending
    child,      \* Cmd -> the state of the command
    code,       \* Cmd -> its exit status, or Killed
    said,       \* Cmd -> the number of chunks it has written
    printed,    \* Cmd -> the number of them on stdout
    overrun     \* ghost: the ring was full once

ring    == <<current, next, pipes, overrun>>
output  == <<said, printed>>
process == <<child, code, signal>>
vars    == <<line, eof, pc, ready, running, ret, ring, output, process>>

Cmd    == 0..(N - 1)
Slot   == 0..(Slots - 1)
Killed == -1
Alive  == {"running", "writing"}
Ready  == [signal : BOOLEAN, data : BOOLEAN, hup : BOOLEAN]
Nothing == [signal |-> FALSE, data |-> FALSE, hup |-> FALSE]

-----------------------------------------------------------------------------
(* The commands.  A write into a full pipe waits.                          *)

Want(c) ==
    /\ child[c] = "running"
    /\ said[c] < MaxSay
    /\ child' = [child EXCEPT ![c] = "writing"]
    /\ UNCHANGED <<line, eof, pc, ready, running, ret, ring, output, code, signal>>

Write(c) ==
    /\ child[c] = "writing"
    /\ said[c] - printed[c] < PipeCap
    /\ said' = [said EXCEPT ![c] = @ + 1]
    /\ child' = [child EXCEPT ![c] = "running"]
    /\ UNCHANGED <<line, eof, pc, ready, running, ret, ring, printed, code, signal>>

\* It exits; SIGCHLDs that are not taken yet become one.
Ends(c, s) ==
    /\ child' = [child EXCEPT ![c] = "zombie"]
    /\ code' = [code EXCEPT ![c] = s]
    /\ signal' = TRUE
    /\ UNCHANGED <<line, eof, pc, ready, running, ret, ring, output>>

Exit(c) == child[c] = "running" /\ \E s \in Status : Ends(c, s)

Kill(c) == "kill" \in Faults /\ child[c] \in Alive /\ Ends(c, Killed)

Command(c) == Want(c) \/ Write(c) \/ Exit(c)

-----------------------------------------------------------------------------
(* The main loop.                                                          *)

Idle == pc = "start"

CanStart == Idle /\ ~eof /\ running < Threads

\* Where the loop that starts commands ends: main returns, fails on its last
\* check, or polls.
Poll0(atEOF) ==
    /\ current' = IF current = -1 THEN 0 ELSE current
    /\ pc' = IF running # 0 \/ current' # next THEN "poll"
             ELSE IF atEOF THEN "exit" ELSE "failed"

EndOfInput ==
    /\ CanStart /\ line = N
    /\ eof' = TRUE
    /\ Poll0(TRUE)
    /\ UNCHANGED <<line, ready, running, ret, next, pipes, overrun, output, process>>

EnoughStarted ==
    /\ Idle /\ (eof \/ running >= Threads)
    /\ Poll0(eof)
    /\ UNCHANGED <<line, eof, ready, running, ret, next, pipes, overrun, output, process>>

RingFull == running > 0 /\ next = current

\* The line has been read by the time the loop is left.
LoseLine ==
    /\ CanStart /\ line < N /\ RingFull
    /\ line' = line + 1
    /\ Poll0(eof)
    /\ UNCHANGED <<eof, ready, running, ret, next, pipes, overrun, output, process>>

\* Mutation: as many commands are started as there are lines.
StartUnlimited ==
    /\ Idle /\ ~eof /\ line < N /\ ~RingFull
    /\ line' = line + 1
    /\ pipes' = [pipes EXCEPT ![next] = line]
    /\ child' = [child EXCEPT ![line] = "running"]
    /\ next' = (next + 1) % Slots
    /\ running' = running + 1
    /\ overrun' = (overrun \/ next' = current \/ (current = -1 /\ next' = 0))
    /\ UNCHANGED <<eof, pc, ready, ret, current, output, code, signal>>

Start ==
    /\ CanStart /\ line < N /\ ~RingFull
    /\ line' = line + 1
    /\ pipes' = [pipes EXCEPT ![next] = line]
    /\ child' = [child EXCEPT ![line] = "running"]
    /\ next' = (next + 1) % Slots
    /\ running' = running + 1
    /\ overrun' = (overrun \/ next' = current \/ (current = -1 /\ next' = 0))
    /\ UNCHANGED <<eof, pc, ready, ret, current, output, code, signal>>

\* No descriptor or process is left, or the line is too long: exit(1).
StartFails ==
    /\ "start" \in Faults
    /\ CanStart /\ line < N /\ ~RingFull
    /\ pc' = "failed" /\ ret' = 1
    /\ line' = line + 1
    /\ UNCHANGED <<eof, ready, running, ring, output, process>>

WaitPipe == current # next
Front    == pipes[current]

\* poll returns once a SIGCHLD is pending, or the pipe at the head of the
\* ring has something in it or no one to write into it.
Poll ==
    LET found == [signal |-> signal,
                  data   |-> WaitPipe /\ said[Front] > printed[Front],
                  hup    |-> WaitPipe /\ child[Front] \notin Alive]
    IN  /\ pc = "poll"
        /\ found # Nothing
        /\ ready' = found
        /\ pc' = IF signal THEN "signal" ELSE "drain"
        /\ UNCHANGED <<line, eof, running, ret, ring, output, process>>

TakeSignal ==
    /\ pc = "signal"
    /\ signal' = FALSE
    /\ pc' = "reap"
    /\ UNCHANGED <<line, eof, ready, running, ret, ring, output, child, code>>

\* Mutation: the status of the last command is returned.
NewCodeLast(c) ==
    IF code[c] = Killed THEN 1 ELSE code[c]

NewCode(c) ==
    IF code[c] = Killed THEN (IF ret = 0 THEN 1 ELSE ret)
    ELSE IF code[c] > ret THEN code[c] ELSE ret

Reap(c) ==
    /\ pc = "reap"
    /\ child[c] = "zombie"
    /\ child' = [child EXCEPT ![c] = "reaped"]
    /\ running' = running - 1
    /\ ret' = NewCode(c)
    /\ UNCHANGED <<line, eof, pc, ready, ring, output, code, signal>>

\* Mutation: a SIGCHLD is taken for the end of one command.
AllReapedOnce ==
    /\ pc = "reap" /\ \E c \in Cmd : child[c] = "reaped"
    /\ pc' = "drain"
    /\ UNCHANGED <<line, eof, ready, running, ret, ring, output, process>>

AllReaped ==
    /\ pc = "reap" /\ \A c \in Cmd : child[c] # "zombie"
    /\ pc' = "drain"
    /\ UNCHANGED <<line, eof, ready, running, ret, ring, output, process>>

ReadPipe ==
    /\ pc = "drain" /\ ready.data
    /\ printed' = [printed EXCEPT ![Front] = said[Front]]
    /\ ready' = Nothing
    /\ pc' = "start"
    /\ UNCHANGED <<line, eof, running, ret, ring, said, process>>

\* Mutation: the next pipe's turn comes as soon as there is nothing to read.
ClosePipeEarly ==
    /\ pc = "drain" /\ ~ready.data
    /\ current' = IF WaitPipe THEN (current + 1) % Slots ELSE current
    /\ ready' = Nothing
    /\ pc' = "start"
    /\ UNCHANGED <<line, eof, running, ret, next, pipes, overrun, output, process>>

ClosePipe ==
    /\ pc = "drain" /\ ~ready.data
    /\ current' = IF ready.hup THEN (current + 1) % Slots ELSE current
    /\ ready' = Nothing
    /\ pc' = "start"
    /\ UNCHANGED <<line, eof, running, ret, next, pipes, overrun, output, process>>

Main ==
    \/ EndOfInput \/ EnoughStarted \/ LoseLine \/ Start \/ StartFails
    \/ Poll \/ TakeSignal \/ AllReaped \/ ReadPipe \/ ClosePipe
    \/ \E c \in Cmd : Reap(c)

-----------------------------------------------------------------------------

Init ==
    /\ line = 0 /\ eof = FALSE
    /\ pc = "start" /\ ready = Nothing
    /\ running = 0 /\ ret = 0
    /\ current = -1 /\ next = 0
    /\ pipes = [i \in Slot |-> 0]
    /\ overrun = FALSE
    /\ signal = FALSE
    /\ child = [c \in Cmd |-> "none"]
    /\ code = [c \in Cmd |-> 0]
    /\ said = [c \in Cmd |-> 0] /\ printed = [c \in Cmd |-> 0]

Next == Main \/ \E c \in Cmd : Command(c) \/ Kill(c)

Fairness == WF_vars(Main) /\ \A c \in Cmd : WF_vars(Command(c))

Spec == Init /\ [][Next]_vars /\ Fairness

-----------------------------------------------------------------------------
(* Properties.                                                             *)

\* Every variable keeps its type: no more than -j commands ever run at once.
TypeOK ==
    /\ line \in 0..N /\ eof \in BOOLEAN
    /\ pc \in {"start", "poll", "signal", "reap", "drain", "exit", "failed"}
    /\ ready \in Ready
    /\ running \in 0..Threads
    /\ ret \in Nat
    /\ current \in {-1} \cup Slot /\ next \in Slot
    /\ pipes \in [Slot -> Nat]
    /\ overrun \in BOOLEAN /\ signal \in BOOLEAN
    /\ child \in [Cmd -> {"none", "running", "writing", "zombie", "reaped"}]
    /\ code \in [Cmd -> Status \cup {0, Killed}]
    /\ said \in [Cmd -> Nat] /\ printed \in [Cmd -> Nat]

Over(c) == child[c] \in {"zombie", "reaped"}

\* The output is that of running the commands in sequence: what a command
\* wrote is printed when those before it are over and all of theirs is
\* printed, in whatever order signals, writes and ends come.
InSequence ==
    [][overrun' \/ \A c \in Cmd : printed'[c] > printed[c] =>
            \A b \in Cmd : b < c => Over(b) /\ printed[b] = said[b]]_vars

Worth(c) == IF code[c] = Killed THEN 1 ELSE code[c]

\* When main returns, every command was run and all its output printed, and
\* the code is the maximum among all the runs, however the ends of the
\* commands were spread over the signals.
SaysItAll ==
    pc = "exit" /\ ~overrun =>
        /\ \A c \in Cmd : child[c] = "reaped" /\ printed[c] = said[c] /\ Worth(c) <= ret
        /\ ret = 0 \/ \E c \in Cmd : Worth(c) = ret

\* Main returns if the commands do: no command waits for ever on a pipe that
\* is not being read, and no end of a command goes unnoticed.
Finishes == <>(pc \in {"exit", "failed"} \/ overrun)
=============================================================================
