---------------------------- MODULE PararunProofs ----------------------------
(***************************************************************************)
(* Proofs about Pararun, for any number of commands, threads and slots of  *)
(* the ring, any size of the pipes and any faults: its invariants, and     *)
(* that the output is in sequence.  The inductive invariant counts the     *)
(* commands that are not reaped, and says which are in the ring: those     *)
(* from the one being printed to the last one started.                     *)
(***************************************************************************)
EXTENDS Pararun, FiniteSetTheorems, TLAPS

Unreaped == {c \in Cmd : child[c] \in Alive \cup {"zombie"}}

Counted ==
    /\ running = Cardinality(Unreaped)
    /\ \A c \in Cmd : c >= line => child[c] = "none"
    /\ \A c \in Cmd : printed[c] <= said[c]

\* Where the loop is, and what it knows there.  What poll has found at the head
\* of the ring stays true, and who has ended by then is reaped before the pipe
\* is closed.
LoopOK ==
    /\ eof => line = N
    /\ pc \notin {"start", "failed"} => current \in Slot
    /\ pc = "exit" => eof /\ current = next
    /\ pc \in {"start", "poll"} => ready = Nothing
    /\ (\E c \in Cmd : child[c] = "zombie") => signal \/ pc = "reap"
    /\ ready.data \/ ready.hup => WaitPipe
    /\ ready.hup /\ Front \in Cmd =>
         /\ child[Front] \notin Alive
         /\ pc = "drain" => child[Front] # "zombie"
         /\ ~ready.data => printed[Front] = said[Front]

\* How many commands are in the ring, which is the first of them, and the slot
\* of the i-th one.
Cur == IF current = -1 THEN 0 ELSE current
InRing == IF next >= Cur THEN next - Cur ELSE next - Cur + Slots
First == line - InRing
SlotOf(i) == IF Cur + i < Slots THEN Cur + i ELSE Cur + i - Slots

RingOK ==
    ~overrun /\ pc # "failed" =>
        /\ First \in Nat
        /\ \A i \in 0..(InRing - 1) : pipes[SlotOf(i)] = First + i
        /\ \A c \in Cmd : c < line => child[c] # "none"
        /\ \A c \in Cmd : c < First => child[c] = "reaped" /\ printed[c] = said[c]

\* The code so far is the worst of those reaped.
RetOK ==
    pc # "failed" =>
        /\ \A c \in Cmd : child[c] = "reaped" => Worth(c) <= ret
        /\ ret = 0 \/ \E c \in Cmd : child[c] = "reaped" /\ Worth(c) = ret

RInv == TypeOK /\ Counted /\ LoopOK /\ RingOK /\ RetOK

-----------------------------------------------------------------------------
(* The lemmas.                                                             *)

\* The slot after another.
LEMMA NextSlot ==
    ASSUME NEW i \in Slot
    PROVE  /\ (i + 1) % Slots = IF i + 1 = Slots THEN 0 ELSE i + 1
           /\ (i + 1) % Slots \in Slot
  BY SizesAssumption DEF Slot

\* A command that is not reaped is counted.
LEMMA SomeUnreaped ==
    ASSUME TypeOK, Counted
    PROVE  /\ IsFiniteSet(Unreaped)
           /\ Unreaped # {} => running > 0
           /\ Unreaped = {} => running = 0
<1>1. IsFiniteSet(Cmd)
  BY SizesAssumption, FS_Interval DEF Cmd
<1>2. IsFiniteSet(Unreaped)
  BY <1>1, FS_Subset DEF Unreaped
<1> QED
  BY <1>2, FS_EmptySet, FS_CardinalityType DEF TypeOK, Counted

\* What Reap returns is a code.
LEMMA NewCodeType ==
    ASSUME TypeOK, NEW c \in Cmd
    PROVE  /\ Worth(c) \in Nat
           /\ NewCode(c) \in Nat
           /\ NewCode(c) >= ret /\ NewCode(c) >= Worth(c)
           /\ NewCode(c) \in {ret, Worth(c)}
<1>1. code[c] \in Status \cup {0, Killed}
  BY DEF TypeOK
<1>4. code[c] = Killed \/ code[c] \in Nat
  <2>1. \A s \in Status : s \in Nat
    BY SizesAssumption
  <2> QED
    BY <1>1, <2>1
<1>2. CASE code[c] = Killed
  BY <1>2 DEF TypeOK, NewCode, Worth
<1>3. CASE code[c] \in Nat /\ code[c] # Killed
  BY <1>3 DEF TypeOK, NewCode, Worth
<1> QED
  BY <1>4, <1>2, <1>3

\* The types hold on.
LEMMA TypeStep ==
    ASSUME TypeOK, Counted, [Next]_vars
    PROVE  TypeOK'
<1>1. ASSUME NEW c \in Cmd, Want(c)
      PROVE  TypeOK'
  BY <1>1, SizesAssumption DEF Want, ring, output, TypeOK, Ready, Slot, Nothing
<1>2. ASSUME NEW c \in Cmd, Write(c)
      PROVE  TypeOK'
  BY <1>2, SizesAssumption DEF Write, ring, TypeOK, Ready, Slot, Nothing
<1>3. ASSUME NEW c \in Cmd, Exit(c)
      PROVE  TypeOK'
  BY <1>3, SizesAssumption DEF Exit, Ends, ring, output, TypeOK, Ready, Slot, Nothing
<1>4. ASSUME NEW c \in Cmd, Kill(c)
      PROVE  TypeOK'
  BY <1>4, SizesAssumption DEF Kill, Ends, ring, output, TypeOK, Ready, Slot, Nothing
<1>5. ASSUME NEW c \in Cmd, Reap(c)
      PROVE  TypeOK'
  <2>1. c \in Unreaped /\ running > 0
    BY <1>5, SomeUnreaped DEF Reap, Unreaped
  <2> QED
    BY <1>5, <2>1, NewCodeType, SizesAssumption DEF Reap, ring, output, TypeOK
<1>6. CASE EndOfInput
  BY <1>6, SizesAssumption DEF EndOfInput, CanStart, Poll0, output, process, ring, Idle, TypeOK, Ready, Slot, Nothing
<1>7. CASE EnoughStarted
  BY <1>7, SizesAssumption DEF EnoughStarted, Idle, Poll0, output, process, ring, TypeOK, Ready, Slot, Nothing
<1>8. CASE LoseLine
  BY <1>8, SizesAssumption DEF LoseLine, CanStart, Poll0, RingFull, output, process, ring, Idle, TypeOK, Ready, Slot, Nothing
<1>9. CASE Start
  <2>1. line \in Cmd /\ running + 1 \in 0..Threads /\ next' \in Slot /\ line' \in 0..N /\ line' \in Nat
    BY <1>9, SizesAssumption, NextSlot DEF Start, CanStart, TypeOK, Cmd
  <2>2. pipes' \in [Slot -> Nat] /\ child' \in [Cmd -> {"none", "running", "writing", "zombie", "reaped"}]
    BY <1>9, <2>1 DEF Start, TypeOK, Cmd
  <2> QED
    BY <1>9, <2>1, <2>2 DEF Start, output, TypeOK
<1>10. CASE StartFails
  BY <1>10, SizesAssumption DEF StartFails, CanStart, RingFull, ring, output, process, Idle, TypeOK, Ready, Slot, Nothing
<1>11. CASE Poll
  BY <1>11, SizesAssumption DEF Poll, WaitPipe, Front, Nothing, ring, output, process, TypeOK, Ready, Slot
<1>12. CASE TakeSignal
  BY <1>12, SizesAssumption DEF TakeSignal, ring, output, TypeOK, Ready, Slot, Nothing
<1>13. CASE AllReaped
  BY <1>13, SizesAssumption DEF AllReaped, ring, output, process, TypeOK, Ready, Slot, Nothing
<1>14. CASE ReadPipe
  BY <1>14, SizesAssumption DEF ReadPipe, Front, Nothing, ring, process, output, TypeOK, Ready, Slot
<1>15. CASE ClosePipe
  BY <1>15, SizesAssumption DEF ClosePipe, Nothing, output, process, ring, TypeOK, Ready, Slot
<1>16. CASE UNCHANGED vars
  BY <1>16, SizesAssumption DEF vars, ring, output, process, TypeOK, Ready, Slot, Nothing
<1> QED
  BY <1>1, <1>2, <1>3, <1>4, <1>5, <1>6, <1>7, <1>8, <1>9, <1>10, <1>11, <1>12, <1>13, <1>14, <1>15, <1>16 DEF Next, Main, Command

\* It counts the commands that are not reaped.
LEMMA CountedStep ==
    ASSUME TypeOK, Counted, [Next]_vars
    PROVE  Counted'
<1>1. ASSUME NEW c \in Cmd, Want(c)
      PROVE  Counted'
  BY <1>1, SizesAssumption DEF Want, ring, output, TypeOK, Counted, Unreaped, Alive, Cmd
<1>2. ASSUME NEW c \in Cmd, Write(c)
      PROVE  Counted'
  <2>1. Unreaped' = Unreaped /\ UNCHANGED <<running, line>>
    BY <1>2 DEF Write, TypeOK, Unreaped, Alive
  <2> QED
    BY <1>2, <2>1 DEF Write, TypeOK, Counted
<1>3. ASSUME NEW c \in Cmd, Exit(c)
      PROVE  Counted'
  <2>1. Unreaped' = Unreaped /\ UNCHANGED <<running, line, said, printed>>
    BY <1>3 DEF Exit, Ends, ring, output, TypeOK, Unreaped, Alive
  <2>2. \A d \in Cmd : child'[d] = "none" <=> child[d] = "none"
    BY <1>3 DEF Exit, Ends, TypeOK, Alive
  <2> QED
    BY <2>1, <2>2 DEF Counted
<1>4. ASSUME NEW c \in Cmd, Kill(c)
      PROVE  Counted'
  BY <1>4, SizesAssumption DEF Kill, Ends, ring, output, TypeOK, Counted, Unreaped, Alive, Cmd
<1>5. ASSUME NEW c \in Cmd, Reap(c)
      PROVE  Counted'
  <2>1. c \in Unreaped /\ Unreaped' = Unreaped \ {c} /\ running' = running - 1
    BY <1>5 DEF Reap, TypeOK, Unreaped, Alive
  <2>2. Cardinality(Unreaped') = Cardinality(Unreaped) - 1
    BY <2>1, SomeUnreaped, FS_RemoveElement
  <2> QED
    BY <1>5, <2>1, <2>2 DEF Reap, output, TypeOK, Counted
<1>6. CASE EndOfInput
  BY <1>6, SizesAssumption DEF EndOfInput, CanStart, Poll0, output, process, ring, Idle, TypeOK, Counted, Unreaped, Alive, Cmd
<1>7. CASE EnoughStarted
  BY <1>7, SizesAssumption DEF EnoughStarted, Idle, Poll0, output, process, ring, TypeOK, Counted, Unreaped, Alive, Cmd
<1>8. CASE LoseLine
  BY <1>8, SizesAssumption DEF LoseLine, CanStart, Poll0, RingFull, output, process, ring, Idle, TypeOK, Counted, Unreaped, Alive, Cmd
<1>9. CASE Start
  <2>1. line \in Cmd /\ line \notin Unreaped /\ Unreaped' = Unreaped \cup {line} /\ running' = running + 1
    BY <1>9, SizesAssumption DEF Start, CanStart, TypeOK, Counted, Unreaped, Alive, Cmd
  <2>2. Cardinality(Unreaped') = Cardinality(Unreaped) + 1
    BY <2>1, SomeUnreaped, FS_AddElement
  <2> QED
    BY <1>9, <2>1, <2>2 DEF Start, output, TypeOK, Counted, Cmd
<1>10. CASE StartFails
  BY <1>10, SizesAssumption DEF StartFails, CanStart, RingFull, ring, output, process, Idle, TypeOK, Counted, Unreaped, Alive, Cmd
<1>11. CASE Poll
  BY <1>11, SizesAssumption DEF Poll, WaitPipe, Front, Nothing, ring, output, process, TypeOK, Counted, Unreaped, Alive, Cmd
<1>12. CASE TakeSignal
  BY <1>12, SizesAssumption DEF TakeSignal, ring, output, TypeOK, Counted, Unreaped, Alive, Cmd
<1>13. CASE AllReaped
  BY <1>13, SizesAssumption DEF AllReaped, ring, output, process, TypeOK, Counted, Unreaped, Alive, Cmd
<1>14. CASE ReadPipe
  BY <1>14, SizesAssumption DEF ReadPipe, Front, Nothing, ring, process, output, TypeOK, Counted, Unreaped, Alive, Cmd
<1>15. CASE ClosePipe
  BY <1>15, SizesAssumption DEF ClosePipe, Nothing, output, process, ring, TypeOK, Counted, Unreaped, Alive, Cmd
<1>16. CASE UNCHANGED vars
  BY <1>16, SizesAssumption DEF vars, ring, output, process, TypeOK, Counted, Unreaped, Alive, Cmd
<1> QED
  BY <1>1, <1>2, <1>3, <1>4, <1>5, <1>6, <1>7, <1>8, <1>9, <1>10, <1>11, <1>12, <1>13, <1>14, <1>15, <1>16 DEF Next, Main, Command

\* What the loop knows stays true.
LEMMA LoopStep ==
    ASSUME TypeOK, Counted, LoopOK, [Next]_vars
    PROVE  LoopOK'
<1>1. ASSUME NEW c \in Cmd, Want(c)
      PROVE  LoopOK'
  BY <1>1, SizesAssumption DEF Want, ring, output, TypeOK, Counted, LoopOK, Alive, WaitPipe, Front, Nothing, Slot, Ready
<1>2. ASSUME NEW c \in Cmd, Write(c)
      PROVE  LoopOK'
  BY <1>2, SizesAssumption DEF Write, ring, TypeOK, Counted, LoopOK, Alive, WaitPipe, Front, Nothing, Slot, Ready
<1>3. ASSUME NEW c \in Cmd, Exit(c)
      PROVE  LoopOK'
  BY <1>3, SizesAssumption DEF Exit, Ends, ring, output, TypeOK, Counted, LoopOK, Alive, WaitPipe, Front, Nothing, Slot, Ready
<1>4. ASSUME NEW c \in Cmd, Kill(c)
      PROVE  LoopOK'
  BY <1>4, SizesAssumption DEF Kill, Ends, ring, output, TypeOK, Counted, LoopOK, Alive, WaitPipe, Front, Nothing, Slot, Ready
<1>5. ASSUME NEW c \in Cmd, Reap(c)
      PROVE  LoopOK'
  BY <1>5, SizesAssumption DEF Reap, NewCode, ring, output, TypeOK, Counted, LoopOK, Alive, WaitPipe, Front, Nothing, Slot, Ready
<1>6. CASE EndOfInput
  BY <1>6, SizesAssumption DEF EndOfInput, CanStart, Poll0, output, process, ring, Idle, TypeOK, Counted, LoopOK, Alive, WaitPipe, Front, Nothing, Slot, Ready
<1>7. CASE EnoughStarted
  BY <1>7, SizesAssumption DEF EnoughStarted, Idle, Poll0, output, process, ring, TypeOK, Counted, LoopOK, Alive, WaitPipe, Front, Nothing, Slot, Ready
<1>8. CASE LoseLine
  BY <1>8, SizesAssumption DEF LoseLine, CanStart, Poll0, RingFull, output, process, ring, Idle, TypeOK, Counted, LoopOK, Alive, WaitPipe, Front, Nothing, Slot, Ready
<1>9. CASE Start
  BY <1>9, SizesAssumption DEF Start, CanStart, RingFull, output, Idle, TypeOK, Counted, LoopOK, Alive, WaitPipe, Front, Nothing, Slot, Ready
<1>10. CASE StartFails
  BY <1>10, SizesAssumption DEF StartFails, CanStart, RingFull, ring, output, process, Idle, TypeOK, Counted, LoopOK, Alive, WaitPipe, Front, Nothing, Slot, Ready
<1>11. CASE Poll
  BY <1>11, SizesAssumption DEF Poll, WaitPipe, Front, Nothing, ring, output, process, TypeOK, Counted, LoopOK, Alive, Slot, Ready
<1>12. CASE TakeSignal
  BY <1>12, SizesAssumption DEF TakeSignal, ring, output, TypeOK, Counted, LoopOK, Alive, WaitPipe, Front, Nothing, Slot, Ready
<1>13. CASE AllReaped
  BY <1>13, SizesAssumption DEF AllReaped, ring, output, process, TypeOK, Counted, LoopOK, Alive, WaitPipe, Front, Nothing, Slot, Ready
<1>14. CASE ReadPipe
  BY <1>14, SizesAssumption DEF ReadPipe, Front, Nothing, ring, process, output, TypeOK, Counted, LoopOK, Alive, WaitPipe, Slot, Ready
<1>15. CASE ClosePipe
  BY <1>15, SizesAssumption DEF ClosePipe, Nothing, output, process, ring, TypeOK, Counted, LoopOK, Alive, WaitPipe, Front, Slot, Ready
<1>16. CASE UNCHANGED vars
  BY <1>16, SizesAssumption DEF vars, ring, output, process, TypeOK, Counted, LoopOK, Alive, WaitPipe, Front, Nothing, Slot, Ready
<1> QED
  BY <1>1, <1>2, <1>3, <1>4, <1>5, <1>6, <1>7, <1>8, <1>9, <1>10, <1>11, <1>12, <1>13, <1>14, <1>15, <1>16 DEF Next, Main, Command

\* The ring holds the commands that are not printed yet, in order.
LEMMA RingStep ==
    ASSUME TypeOK, Counted, LoopOK, RingOK, [Next]_vars
    PROVE  RingOK'
<1>1. ASSUME NEW c \in Cmd, Want(c)
      PROVE  RingOK'
  BY <1>1, SizesAssumption DEF Want, ring, output, TypeOK, Counted, RingOK, InRing, Cur, First, SlotOf, Slot, Alive
<1>2. ASSUME NEW c \in Cmd, Write(c)
      PROVE  RingOK'
  BY <1>2, SizesAssumption DEF Write, ring, TypeOK, Counted, RingOK, InRing, Cur, First, SlotOf, Slot, Alive
<1>3. ASSUME NEW c \in Cmd, Exit(c)
      PROVE  RingOK'
  BY <1>3, SizesAssumption DEF Exit, Ends, ring, output, TypeOK, Counted, RingOK, InRing, Cur, First, SlotOf, Slot, Alive
<1>4. ASSUME NEW c \in Cmd, Kill(c)
      PROVE  RingOK'
  BY <1>4, SizesAssumption DEF Kill, Ends, ring, output, TypeOK, Counted, RingOK, InRing, Cur, First, SlotOf, Slot, Alive
<1>5. ASSUME NEW c \in Cmd, Reap(c)
      PROVE  RingOK'
  BY <1>5, SizesAssumption DEF Reap, NewCode, ring, output, TypeOK, Counted, RingOK, InRing, Cur, First, SlotOf, Slot, Alive
<1>6. CASE EndOfInput
  BY <1>6, SizesAssumption DEF EndOfInput, CanStart, Poll0, output, process, ring, Idle, TypeOK, Counted, RingOK, InRing, Cur, First, SlotOf, Slot, Alive
<1>7. CASE EnoughStarted
  BY <1>7, SizesAssumption DEF EnoughStarted, Idle, Poll0, output, process, ring, TypeOK, Counted, RingOK, InRing, Cur, First, SlotOf, Slot, Alive
<1>8. CASE LoseLine
  <2> SUFFICES ASSUME ~overrun PROVE FALSE
    BY <1>8 DEF LoseLine, RingOK
  <2>0. pc = "start"
    BY <1>8 DEF LoseLine, CanStart, Idle
  <2>1. running > 0 /\ InRing = 0
    BY <1>8 DEF LoseLine, RingFull, TypeOK, InRing, Cur, Slot
  <2>2. \A c \in Cmd : child[c] \in {"none", "reaped"}
    BY <2>0, <2>1, SizesAssumption DEF RingOK, First, Counted, TypeOK, Cmd
  <2>3. Unreaped = {}
    BY <2>2 DEF Unreaped, Alive
  <2> QED
    BY <2>1, <2>3, SomeUnreaped DEF TypeOK
<1>9. CASE Start
  <2> SUFFICES ASSUME ~overrun', pc # "failed" PROVE RingOK'
    BY <1>9 DEF Start, RingOK
  <2>1. /\ line \in Cmd /\ line' = line + 1 /\ next \in Slot /\ current' = current
        /\ next' = (IF next + 1 = Slots THEN 0 ELSE next + 1)
        /\ pipes' = [pipes EXCEPT ![next] = line] /\ child' = [child EXCEPT ![line] = "running"]
        /\ UNCHANGED <<printed, said>>
    BY <1>9, SizesAssumption, NextSlot DEF Start, CanStart, TypeOK, Cmd, output
  <2>7. ~overrun /\ next' # Cur
    BY <1>9 DEF Start, TypeOK, Cur
  <2>2. Cur \in Slot /\ Cur' = Cur /\ InRing' = InRing + 1 /\ First' = First /\ InRing \in Nat /\ First \in Nat
    <3>1. Cur \in Slot /\ Cur' = Cur /\ First \in Nat
      BY <2>1, <2>7, SizesAssumption DEF TypeOK, RingOK, Cur, Slot
    <3>2. InRing \in Nat /\ InRing' = InRing + 1
      BY <2>1, <2>7, <3>1, SizesAssumption DEF InRing, Slot
    <3> QED
      BY <2>1, <3>1, <3>2 DEF First, Cmd
  <2>3. next = SlotOf(InRing) /\ \A i \in 0..(InRing - 1) : SlotOf(i)' = SlotOf(i) /\ SlotOf(i) \in Slot \ {next}
    BY <2>1, <2>2, SizesAssumption DEF TypeOK, Cur, InRing, SlotOf, Slot
  <2>4. \A i \in 0..(InRing' - 1) : pipes'[SlotOf(i)'] = First' + i
    <3> TAKE i \in 0..(InRing' - 1)
    <3>1. CASE i = InRing
      BY <2>1, <2>2, <2>3, <3>1 DEF TypeOK, First, SlotOf
    <3>2. CASE i \in 0..(InRing - 1)
      BY <2>1, <2>2, <2>3, <2>7, <3>2 DEF TypeOK, RingOK
    <3> QED
      BY <2>2, <3>1, <3>2
  <2>5. \A c \in Cmd : c < line' => child'[c] # "none"
    BY <2>1, <2>7 DEF TypeOK, RingOK, Cmd
  <2>6. \A c \in Cmd : c < First' => child'[c] = "reaped" /\ printed'[c] = said'[c]
    BY <2>1, <2>2, <2>7, SizesAssumption DEF TypeOK, RingOK, Cmd, First
  <2> QED
    BY <2>2, <2>4, <2>5, <2>6 DEF RingOK
<1>10. CASE StartFails
  BY <1>10, SizesAssumption DEF StartFails, CanStart, RingFull, ring, output, process, Idle, TypeOK, Counted, RingOK, InRing, Cur, First, SlotOf, Slot, Alive
<1>11. CASE Poll
  BY <1>11, SizesAssumption DEF Poll, WaitPipe, Front, Nothing, ring, output, process, TypeOK, Counted, RingOK, InRing, Cur, First, SlotOf, Slot, Alive
<1>12. CASE TakeSignal
  BY <1>12, SizesAssumption DEF TakeSignal, ring, output, TypeOK, Counted, RingOK, InRing, Cur, First, SlotOf, Slot, Alive
<1>13. CASE AllReaped
  BY <1>13, SizesAssumption DEF AllReaped, ring, output, process, TypeOK, Counted, RingOK, InRing, Cur, First, SlotOf, Slot, Alive
<1>14. CASE ReadPipe
  BY <1>14, SizesAssumption DEF ReadPipe, Front, Nothing, ring, process, output, TypeOK, Counted, RingOK, InRing, Cur, First, SlotOf, Slot, Alive
<1>15. CASE ClosePipe
  <2> SUFFICES ASSUME ~overrun, ready.hup PROVE RingOK'
    BY <1>15 DEF ClosePipe, ring, output, process, RingOK, First, InRing, Cur, SlotOf
  <2>1. /\ pc = "drain" /\ ~ready.data /\ pc' = "start" /\ ~overrun'
        /\ current \in Slot /\ next \in Slot /\ current # next
        /\ current' = (IF current + 1 = Slots THEN 0 ELSE current + 1)
        /\ UNCHANGED <<line, next, pipes, child, printed, said>>
    BY <1>15, NextSlot DEF ClosePipe, output, process, LoopOK, WaitPipe, TypeOK
  <2>2. /\ Cur = current /\ Cur' = current' /\ InRing' = InRing - 1 /\ First' = First + 1
        /\ InRing \in 1..(Slots - 1) /\ First \in Nat /\ SlotOf(0) = current
    BY <2>1, SizesAssumption DEF TypeOK, RingOK, Cur, InRing, First, Slot, SlotOf
  <2>3. Front = First /\ First < line /\ First \in Cmd
    BY <2>1, <2>2, SizesAssumption DEF RingOK, Front, First, TypeOK, Cmd
  <2>4. child[First] = "reaped" /\ printed[First] = said[First]
    <3>1. child[First] \notin Alive \cup {"zombie"} /\ printed[First] = said[First]
      BY <2>1, <2>3 DEF LoopOK
    <3>2. child[First] # "none"
      BY <2>1, <2>3 DEF RingOK
    <3> QED
      BY <2>3, <3>1, <3>2 DEF TypeOK, Alive
  <2>5. \A i \in 0..(InRing' - 1) : pipes'[SlotOf(i)'] = First' + i
    <3> TAKE i \in 0..(InRing' - 1)
    <3>1. i + 1 \in 0..(InRing - 1) /\ SlotOf(i)' = SlotOf(i + 1)
      BY <2>1, <2>2, SizesAssumption DEF SlotOf, Slot, InRing
    <3> QED
      BY <2>1, <2>2, <3>1 DEF RingOK
  <2>6. \A c \in Cmd : c < First' => child'[c] = "reaped" /\ printed'[c] = said'[c]
    BY <2>1, <2>2, <2>4, SizesAssumption DEF RingOK, Cmd
  <2> QED
    BY <2>1, <2>2, <2>5, <2>6 DEF RingOK
<1>16. CASE UNCHANGED vars
  BY <1>16, SizesAssumption DEF vars, ring, output, process, TypeOK, Counted, RingOK, InRing, Cur, First, SlotOf, Slot, Alive
<1> QED
  BY <1>1, <1>2, <1>3, <1>4, <1>5, <1>6, <1>7, <1>8, <1>9, <1>10, <1>11, <1>12, <1>13, <1>14, <1>15, <1>16 DEF Next, Main, Command

\* The code is the worst so far.
LEMMA RetStep ==
    ASSUME TypeOK, Counted, RetOK, [Next]_vars
    PROVE  RetOK'
<1>1. ASSUME NEW c \in Cmd, Want(c)
      PROVE  RetOK'
  BY <1>1, SizesAssumption DEF Want, ring, output, TypeOK, RetOK, Worth, Alive
<1>2. ASSUME NEW c \in Cmd, Write(c)
      PROVE  RetOK'
  BY <1>2, SizesAssumption DEF Write, ring, TypeOK, RetOK, Worth, Alive
<1>3. ASSUME NEW c \in Cmd, Exit(c)
      PROVE  RetOK'
  BY <1>3, SizesAssumption DEF Exit, Ends, ring, output, TypeOK, RetOK, Worth, Alive
<1>4. ASSUME NEW c \in Cmd, Kill(c)
      PROVE  RetOK'
  BY <1>4, SizesAssumption DEF Kill, Ends, ring, output, TypeOK, RetOK, Worth, Alive
<1>5. ASSUME NEW c \in Cmd, Reap(c)
      PROVE  RetOK'
  <2> SUFFICES ASSUME pc # "failed" PROVE RetOK'
    BY <1>5 DEF Reap, RetOK
  <2>1. ret' = NewCode(c) /\ child' = [child EXCEPT ![c] = "reaped"] /\ ret \in Nat /\ UNCHANGED code
    BY <1>5 DEF Reap, TypeOK
  <2>2. \A b \in Cmd : Worth(b)' = Worth(b) /\ Worth(b) \in Nat
    BY <2>1, NewCodeType DEF Worth
  <2> HIDE DEF Worth
  <2>3. \A b \in Cmd : child'[b] = "reaped" => b = c \/ child[b] = "reaped"
    BY <2>1 DEF TypeOK
  <2>4. ASSUME NEW b \in Cmd, child'[b] = "reaped" PROVE Worth(b)' <= ret'
    BY <2>1, <2>2, <2>3, <2>4, NewCodeType DEF RetOK
  <2>5. ret' = 0 \/ \E b \in Cmd : child'[b] = "reaped" /\ Worth(b)' = ret'
    BY <2>1, <2>2, NewCodeType DEF RetOK, TypeOK
  <2> QED
    BY <2>4, <2>5 DEF RetOK
<1>6. CASE EndOfInput
  BY <1>6, SizesAssumption DEF EndOfInput, CanStart, Poll0, output, process, ring, Idle, TypeOK, RetOK, Worth, Alive
<1>7. CASE EnoughStarted
  BY <1>7, SizesAssumption DEF EnoughStarted, Idle, Poll0, output, process, ring, TypeOK, RetOK, Worth, Alive
<1>8. CASE LoseLine
  BY <1>8, SizesAssumption DEF LoseLine, CanStart, Poll0, RingFull, output, process, ring, Idle, TypeOK, RetOK, Worth, Alive
<1>9. CASE Start
  <2>1. line \in Cmd /\ child[line] = "none" /\ child' = [child EXCEPT ![line] = "running"] /\ UNCHANGED <<ret, code, pc>>
    BY <1>9, SizesAssumption DEF Start, CanStart, TypeOK, Counted, Cmd
  <2>2. \A c \in Cmd : (child'[c] = "reaped" <=> child[c] = "reaped") /\ Worth(c)' = Worth(c)
    BY <2>1 DEF TypeOK, Worth
  <2> QED
    BY <2>1, <2>2 DEF RetOK
<1>10. CASE StartFails
  BY <1>10, SizesAssumption DEF StartFails, CanStart, RingFull, ring, output, process, Idle, TypeOK, RetOK, Worth, Alive
<1>11. CASE Poll
  BY <1>11, SizesAssumption DEF Poll, WaitPipe, Front, Nothing, ring, output, process, TypeOK, RetOK, Worth, Alive
<1>12. CASE TakeSignal
  BY <1>12, SizesAssumption DEF TakeSignal, ring, output, TypeOK, RetOK, Worth, Alive
<1>13. CASE AllReaped
  BY <1>13, SizesAssumption DEF AllReaped, ring, output, process, TypeOK, RetOK, Worth, Alive
<1>14. CASE ReadPipe
  BY <1>14, SizesAssumption DEF ReadPipe, Front, Nothing, ring, process, output, TypeOK, RetOK, Worth, Alive
<1>15. CASE ClosePipe
  BY <1>15, SizesAssumption DEF ClosePipe, Nothing, output, process, ring, TypeOK, RetOK, Worth, Alive
<1>16. CASE UNCHANGED vars
  BY <1>16, SizesAssumption DEF vars, ring, output, process, TypeOK, RetOK, Worth, Alive
<1> QED
  BY <1>1, <1>2, <1>3, <1>4, <1>5, <1>6, <1>7, <1>8, <1>9, <1>10, <1>11, <1>12, <1>13, <1>14, <1>15, <1>16 DEF Next, Main, Command

-----------------------------------------------------------------------------
(* The theorems.                                                           *)

\* The invariant holds at first.
LEMMA InitHolds == Init => RInv
<1> SUFFICES ASSUME Init PROVE RInv
  OBVIOUS
<1>1. TypeOK
  <2>1. /\ line \in 0..N /\ running \in 0..Threads /\ next \in Slot
        /\ pipes \in [Slot -> Nat] /\ ready \in Ready
    BY SizesAssumption DEF Init, Slot, Ready, Nothing
  <2>2. /\ child \in [Cmd -> {"none", "running", "writing", "zombie", "reaped"}]
        /\ code \in [Cmd -> Status \cup {0, Killed}]
        /\ said \in [Cmd -> Nat] /\ printed \in [Cmd -> Nat]
    BY DEF Init
  <2> QED
    BY <2>1, <2>2 DEF Init, TypeOK
<1>2. Unreaped = {}
  BY DEF Init, Unreaped, Alive
<1>3. Counted
  BY <1>2, FS_EmptySet, SizesAssumption DEF Init, Counted, Cmd
<1>4. LoopOK
  BY DEF Init, LoopOK, Nothing
<1>5. RingOK
  BY SizesAssumption DEF Init, RingOK, First, InRing, Cur, SlotOf, Cmd
<1>6. RetOK
  BY DEF Init, RetOK
<1> QED
  BY <1>1, <1>3, <1>4, <1>5, <1>6 DEF RInv

\* It holds always.
LEMMA Inductive == Spec => []RInv
<1>1. RInv /\ [Next]_vars => RInv'
  BY TypeStep, CountedStep, LoopStep, RingStep, RetStep DEF RInv
<1> QED
  BY <1>1, InitHolds, PTL DEF Spec

\* Every variable keeps its type: no more than Threads commands ever run at
\* once, and no slot outside the ring is used.
THEOREM TypesHold == Spec => []TypeOK
<1>1. RInv => TypeOK
  BY DEF RInv
<1> QED
  BY <1>1, Inductive, PTL

\* When main returns, unless the ring was full once, every command was run and
\* reaped, all it wrote is printed, and the code is the maximum of all of them,
\* for any number of commands and any spread of their ends over the signals.
THEOREM AllSaid == Spec => []SaysItAll
<1>1. RInv => SaysItAll
  <2> SUFFICES ASSUME RInv, pc = "exit", ~overrun PROVE SaysItAll!2
    BY DEF SaysItAll
  <2>1. line = N /\ current = next /\ current \in Slot
    BY DEF RInv, LoopOK
  <2>2. First = N
    BY <2>1, SizesAssumption DEF RInv, TypeOK, First, InRing, Cur, Slot
  <2>3. \A c \in Cmd : child[c] = "reaped" /\ printed[c] = said[c]
    BY <2>2, SizesAssumption DEF RInv, RingOK, Cmd
  <2> QED
    BY <2>3 DEF RInv, RetOK
<1> QED
  BY <1>1, Inductive, PTL

\* Unless the ring was full once, nothing a command wrote is printed before
\* all those before it are over and all they wrote is printed.
THEOREM InOrder == Spec => InSequence
<1> DEFINE Step == overrun' \/ \A c \in Cmd : printed'[c] > printed[c] =>
                     \A b \in Cmd : b < c => Over(b) /\ printed[b] = said[b]
<1>1. ASSUME RInv, [Next]_vars
      PROVE  [Step]_vars
  <2>1. CASE ReadPipe
    <3> SUFFICES ASSUME ~overrun PROVE Step
      BY <2>1 DEF ReadPipe, ring
    <3>1. current # next /\ current \in Slot /\ next \in Slot /\ pc = "drain"
      BY <1>1, <2>1 DEF RInv, LoopOK, ReadPipe, WaitPipe, TypeOK
    <3>2. InRing \in Nat \ {0} /\ SlotOf(0) = current /\ First \in Nat
      BY <1>1, <3>1, SizesAssumption DEF RInv, RingOK, InRing, Cur, Slot, SlotOf, TypeOK
    <3>3. Front = First
      BY <1>1, <3>1, <3>2 DEF RInv, RingOK, Front
    <3>4. \A c \in Cmd : c # First => printed'[c] = printed[c]
      BY <1>1, <2>1, <3>3 DEF ReadPipe, RInv, TypeOK
    <3>5. \A b \in Cmd : b < First => Over(b) /\ printed[b] = said[b]
      BY <1>1, <3>1 DEF RInv, RingOK, Over
    <3>6. \A c \in Cmd : printed[c] \in Nat
      BY <1>1 DEF RInv, TypeOK
    <3> QED
      BY <3>4, <3>5, <3>6
  <2>2. CASE ~ReadPipe
    <3>1. UNCHANGED printed
      BY <1>1, <2>2 DEF Next, Main, Command, Want, Write, Exit, Kill, Ends, Reap, EndOfInput,
        EnoughStarted, LoseLine, Start, StartFails, Poll, TakeSignal, AllReaped, ClosePipe, ring,
        output, process, vars
    <3>2. \A c \in Cmd : printed[c] \in Nat
      BY <1>1 DEF RInv, TypeOK
    <3> QED
      BY <3>1, <3>2
  <2> QED
    BY <2>1, <2>2
<1> QED
  BY <1>1, Inductive, PTL DEF Spec, InSequence

==============================================================================
