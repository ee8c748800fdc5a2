----------------------------- MODULE TodoProofs -----------------------------
(***************************************************************************)
(* Proofs about Todo, for any files, any lines in them and any number of   *)
(* edits, and about the algorithms of Tasks, for every date, every list of *)
(* tasks and every mailbox.                                                *)
(***************************************************************************)
EXTENDS Todo, SequenceTheorems, WellFoundedInduction, TLAPS

-----------------------------------------------------------------------------
(* The calendar.                                                           *)

Months == Int \X (1..12) \X Int      \* a month, and a day that may be out of it
AnyDate    == Int \X Int \X Int

\* A date is its three numbers.
LEMMA Triple ==
    ASSUME NEW d \in AnyDate
    PROVE  /\ d = <<d[1], d[2], d[3]>>
           /\ d[1] \in Int /\ d[2] \in Int /\ d[3] \in Int
  BY DEF AnyDate

\* Every month has 28 days at least.
LEMMA MonthsLength ==
    ASSUME NEW y \in Int, NEW m \in Int
    PROVE  /\ DaysIn(y, m) \in 28..31
           /\ m = 12 => DaysIn(y, m) = 31
  BY DEF DaysIn

\* time.Date brings any month into the year.
LEMMA MonthCarried ==
    ASSUME NEW d \in AnyDate
    PROVE  /\ CarryMonth(d) \in Months
           /\ CarryMonth(d)[3] = d[3]
           /\ d[2] \in 1..12 => CarryMonth(d) = d
<1>1. /\ (d[2] - 1) \div 12 \in Int
      /\ (d[2] - 1) % 12 \in 0..11
  BY Triple, Z3
<1>2. d[2] \in 1..12 => (d[2] - 1) \div 12 = 0 /\ (d[2] - 1) % 12 = d[2] - 1
  BY Triple, Z3
<1>3. ((d[2] - 1) % 12) + 1 \in 1..12
  BY <1>1, Z3
<1>4. d[1] + ((d[2] - 1) \div 12) \in Int
  BY <1>1, Triple, Z3
<1> QED
  BY <1>1, <1>2, <1>3, <1>4, Triple DEF CarryMonth, Months

\* What four and twice two digits may say.
LEMMA WrittenFacts ==
    ASSUME NEW d \in Written
    PROVE  d \in AnyDate /\ d[2] \in 0..99 /\ d[3] \in 0..99
<1> DEFINE a == d[1]  b == d[2]  c == d[3]
<1>1. d = <<a, b, c>> /\ a \in 1..9990 /\ b \in 0..99 /\ c \in 0..99
  BY DEF Written
<1> HIDE DEF a, b, c
<1>2. <<a, b, c>> \in AnyDate
  BY <1>1 DEF AnyDate
<1>3. d[2] \in 0..99 /\ d[3] \in 0..99
  BY <1>1 DEF b, c
<1> QED
  BY <1>1, <1>2, <1>3

\* A carry ends where it has brought the day into its month, or has taken at
\* least 28 days off.
LEMMA DayCarried ==
    ASSUME NEW d \in Months, NEW k \in Int, d[3] <= k
    PROVE  /\ CarryDay(d) \in Months
           /\ d[3] >= 0 => CarryDay(d) \in Date \/ (CarryDay(d)[3] >= 1 /\ CarryDay(d)[3] <= k - 28)
<1> DEFINE n == DaysIn(d[1], d[2])
<1>1. /\ d = <<d[1], d[2], d[3]>>
      /\ d[1] \in Int /\ d[2] \in 1..12 /\ d[3] \in Int
  BY DEF Months
<1>2. n \in 28..31
  BY <1>1, MonthsLength
<1>3. CASE d[3] > n
  <2> DEFINE u == <<d[1], d[2] + 1, d[3] - n>>
  <2>1. u \in AnyDate /\ u[3] = d[3] - n
    BY <1>1, <1>2 DEF AnyDate
  <2>2. CarryDay(d) = CarryMonth(u)
    BY <1>1, <1>2, <1>3 DEF CarryDay
  <2>3. CarryMonth(u) \in Months /\ CarryMonth(u)[3] = d[3] - n
    BY <2>1, MonthCarried
  <2> HIDE DEF u
  <2> QED
    BY <1>1, <1>2, <1>3, <2>2, <2>3
<1>4. CASE d[3] < 1
  <2> DEFINE u == <<d[1], d[2] - 1, 1>>
             p == CarryMonth(u)
  <2>1. u \in AnyDate
    BY <1>1 DEF AnyDate
  <2>2. p \in Months
    BY <2>1, MonthCarried
  <2>3. p[1] \in Int /\ p[2] \in 1..12
    BY <2>2 DEF Months
  <2>4. DaysIn(p[1], p[2]) \in 28..31
    BY <2>3, MonthsLength
  <2>5. CarryDay(d) = <<p[1], p[2], d[3] + DaysIn(p[1], p[2])>>
    <3>1. ~(d[3] > n)
      BY <1>1, <1>2, <1>4
    <3>2. CarryDay(d) = FromEnd(p, d[3])
      BY <1>1, <1>2, <1>4, <3>1 DEF CarryDay
    <3> HIDE DEF p
    <3>3. FromEnd(p, d[3]) = <<p[1], p[2], d[3] + DaysIn(p[1], p[2])>>
      BY <1>1, <2>4 DEF FromEnd
    <3> QED
      BY <3>2, <3>3
  <2> HIDE DEF p
  <2>6. CarryDay(d) \in Months
    BY <1>1, <2>3, <2>4, <2>5 DEF Months
  <2>7. d[3] >= 0 => d[3] = 0
    BY <1>1, <1>4
  <2>8. d[3] = 0 => CarryDay(d) \in Date
    BY <2>3, <2>4, <2>5 DEF Date
  <2> QED
    BY <2>6, <2>7, <2>8
<1>5. CASE d[3] \in 1..n
  <2>1. CarryDay(d) = d
    BY <1>1, <1>2, <1>5 DEF CarryDay
  <2>2. d \in Date
    BY <1>1, <1>2, <1>5 DEF Date
  <2> QED
    BY <2>1, <2>2
<1> QED
  BY <1>1, <1>2, <1>3, <1>4, <1>5

\* A day of the calendar needs no carry.
LEMMA DateKept ==
    ASSUME NEW d \in Date
    PROVE  d \in Months /\ d \in AnyDate /\ d[3] >= 1 /\ CarryDay(d) = d /\ CarryMonth(d) = d
<1>1. /\ d = <<d[1], d[2], d[3]>>
      /\ d[1] \in Int /\ d[2] \in 1..12 /\ d[3] \in 1..31 /\ d[3] <= DaysIn(d[1], d[2])
  BY DEF Date
<1>2. d \in Months /\ d \in AnyDate
  BY <1>1 DEF Months, AnyDate
<1>3. DaysIn(d[1], d[2]) \in 28..31
  BY <1>1, MonthsLength
<1> QED
  BY <1>1, <1>2, <1>3, MonthCarried DEF CarryDay

\* Nor does normalizing change it.
LEMMA NormalKept ==
    ASSUME NEW d \in Date
    PROVE  NormalizeDate(d) = d
  BY DateKept DEF NormalizeDate

\* Four carries are enough for any day of two digits.
LEMMA NormalIsDate ==
    ASSUME NEW d \in AnyDate, d[3] \in 0..99
    PROVE  NormalizeDate(d) \in Date
<1> DEFINE a == CarryMonth(d)  b == CarryDay(a)  c == CarryDay(b)  e == CarryDay(c)
<1>1. a \in Months /\ a[3] \in 0..99
  BY MonthCarried
<1>2. b \in Date \/ (b \in Months /\ b[3] >= 1 /\ b[3] <= 71)
  <2> HIDE DEF a
  <2> QED
    BY <1>1, DayCarried, 99 - 28 = 71
<1>3. c \in Date \/ (c \in Months /\ c[3] >= 1 /\ c[3] <= 43)
  <2> HIDE DEF b
  <2>1. CASE b \in Date
    BY <2>1, DateKept
  <2>2. CASE b \in Months /\ b[3] >= 1 /\ b[3] <= 71
    <3>1. b[3] >= 0
      BY <2>2 DEF Months
    <3> QED
      BY <2>2, <3>1, DayCarried, 71 - 28 = 43
  <2> QED
    BY <1>2, <2>1, <2>2
<1>4. e \in Date \/ (e \in Months /\ e[3] >= 1 /\ e[3] <= 15)
  <2> HIDE DEF c
  <2>1. CASE c \in Date
    BY <2>1, DateKept
  <2>2. CASE c \in Months /\ c[3] >= 1 /\ c[3] <= 43
    <3>1. c[3] >= 0
      BY <2>2 DEF Months
    <3> QED
      BY <2>2, <3>1, DayCarried, 43 - 28 = 15
  <2> QED
    BY <1>3, <2>1, <2>2
<1>5. e \in Date
  <2> HIDE DEF e
  <2>1. CASE e \in Months /\ e[3] >= 1 /\ e[3] <= 15
    <3>1. e = <<e[1], e[2], e[3]>> /\ e[1] \in Int /\ e[2] \in 1..12 /\ e[3] \in 1..15
      BY <2>1 DEF Months
    <3>2. DaysIn(e[1], e[2]) \in 28..31
      BY <3>1, MonthsLength
    <3> QED
      BY <3>1, <3>2 DEF Date
  <2> QED
    BY <1>4, <2>1
<1> QED
  BY <1>5, DateKept DEF NormalizeDate

-----------------------------------------------------------------------------
(* The order of dates is that of the days they stand for.                  *)

\* The number of a day whose month is one of the year.
LEMMA NumberOfDate ==
    ASSUME NEW d \in Months
    PROVE  DayNumber(d) = YearStart(d[1]) + DaysBefore(d[1], d[2]) + d[3]
<1>1. d \in AnyDate /\ d[2] \in 1..12
  BY DEF Months, AnyDate
<1>2. CarryMonth(d) = d
  BY <1>1, MonthCarried
<1> QED
  BY <1>2 DEF DayNumber, YearStart

\* A year starts at a number.
LEMMA YearStartType ==
    ASSUME NEW y \in Int
    PROVE  YearStart(y) \in Int
<1>1. /\ (y - 1) \div 4 \in Int
      /\ (y - 1) \div 100 \in Int
      /\ (y - 1) \div 400 \in Int
  BY Z3
<1> QED
  BY <1>1 DEF YearStart

\* How many years are multiples of four,
LEMMA Floor4 ==
    ASSUME NEW y \in Int
    PROVE  y \div 4 = ((y - 1) \div 4) + (IF y % 4 = 0 THEN 1 ELSE 0)
  BY Z3

\* of a hundred,
LEMMA Floor100 ==
    ASSUME NEW y \in Int
    PROVE  y \div 100 = ((y - 1) \div 100) + (IF y % 100 = 0 THEN 1 ELSE 0)
  BY Z3

\* and of four hundred.
LEMMA Floor400 ==
    ASSUME NEW y \in Int
    PROVE  y \div 400 = ((y - 1) \div 400) + (IF y % 400 = 0 THEN 1 ELSE 0)
  BY Z3

\* The latter are among the former.
LEMMA Multiples ==
    ASSUME NEW y \in Int
    PROVE  /\ y % 400 = 0 => y % 100 = 0
           /\ y % 100 = 0 => y % 4 = 0
  BY Z3

\* A year has 365 days, or 366.
LEMMA YearLength ==
    ASSUME NEW y \in Int
    PROVE  YearStart(y + 1) = YearStart(y) + 365 + (IF Leap(y) THEN 1 ELSE 0)
<1> DEFINE a == (y - 1) \div 4    b == (y - 1) \div 100    c == (y - 1) \div 400
           p == y \div 4          q == y \div 100          r == y \div 400
           l4 == y % 4 = 0  l100 == y % 100 = 0  l400 == y % 400 = 0
<1>1. a \in Int /\ b \in Int /\ c \in Int
  BY Z3
<1>2. /\ p = a + (IF l4 THEN 1 ELSE 0)
      /\ q = b + (IF l100 THEN 1 ELSE 0)
      /\ r = c + (IF l400 THEN 1 ELSE 0)
  BY Floor4, Floor100, Floor400
<1>3. /\ l400 => l100
      /\ l100 => l4
  BY Multiples
<1>4. YearStart(y + 1) = 365 * y + p - q + r
  <2>1. (y + 1) - 1 = y
    OBVIOUS
  <2> QED
    BY <2>1 DEF YearStart
<1>5. YearStart(y) = 365 * (y - 1) + a - b + c
  BY DEF YearStart
<1>6. Leap(y) <=> l4 /\ (~l100 \/ l400)
  BY DEF Leap
<1> HIDE DEF a, b, c, p, q, r, l4, l100, l400
<1>7. CASE l400
  BY <1>1, <1>2, <1>3, <1>4, <1>5, <1>6, <1>7
<1>8. CASE ~l400 /\ l100
  BY <1>1, <1>2, <1>3, <1>4, <1>5, <1>6, <1>8
<1>9. CASE ~l100 /\ l4
  BY <1>1, <1>2, <1>3, <1>4, <1>5, <1>6, <1>9
<1>10. CASE ~l4
  BY <1>1, <1>2, <1>3, <1>4, <1>5, <1>6, <1>10
<1> QED
  BY <1>7, <1>8, <1>9, <1>10

\* The days before a month, one month after the other.
LEMMA Months12 ==
    ASSUME NEW y \in Int, NEW m \in 1..12
    PROVE  /\ DaysBefore(y, m) \in Nat
           /\ m < 12 => DaysBefore(y, m + 1) = DaysBefore(y, m) + DaysIn(y, m)
           /\ m = 12 => DaysBefore(y, m) + DaysIn(y, m) = 365 + (IF Leap(y) THEN 1 ELSE 0)
           /\ m = 1 => DaysBefore(y, m) = 0
<1>1. Leap(y) \in BOOLEAN
  BY DEF Leap
<1>2. CASE m \in 1..3
  BY <1>1, <1>2 DEF DaysBefore, DaysIn
<1>3. CASE m \in 4..6
  BY <1>1, <1>3 DEF DaysBefore, DaysIn
<1>4. CASE m \in 7..9
  BY <1>1, <1>4 DEF DaysBefore, DaysIn
<1>5. CASE m \in 10..12
  BY <1>1, <1>5 DEF DaysBefore, DaysIn
<1> QED
  BY <1>2, <1>3, <1>4, <1>5

\* A carry does not change the day that is meant.
LEMMA SameDay ==
    ASSUME NEW d \in Months
    PROVE  DayNumber(CarryDay(d)) = DayNumber(d)
<1> DEFINE y == d[1]  m == d[2]  k == d[3]  n == DaysIn(y, m)
<1>1. /\ d = <<y, m, k>>
      /\ y \in Int /\ m \in 1..12 /\ k \in Int
  BY DEF Months
<1>2. n \in 28..31
  BY <1>1, MonthsLength
<1>3. DayNumber(d) = YearStart(y) + DaysBefore(y, m) + k
  BY NumberOfDate
<1>4. YearStart(y) \in Int /\ YearStart(y - 1) \in Int /\ YearStart(y + 1) \in Int
  BY <1>1, YearStartType
<1>5. CASE k > n /\ m < 12
  <2> DEFINE u == <<y, m + 1, k - n>>
  <2>1. u \in Months /\ u \in AnyDate /\ u[1] = y /\ u[2] = m + 1 /\ u[3] = k - n
    BY <1>1, <1>2, <1>5 DEF Months, AnyDate
  <2>2. CarryDay(d) = u
    <3>1. CarryDay(d) = CarryMonth(u)
      BY <1>1, <1>2, <1>5 DEF CarryDay
    <3> HIDE DEF u
    <3>2. u[2] \in 1..12
      BY <1>1, <1>5, <2>1
    <3> QED
      BY <2>1, <3>1, <3>2, MonthCarried
  <2> HIDE DEF u
  <2>3. DayNumber(u) = YearStart(y) + DaysBefore(y, m + 1) + (k - n)
    BY <2>1, NumberOfDate
  <2>4. DaysBefore(y, m + 1) = DaysBefore(y, m) + n /\ DaysBefore(y, m) \in Nat
    BY <1>1, <1>5, Months12
  <2> HIDE DEF y, m, k, n
  <2> QED
    BY <1>1, <1>2, <1>3, <1>4, <2>2, <2>3, <2>4
<1>6. CASE k > n /\ m = 12
  <2> DEFINE u == <<y, m + 1, k - n>>
             w == CarryMonth(u)
  <2>1. u \in AnyDate /\ u[1] = y /\ u[2] = 13 /\ u[3] = k - n
    BY <1>1, <1>2, <1>6 DEF AnyDate
  <2>2. CarryDay(d) = w
    BY <1>1, <1>2, <1>6 DEF CarryDay
  <2>3. w = <<y + 1, 1, k - n>>
    <3> HIDE DEF u
    <3>1. w = <<u[1] + ((u[2] - 1) \div 12), ((u[2] - 1) % 12) + 1, u[3]>>
      BY DEF CarryMonth
    <3>2. 12 \div 12 = 1 /\ 12 % 12 = 0
      BY Z3
    <3> QED
      BY <2>1, <3>1, <3>2
  <2> HIDE DEF u, w
  <2>4. w \in Months /\ w[1] = y + 1 /\ w[2] = 1 /\ w[3] = k - n
    BY <1>1, <1>2, <2>3 DEF Months
  <2>5. DayNumber(w) = YearStart(y + 1) + DaysBefore(y + 1, 1) + (k - n)
    BY <2>4, NumberOfDate
  <2>6. DaysBefore(y + 1, 1) = 0
    BY <1>1, Months12
  <2>7. DaysBefore(y, m) + n = 365 + (IF Leap(y) THEN 1 ELSE 0) /\ DaysBefore(y, m) \in Nat
    BY <1>1, <1>6, Months12
  <2>8. YearStart(y + 1) = YearStart(y) + 365 + (IF Leap(y) THEN 1 ELSE 0)
    BY <1>1, YearLength
  <2> HIDE DEF y, m, k, n
  <2> QED
    BY <1>1, <1>2, <1>3, <1>4, <2>2, <2>5, <2>6, <2>7, <2>8
<1>7. CASE k < 1 /\ m > 1
  <2> DEFINE u == <<y, m - 1, 1>>
             v == <<y, m - 1, DaysIn(y, m - 1) + k>>
  <2>1. u \in AnyDate /\ u[1] = y /\ u[2] = m - 1 /\ u[2] \in 1..12
    BY <1>1, <1>7 DEF AnyDate
  <2>2. CarryDay(d) = v
    <3>1. ~(k > n)
      BY <1>1, <1>2, <1>7
    <3>2. CarryDay(d) = FromEnd(CarryMonth(u), k)
      BY <1>1, <1>2, <1>7, <3>1 DEF CarryDay
    <3>3. CarryMonth(u) = u
      <4> HIDE DEF u
      <4> QED
        BY <2>1, MonthCarried
    <3> QED
      BY <3>2, <3>3 DEF FromEnd
  <2>3. DaysIn(y, m - 1) \in 28..31
    BY <1>1, MonthsLength
  <2>4. v \in Months /\ v[1] = y /\ v[2] = m - 1 /\ v[3] = DaysIn(y, m - 1) + k
    BY <1>1, <1>7, <2>3 DEF Months
  <2> HIDE DEF u, v
  <2>5. DayNumber(v) = YearStart(y) + DaysBefore(y, m - 1) + (DaysIn(y, m - 1) + k)
    BY <2>4, NumberOfDate
  <2>6. DaysBefore(y, m) = DaysBefore(y, m - 1) + DaysIn(y, m - 1) /\ DaysBefore(y, m - 1) \in Nat
    <3>1. m - 1 \in 1..12 /\ m - 1 < 12 /\ (m - 1) + 1 = m
      BY <1>1, <1>7
    <3> QED
      BY <1>1, <3>1, Months12
  <2> HIDE DEF y, m, k, n
  <2> QED
    BY <1>1, <1>3, <1>4, <2>2, <2>3, <2>5, <2>6
<1>8. CASE k < 1 /\ m = 1
  <2> DEFINE u == <<y, m - 1, 1>>
             v == <<y - 1, 12, 31 + k>>
  <2>1. u \in AnyDate /\ u[1] = y /\ u[2] = 0 /\ u[3] = 1
    BY <1>1, <1>8 DEF AnyDate
  <2>2. CarryMonth(u) = <<y - 1, 12, 1>>
    <3> HIDE DEF u
    <3>1. CarryMonth(u) = <<u[1] + ((u[2] - 1) \div 12), ((u[2] - 1) % 12) + 1, u[3]>>
      BY DEF CarryMonth
    <3>2. \A i \in Int : i < 0 /\ i >= -12 => i \div 12 = -1 /\ i % 12 = i + 12
      BY Z3
    <3>3. (u[2] - 1) \div 12 = -1 /\ (u[2] - 1) % 12 = (u[2] - 1) + 12
      <4>1. u[2] - 1 \in Int /\ u[2] - 1 < 0 /\ u[2] - 1 >= -12
        BY <2>1
      <4> QED
        BY ONLY <3>2, <4>1, Zenon
    <3>4. u[1] + (-1) = y - 1 /\ ((u[2] - 1) + 12) + 1 = 12
      BY <1>1, <2>1
    <3> QED
      BY <2>1, <3>1, <3>3, <3>4
  <2>3. CarryDay(d) = v
    <3>1. ~(k > n)
      BY <1>1, <1>2, <1>8
    <3>2. CarryDay(d) = FromEnd(CarryMonth(u), k)
      BY <1>1, <1>2, <1>8, <3>1 DEF CarryDay
    <3>3. DaysIn(y - 1, 12) = 31
      BY <1>1, MonthsLength
    <3> HIDE DEF u
    <3> QED
      BY <2>2, <3>2, <3>3 DEF FromEnd
  <2>4. v \in Months /\ v[1] = y - 1 /\ v[2] = 12 /\ v[3] = 31 + k
    BY <1>1 DEF Months
  <2> HIDE DEF u, v
  <2>5. DayNumber(v) = YearStart(y - 1) + DaysBefore(y - 1, 12) + (31 + k)
    BY <2>4, NumberOfDate
  <2>6. DaysBefore(y, m) = 0
    BY <1>1, <1>8, Months12
  <2>7. /\ DaysBefore(y - 1, 12) + 31 = 365 + (IF Leap(y - 1) THEN 1 ELSE 0)
        /\ DaysBefore(y - 1, 12) \in Nat
    BY <1>1, Months12, MonthsLength
  <2>8. YearStart(y) = YearStart(y - 1) + 365 + (IF Leap(y - 1) THEN 1 ELSE 0)
    <3>1. (y - 1) + 1 = y /\ y - 1 \in Int
      BY <1>1
    <3> QED
      BY <3>1, YearLength
  <2> HIDE DEF y, m, k, n
  <2> QED
    BY <1>1, <1>3, <1>4, <2>3, <2>5, <2>6, <2>7, <2>8
<1>9. CASE k \in 1..n
  BY <1>1, <1>2, <1>9 DEF CarryDay
<1> QED
  BY <1>1, <1>2, <1>5, <1>6, <1>7, <1>8, <1>9

\* Nor do all the carries.
LEMMA SameDayNormal ==
    ASSUME NEW d \in AnyDate
    PROVE  DayNumber(NormalizeDate(d)) = DayNumber(d)
<1> DEFINE a == CarryMonth(d)  b == CarryDay(a)  c == CarryDay(b)  e == CarryDay(c)
<1>1. a \in Months /\ DayNumber(a) = DayNumber(d)
  <2>1. a \in Months /\ a[3] = d[3]
    BY MonthCarried
  <2>2. CarryMonth(a) = a
    <3>1. a \in AnyDate /\ a[2] \in 1..12
      BY <2>1 DEF Months, AnyDate
    <3> HIDE DEF a
    <3> QED
      BY <3>1, MonthCarried
  <2> QED
    BY <2>1, <2>2 DEF DayNumber
<1>2. b \in Months /\ DayNumber(b) = DayNumber(a)
  <2> HIDE DEF a
  <2>1. a[3] \in Int /\ a[3] <= a[3]
    BY <1>1 DEF Months
  <2> QED
    BY <1>1, <2>1, DayCarried, SameDay
<1>3. c \in Months /\ DayNumber(c) = DayNumber(b)
  <2> HIDE DEF b
  <2>1. b[3] \in Int /\ b[3] <= b[3]
    BY <1>2 DEF Months
  <2> QED
    BY <1>2, <2>1, DayCarried, SameDay
<1>4. e \in Months /\ DayNumber(e) = DayNumber(c)
  <2> HIDE DEF c
  <2>1. c[3] \in Int /\ c[3] <= c[3]
    BY <1>3 DEF Months
  <2> QED
    BY <1>3, <2>1, DayCarried, SameDay
<1>5. DayNumber(CarryDay(e)) = DayNumber(e)
  <2> HIDE DEF e
  <2> QED
    BY <1>4, SameDay
<1> QED
  BY <1>1, <1>2, <1>3, <1>4, <1>5 DEF NormalizeDate

\* A whole year lies between the starts of two different ones.
LEMMA YearsAscend ==
    ASSUME NEW y \in Int, NEW z \in Int, y < z
    PROVE  YearStart(y) + 365 + (IF Leap(y) THEN 1 ELSE 0) <= YearStart(z)
<1> DEFINE p == z - 1
<1>1. p \in Int /\ y <= p
  OBVIOUS
<1>2. 365 * y + (y \div 4) - (y \div 100) + (y \div 400) <= 365 * p + (p \div 4) - (p \div 100) + (p \div 400)
  <2> HIDE DEF p
  <2>1. y \div 4 <= p \div 4 /\ y \div 4 \in Int /\ p \div 4 \in Int
    BY <1>1, Z3
  <2>2. y \div 400 <= p \div 400 /\ y \div 400 \in Int /\ p \div 400 \in Int
    BY <1>1, Z3
  <2>3. (p \div 100) - (y \div 100) <= p - y /\ y \div 100 \in Int /\ p \div 100 \in Int
    BY <1>1, Z3
  <2> DEFINE a == y \div 4  b == y \div 100  c == y \div 400
             q == p \div 4  r == p \div 100  t == p \div 400
  <2>4. a <= q /\ c <= t /\ r - b <= p - y /\ a \in Int /\ b \in Int /\ c \in Int /\ q \in Int /\ r \in Int /\ t \in Int
    BY <2>1, <2>2, <2>3
  <2> HIDE DEF a, b, c, q, r, t
  <2>5. 365 * y + a - b + c <= 365 * p + q - r + t
    BY <1>1, <2>4
  <2> QED
    BY <2>5 DEF a, b, c, q, r, t
<1>3. YearStart(y + 1) <= YearStart(z)
  <2>1. (y + 1) - 1 = y
    OBVIOUS
  <2> QED
    BY <1>2, <2>1 DEF YearStart
<1>4. YearStart(y + 1) = YearStart(y) + 365 + (IF Leap(y) THEN 1 ELSE 0)
  BY YearLength
<1> QED
  BY <1>3, <1>4

\* A whole month lies between the starts of two different ones.
LEMMA MonthsAscend ==
    ASSUME NEW y \in Int, NEW m \in 1..12, NEW n \in 1..12
    PROVE  /\ m < n => DaysBefore(y, m) + DaysIn(y, m) <= DaysBefore(y, n)
           /\ DaysBefore(y, m) + DaysIn(y, m) <= 365 + (IF Leap(y) THEN 1 ELSE 0)
<1>1. Leap(y) \in BOOLEAN
  BY DEF Leap
<1>2. CASE m \in 1..2
  BY <1>1, <1>2 DEF DaysBefore, DaysIn
<1>3. CASE m \in 3..4
  BY <1>1, <1>3 DEF DaysBefore, DaysIn
<1>4. CASE m \in 5..6
  BY <1>1, <1>4 DEF DaysBefore, DaysIn
<1>5. CASE m \in 7..8
  BY <1>1, <1>5 DEF DaysBefore, DaysIn
<1>6. CASE m \in 9..10
  BY <1>1, <1>6 DEF DaysBefore, DaysIn
<1>7. CASE m \in 11..12
  BY <1>1, <1>7 DEF DaysBefore, DaysIn
<1> QED
  BY <1>2, <1>3, <1>4, <1>5, <1>6, <1>7

\* A later day of the calendar has a greater number.
LEMMA LaterIsMore ==
    ASSUME NEW d \in Date, NEW e \in Date,
           \/ d[1] < e[1]
           \/ d[1] = e[1] /\ d[2] < e[2]
           \/ d[1] = e[1] /\ d[2] = e[2] /\ d[3] < e[3]
    PROVE  DayNumber(d) < DayNumber(e)
<1> DEFINE y == d[1]  m == d[2]  k == d[3]  z == e[1]  n == e[2]  l == e[3]
<1>1. /\ y \in Int /\ m \in 1..12 /\ k \in 1..31 /\ k <= DaysIn(y, m)
      /\ z \in Int /\ n \in 1..12 /\ l \in 1..31
  BY DEF Date
<1>2. /\ DayNumber(d) = YearStart(y) + DaysBefore(y, m) + k
      /\ DayNumber(e) = YearStart(z) + DaysBefore(z, n) + l
  BY DateKept, NumberOfDate
<1>3. /\ YearStart(y) \in Int /\ YearStart(z) \in Int
      /\ DaysBefore(y, m) \in Nat /\ DaysBefore(z, n) \in Nat
      /\ DaysIn(y, m) \in 28..31
  <2> HIDE DEF y, m, k, z, n, l
  <2>1. YearStart(y) \in Int /\ YearStart(z) \in Int
    BY <1>1, YearStartType
  <2>2. DaysBefore(y, m) \in Nat /\ DaysBefore(z, n) \in Nat
    BY <1>1, Months12
  <2>3. DaysIn(y, m) \in 28..31
    BY <1>1, MonthsLength
  <2> QED
    BY <2>1, <2>2, <2>3
<1>4. CASE y < z
  <2>1. YearStart(y) + 365 + (IF Leap(y) THEN 1 ELSE 0) <= YearStart(z)
    BY <1>1, <1>4, YearsAscend
  <2>2. DaysBefore(y, m) + DaysIn(y, m) <= 365 + (IF Leap(y) THEN 1 ELSE 0)
    BY <1>1, MonthsAscend
  <2> HIDE DEF y, m, k, z, n, l
  <2> QED
    BY <1>1, <1>2, <1>3, <2>1, <2>2
<1>5. CASE y = z /\ m < n
  <2>1. DaysBefore(y, m) + DaysIn(y, m) <= DaysBefore(y, n)
    BY <1>1, <1>5, MonthsAscend
  <2> HIDE DEF y, m, k, z, n, l
  <2> QED
    BY <1>1, <1>2, <1>3, <1>5, <2>1
<1>6. CASE y = z /\ m = n /\ k < l
  <2> HIDE DEF y, m, k, z, n, l
  <2> QED
    BY <1>1, <1>2, <1>3, <1>6
<1> QED
  BY <1>4, <1>5, <1>6

\* The order of the strings is that of the days.
LEMMA OrderOfDays ==
    ASSUME NEW d \in Date, NEW e \in Date
    PROVE  AtMost(d, e) <=> DayNumber(d) <= DayNumber(e)
<1>1. /\ d = <<d[1], d[2], d[3]>> /\ d[1] \in Int /\ d[2] \in Int /\ d[3] \in Int
      /\ e = <<e[1], e[2], e[3]>> /\ e[1] \in Int /\ e[2] \in Int /\ e[3] \in Int
  BY DEF Date
<1> DEFINE Less(a, b) == \/ a[1] < b[1]
                         \/ a[1] = b[1] /\ a[2] < b[2]
                         \/ a[1] = b[1] /\ a[2] = b[2] /\ a[3] < b[3]
<1>2. AtMost(d, e) <=> d = e \/ Less(d, e)
  BY <1>1 DEF AtMost
<1>3. d = e \/ Less(d, e) \/ Less(e, d)
  BY <1>1
<1>4. Less(d, e) => DayNumber(d) < DayNumber(e)
  BY LaterIsMore
<1>5. Less(e, d) => DayNumber(e) < DayNumber(d)
  BY LaterIsMore
<1>6. DayNumber(d) \in Int /\ DayNumber(e) \in Int
  <2>1. ASSUME NEW a \in Date
        PROVE  DayNumber(a) \in Int
    <3>1. a[1] \in Int /\ a[2] \in 1..12 /\ a[3] \in Int
      BY DEF Date
    <3>2. DayNumber(a) = YearStart(a[1]) + DaysBefore(a[1], a[2]) + a[3]
      BY DateKept, NumberOfDate
    <3>3. YearStart(a[1]) \in Int
      BY <3>1, YearStartType
    <3>4. DaysBefore(a[1], a[2]) \in Nat
      BY <3>1, Months12
    <3> QED
      BY <3>1, <3>2, <3>3, <3>4
  <2> QED
    BY <2>1
<1>7. ~(Less(d, e) /\ Less(e, d)) /\ (d = e => ~Less(d, e))
  BY <1>1
<1> HIDE DEF Less
<1> QED
  BY <1>2, <1>3, <1>4, <1>5, <1>6, <1>7

\* For truth values.
LEMMA Equal ==
    ASSUME NEW a \in BOOLEAN, NEW b \in BOOLEAN, a <=> b
    PROVE  a = b
  OBVIOUS

\* No date that can be written is misdated.
LEMMA NoneMisdated == Misdated = {}
<1>1. ASSUME NEW d \in Dates
      PROVE  AtMost(NormalizeDate(d), Today) = (DayNumber(d) <= DayNumber(Today))
  <2>1. Dates \subseteq Written
    BY TodoAssumption, Zenon
  <2>2. d \in AnyDate /\ d[3] \in 0..99
    BY <1>1, <2>1, WrittenFacts
  <2>3. NormalizeDate(d) \in Date /\ Today \in Date
    BY <2>2, NormalIsDate, TasksAssumption
  <2>4. AtMost(NormalizeDate(d), Today) <=> DayNumber(NormalizeDate(d)) <= DayNumber(Today)
    BY <2>3, OrderOfDays
  <2>5. DayNumber(NormalizeDate(d)) = DayNumber(d)
    BY <2>2, SameDayNormal
  <2>7. AtMost(NormalizeDate(d), Today) <=> DayNumber(d) <= DayNumber(Today)
    BY ONLY <2>4, <2>5, Zenon
  <2>6. AtMost(NormalizeDate(d), Today) \in BOOLEAN /\ (DayNumber(d) <= DayNumber(Today)) \in BOOLEAN
    BY DEF AtMost
  <2> QED
    BY <2>6, <2>7, Equal
<1> QED
  BY <1>1, Zenon DEF Misdated

-----------------------------------------------------------------------------
(***************************************************************************)
(* The loops over lines and messages are recursive functions over their    *)
(* positions.  That there is one with the defining equation is shown for   *)
(* longer and longer parts.                                                *)
(***************************************************************************)
LEMMA Least ==
    ASSUME NEW S \in SUBSET Nat, S # {}
    PROVE  \E k \in S : \A j \in S : k <= j
<1>1. PICK k \in S : \A j \in S : <<j, k>> \notin OpToRel(<, Nat)
  BY NatLessThanWellFounded, WFMin
<1>2. \A j \in S : ~(j < k)
  BY <1>1 DEF OpToRel
<1>. QED  BY <1>2

NoneYet(tasks) == [ready |-> Ready0(tasks), backlog |-> FALSE, active |-> <<>>]
AfterOf(tasks, f, i) == IF i = 0 THEN NoneYet(tasks) ELSE Consider(f[i - 1], tasks[i])
DueOf(tasks, f, i) ==
    IF i = 0 THEN <<>> ELSE IF Due(tasks, i) THEN Append(f[i - 1], tasks[i].task) ELSE f[i - 1]
NoTitles == [seen |-> FALSE, titles |-> [t \in {} |-> FALSE]]
TitlesOf(box, f, i) == IF i = 0 THEN NoTitles ELSE Record(f[i - 1], box[i])

After(tasks) == CHOOSE f : f = [i \in 0..Len(tasks) |-> AfterOf(tasks, f, i)]
Upto(tasks)  == CHOOSE f : f = [i \in 0..Len(tasks) |-> DueOf(tasks, f, i)]
Read(box)    == CHOOSE f : f = [i \in 0..Len(box) |-> TitlesOf(box, f, i)]

\* After has its equation at every line.
LEMMA AfterFacts ==
    ASSUME NEW tasks, Len(tasks) \in Nat
    PROVE  /\ \A i \in 0..Len(tasks) : After(tasks)[i] = AfterOf(tasks, After(tasks), i)
           /\ ActiveTasks(tasks) = After(tasks)[Len(tasks)].active
<1> DEFINE n == Len(tasks)
           Is(f, k) == f = [i \in 0..k |-> AfterOf(tasks, f, i)]
           Bad == {k \in 0..n : \A f : ~Is(f, k)}
<1>1. Bad = {}
  <2> SUFFICES ASSUME Bad # {} PROVE FALSE
    OBVIOUS
  <2>1. PICK k \in Bad : \A j \in Bad : k <= j
    <3>1. Bad \in SUBSET Nat
      OBVIOUS
    <3> HIDE DEF Bad
    <3> QED
      BY <3>1, Least
  <2>2. CASE k = 0
    <3>1. Is([i \in 0..0 |-> NoneYet(tasks)], k)
      BY <2>2 DEF AfterOf
    <3> QED
      BY <2>1, <3>1
  <2>3. CASE k # 0
    <3>1. k \in 0..n /\ k - 1 \in 0..n /\ k - 1 \notin Bad
      <4> HIDE DEF Is
      <4>1. k \in 0..n /\ k - 1 \in 0..n
        BY <2>3
      <4>2. k - 1 \in Bad => k <= k - 1
        BY <2>1
      <4> HIDE DEF Bad
      <4> QED
        BY <4>1, <4>2
    <3>2. PICK f : Is(f, k - 1)
      BY <3>1
    <3> DEFINE g == [i \in 0..k |-> AfterOf(tasks, f, i)]
    <3>3. \A i \in 0..k - 1 : g[i] = f[i]
      BY <3>1, <3>2
    <3>4. ASSUME NEW i \in 0..k
          PROVE  AfterOf(tasks, f, i) = AfterOf(tasks, g, i)
      <4>1. CASE i = 0
        BY <4>1 DEF AfterOf
      <4>2. CASE i # 0
        <5>1. i - 1 \in 0..k - 1
          BY <3>1, <4>2
        <5> HIDE DEF g
        <5>2. g[i - 1] = f[i - 1]
          BY <3>3, <5>1
        <5> QED
          BY <5>2 DEF AfterOf
      <4> QED
        BY <4>1, <4>2
    <3>5. Is(g, k)
      BY <3>4
    <3> QED
      BY <2>1, <3>5
  <2> QED
    BY <2>2, <2>3
<1>2. PICK f : Is(f, n)
  <2>1. n \in 0..n
    OBVIOUS
  <2> HIDE DEF Is
  <2> QED
    BY <1>1, <2>1
<1>3. Is(After(tasks), n)
  BY <1>2 DEF After
<1>4. ActiveTasks(tasks) = After(tasks)[n].active
  BY DEF ActiveTasks, After, AfterOf, NoneYet
<1> QED
  BY <1>3, <1>4

\* So has Upto.
LEMMA UptoFacts ==
    ASSUME NEW tasks, Len(tasks) \in Nat
    PROVE  /\ \A i \in 0..Len(tasks) : Upto(tasks)[i] = DueOf(tasks, Upto(tasks), i)
           /\ DueTasks(tasks) = Upto(tasks)[Len(tasks)]
<1> DEFINE n == Len(tasks)
           Is(f, k) == f = [i \in 0..k |-> DueOf(tasks, f, i)]
           Bad == {k \in 0..n : \A f : ~Is(f, k)}
<1>1. Bad = {}
  <2> SUFFICES ASSUME Bad # {} PROVE FALSE
    OBVIOUS
  <2>1. PICK k \in Bad : \A j \in Bad : k <= j
    <3>1. Bad \in SUBSET Nat
      OBVIOUS
    <3> HIDE DEF Bad
    <3> QED
      BY <3>1, Least
  <2>2. CASE k = 0
    <3>1. Is([i \in 0..0 |-> <<>>], k)
      BY <2>2 DEF DueOf
    <3> QED
      BY <2>1, <3>1
  <2>3. CASE k # 0
    <3>1. k \in 0..n /\ k - 1 \in 0..n /\ k - 1 \notin Bad
      <4> HIDE DEF Is
      <4>1. k \in 0..n /\ k - 1 \in 0..n
        BY <2>3
      <4>2. k - 1 \in Bad => k <= k - 1
        BY <2>1
      <4> HIDE DEF Bad
      <4> QED
        BY <4>1, <4>2
    <3>2. PICK f : Is(f, k - 1)
      BY <3>1
    <3> DEFINE g == [i \in 0..k |-> DueOf(tasks, f, i)]
    <3>3. \A i \in 0..k - 1 : g[i] = f[i]
      BY <3>1, <3>2
    <3>4. ASSUME NEW i \in 0..k
          PROVE  DueOf(tasks, f, i) = DueOf(tasks, g, i)
      <4>1. CASE i = 0
        BY <4>1 DEF DueOf
      <4>2. CASE i # 0
        <5>1. i - 1 \in 0..k - 1
          BY <3>1, <4>2
        <5> HIDE DEF g
        <5>2. g[i - 1] = f[i - 1]
          BY <3>3, <5>1
        <5> QED
          BY <5>2 DEF DueOf
      <4> QED
        BY <4>1, <4>2
    <3>5. Is(g, k)
      BY <3>4
    <3> QED
      BY <2>1, <3>5
  <2> QED
    BY <2>2, <2>3
<1>2. PICK f : Is(f, n)
  <2>1. n \in 0..n
    OBVIOUS
  <2> HIDE DEF Is
  <2> QED
    BY <1>1, <2>1
<1>3. Is(Upto(tasks), n)
  BY <1>2 DEF Upto
<1>4. DueTasks(tasks) = Upto(tasks)[n]
  BY DEF DueTasks, Upto, DueOf
<1> QED
  BY <1>3, <1>4

\* And Read at every message.
LEMMA ReadFacts ==
    ASSUME NEW box, Len(box) \in Nat
    PROVE  /\ \A i \in 0..Len(box) : Read(box)[i] = TitlesOf(box, Read(box), i)
           /\ Titles(box) = Read(box)[Len(box)].titles
<1> DEFINE n == Len(box)
           Is(f, k) == f = [i \in 0..k |-> TitlesOf(box, f, i)]
           Bad == {k \in 0..n : \A f : ~Is(f, k)}
<1>1. Bad = {}
  <2> SUFFICES ASSUME Bad # {} PROVE FALSE
    OBVIOUS
  <2>1. PICK k \in Bad : \A j \in Bad : k <= j
    <3>1. Bad \in SUBSET Nat
      OBVIOUS
    <3> HIDE DEF Bad
    <3> QED
      BY <3>1, Least
  <2>2. CASE k = 0
    <3>1. Is([i \in 0..0 |-> NoTitles], k)
      BY <2>2 DEF TitlesOf
    <3> QED
      BY <2>1, <3>1
  <2>3. CASE k # 0
    <3>1. k \in 0..n /\ k - 1 \in 0..n /\ k - 1 \notin Bad
      <4> HIDE DEF Is
      <4>1. k \in 0..n /\ k - 1 \in 0..n
        BY <2>3
      <4>2. k - 1 \in Bad => k <= k - 1
        BY <2>1
      <4> HIDE DEF Bad
      <4> QED
        BY <4>1, <4>2
    <3>2. PICK f : Is(f, k - 1)
      BY <3>1
    <3> DEFINE g == [i \in 0..k |-> TitlesOf(box, f, i)]
    <3>3. \A i \in 0..k - 1 : g[i] = f[i]
      BY <3>1, <3>2
    <3>4. ASSUME NEW i \in 0..k
          PROVE  TitlesOf(box, f, i) = TitlesOf(box, g, i)
      <4>1. CASE i = 0
        BY <4>1 DEF TitlesOf
      <4>2. CASE i # 0
        <5>1. i - 1 \in 0..k - 1
          BY <3>1, <4>2
        <5> HIDE DEF g
        <5>2. g[i - 1] = f[i - 1]
          BY <3>3, <5>1
        <5> QED
          BY <5>2 DEF TitlesOf
      <4> QED
        BY <4>1, <4>2
    <3>5. Is(g, k)
      BY <3>4
    <3> QED
      BY <2>1, <3>5
  <2> QED
    BY <2>2, <2>3
<1>2. PICK f : Is(f, n)
  <2>1. n \in 0..n
    OBVIOUS
  <2> HIDE DEF Is
  <2> QED
    BY <1>1, <2>1
<1>3. Is(Read(box), n)
  BY <1>2 DEF Read
<1>4. Titles(box) = Read(box)[n].titles
  BY DEF Titles, Read, TitlesOf, NoTitles
<1> QED
  BY <1>3, <1>4

-----------------------------------------------------------------------------
(* Readiness.                                                              *)

Proper(tasks) == IsInjective([i \in DOMAIN tasks |-> tasks[i].task])

\* What is known after the first i lines.
Known(tasks, i) ==
    LET acc == After(tasks)[i] IN
    /\ \A t : t \in DOMAIN acc.ready <=>
           \/ t \in {tasks[j].task : j \in DOMAIN tasks} \ Subtask
           \/ \E j \in 1..i : tasks[j].blockers # <<>> /\ tasks[j].task = t
    /\ \A j \in i + 1..Len(tasks) : tasks[j].task \in DOMAIN acc.ready =>
           acc.ready[tasks[j].task] = (tasks[j].file = "todo")
    /\ acc.backlog = (\E j \in 1..i : OnBacklog(tasks[j]) /\ Clear(tasks, j))
    /\ acc.active = Upto(tasks)[i]

\* Before the first line the names without a dot are known.
LEMMA KnownFirst ==
    ASSUME NEW tasks \in Seq(Task), Proper(tasks)
    PROVE  Known(tasks, 0)
<1>1. Len(tasks) \in Nat /\ DOMAIN tasks = 1..Len(tasks)
  BY LenProperties
<1>2. After(tasks)[0] = NoneYet(tasks) /\ Upto(tasks)[0] = <<>>
  BY <1>1, AfterFacts, UptoFacts DEF AfterOf, DueOf
<1>3. ASSUME NEW j \in 1..Len(tasks), tasks[j].task \in DOMAIN Ready0(tasks)
      PROVE  Ready0(tasks)[tasks[j].task] = (tasks[j].file = "todo")
  <2>1. \A i \in 1..Len(tasks) : tasks[i].task = tasks[j].task => i = j
    BY <1>1 DEF Proper, IsInjective
  <2>2. Ready0(tasks)[tasks[j].task] =
          \E i \in 1..Len(tasks) :
              /\ tasks[i].task = tasks[j].task /\ tasks[i].file = "todo"
              /\ \A k \in 1..Len(tasks) : tasks[k].task = tasks[j].task => k <= i
    BY <1>1, <1>3 DEF Ready0
  <2>3. (\E i \in 1..Len(tasks) :
              /\ tasks[i].task = tasks[j].task /\ tasks[i].file = "todo"
              /\ \A k \in 1..Len(tasks) : tasks[k].task = tasks[j].task => k <= i)
        <=> tasks[j].file = "todo"
    BY <2>1
  <2> QED
    BY <2>2, <2>3
<1>4. \A t : t \in DOMAIN Ready0(tasks) <=> t \in {tasks[j].task : j \in DOMAIN tasks} \ Subtask
  BY DEF Ready0
<1> QED
  BY <1>1, <1>2, <1>3, <1>4 DEF Known, NoneYet

\* One line more.
LEMMA KnownNext ==
    ASSUME NEW tasks \in Seq(Task), Proper(tasks), NEW i \in 1..Len(tasks), Known(tasks, i - 1)
    PROVE  Known(tasks, i)
<1> DEFINE acc == After(tasks)[i - 1]
           nxt == After(tasks)[i]
           l   == tasks[i]
           earlier == \E j \in 1..i - 1 : OnBacklog(tasks[j]) /\ Clear(tasks, j)
<1>1. /\ Len(tasks) \in Nat /\ DOMAIN tasks = 1..Len(tasks) /\ i \in Nat /\ i # 0
      /\ i \in 0..Len(tasks) /\ l \in Task
  BY LenProperties, ElementOfSeq
<1>2. nxt = Consider(acc, l)
  BY <1>1, AfterFacts DEF AfterOf
<1>3. Upto(tasks)[i] = IF Due(tasks, i) THEN Append(Upto(tasks)[i - 1], l.task) ELSE Upto(tasks)[i - 1]
  BY <1>1, UptoFacts DEF DueOf
<1>4. /\ \A t : t \in DOMAIN acc.ready <=>
           \/ t \in {tasks[j].task : j \in DOMAIN tasks} \ Subtask
           \/ \E j \in 1..i - 1 : tasks[j].blockers # <<>> /\ tasks[j].task = t
      /\ \A j \in i..Len(tasks) : tasks[j].task \in DOMAIN acc.ready =>
           acc.ready[tasks[j].task] = (tasks[j].file = "todo")
      /\ acc.backlog = earlier
      /\ acc.active = Upto(tasks)[i - 1]
  BY <1>1 DEF Known
<1>5. \A j \in 1..Len(tasks) : tasks[j].task = l.task => j = i
  BY <1>1 DEF Proper, IsInjective
<1>6. l.task \in {tasks[j].task : j \in DOMAIN tasks}
  BY <1>1
<1>7. Free(acc, l) <=> Clear(tasks, i)
  <2>1. \A t : t \in DOMAIN acc.ready <=> t \in Present(tasks, i)
    <3> HIDE DEF acc
    <3> QED
      BY <1>4 DEF Present
  <2>2. ASSUME NEW b \in Range(l.blockers)
        PROVE  Holds(acc.ready, b) <=> \/ b[1] = "date" /\ ~AtMost(b[2], Today)
                                       \/ b[1] = "task" /\ b[2] \in Present(tasks, i)
    <3> HIDE DEF acc, l
    <3> QED
      BY <2>1 DEF Holds
  <2> HIDE DEF acc
  <2> QED
    BY <2>2 DEF Free, Clear
<1>8. Free(acc, l) \in BOOLEAN /\ OnBacklog(l) \in BOOLEAN /\ earlier \in BOOLEAN /\ Clear(tasks, i) \in BOOLEAN
  BY DEF Free, OnBacklog, Clear
<1>9. ReadyNow(acc, l) = (Clear(tasks, i) /\ ~(OnBacklog(l) /\ earlier))
  BY <1>4, <1>7, <1>8 DEF ReadyNow
<1>10. l.blockers # <<>> => (Due(tasks, i) <=> ReadyNow(acc, l))
  BY <1>8, <1>9 DEF Due
<1>11. l.blockers = <<>> => ~OnBacklog(l)
  BY DEF OnBacklog, Range
<1>12. Shown(SetNow(acc, l), l.task) <=> Due(tasks, i)
  <2>1. CASE l.blockers = <<>>
    <3>1. SetNow(acc, l) = acc.ready
      BY <2>1 DEF SetNow
    <3>2. l.task \in DOMAIN acc.ready <=> l.task \notin Subtask
      <4>1. ~\E j \in 1..i - 1 : tasks[j].blockers # <<>> /\ tasks[j].task = l.task
        BY <1>1, <1>5
      <4> QED
        BY <1>4, <1>6, <4>1
    <3>3. l.task \in DOMAIN acc.ready => acc.ready[l.task] = (l.file = "todo")
      BY <1>1, <1>4
    <3> HIDE DEF acc
    <3> QED
      BY <2>1, <3>1, <3>2, <3>3 DEF Shown, Due
  <2>2. CASE l.blockers # <<>>
    <3>1. SetNow(acc, l) = SetReady(acc.ready, l.task, ReadyNow(acc, l))
      BY <2>2 DEF SetNow
    <3>2. l.task \in DOMAIN SetNow(acc, l) /\ SetNow(acc, l)[l.task] = ReadyNow(acc, l)
      BY <3>1 DEF SetReady
    <3> HIDE DEF acc, l
    <3> QED
      BY <1>10, <2>2, <3>2 DEF Shown, l
  <2> QED
    BY <2>1, <2>2
<1>13. /\ nxt.ready = SetNow(acc, l)
       /\ nxt.backlog = (acc.backlog \/ (Free(acc, l) /\ OnBacklog(l)))
       /\ nxt.active = IF Shown(SetNow(acc, l), l.task) THEN Append(acc.active, l.task) ELSE acc.active
  BY <1>2 DEF Consider
<1>14. nxt.active = Upto(tasks)[i]
  <2> HIDE DEF acc, l, nxt
  <2> QED
    BY <1>3, <1>4, <1>12, <1>13
<1>15. nxt.backlog = (\E j \in 1..i : OnBacklog(tasks[j]) /\ Clear(tasks, j))
  <2>1. (\E j \in 1..i : OnBacklog(tasks[j]) /\ Clear(tasks, j))
          <=> earlier \/ (OnBacklog(l) /\ Clear(tasks, i))
    BY <1>1
  <2> HIDE DEF nxt, acc, l, earlier
  <2> QED
    BY <1>4, <1>7, <1>8, <1>13, <2>1
<1>16. \A t : t \in DOMAIN nxt.ready <=>
           \/ t \in {tasks[j].task : j \in DOMAIN tasks} \ Subtask
           \/ \E j \in 1..i : tasks[j].blockers # <<>> /\ tasks[j].task = t
  <2>1. \A t : t \in DOMAIN nxt.ready <=> t \in DOMAIN acc.ready \/ (l.blockers # <<>> /\ t = l.task)
    <3> HIDE DEF acc, l, nxt
    <3> QED
      BY <1>13 DEF SetNow, SetReady
  <2>2. ASSUME NEW t
        PROVE  (\E j \in 1..i : tasks[j].blockers # <<>> /\ tasks[j].task = t)
               <=> \/ \E j \in 1..i - 1 : tasks[j].blockers # <<>> /\ tasks[j].task = t
                   \/ l.blockers # <<>> /\ t = l.task
    BY <1>1
  <2> HIDE DEF acc, l, nxt
  <2> QED
    BY <1>4, <2>1, <2>2
<1>17. ASSUME NEW j \in i + 1..Len(tasks), tasks[j].task \in DOMAIN nxt.ready
       PROVE  nxt.ready[tasks[j].task] = (tasks[j].file = "todo")
  <2>1. j \in 1..Len(tasks) /\ j # i /\ j \in i..Len(tasks)
    BY <1>1
  <2>2. tasks[j].task # l.task
    BY <1>5, <2>1
  <2>3. tasks[j].task \in DOMAIN acc.ready /\ nxt.ready[tasks[j].task] = acc.ready[tasks[j].task]
    <3> HIDE DEF acc, l, nxt
    <3> QED
      BY <1>13, <1>17, <2>2 DEF SetNow, SetReady
  <2> QED
    BY <1>4, <2>1, <2>3
<1> QED
  BY <1>14, <1>15, <1>16, <1>17 DEF Known

\* No list is wrong.
LEMMA NoWrongLists == WrongLists = {}
<1>1. ASSUME NEW l \in TaskLists, Proper(l)
      PROVE  ActiveTasks(l) = DueTasks(l)
  <2>1. l \in Seq(Task)
    BY TodoAssumption, Zenon
  <2>2. Len(l) \in Nat
    BY <2>1, LenProperties
  <2> DEFINE Bad == {i \in 0..Len(l) : ~Known(l, i)}
  <2>3. Bad = {}
    <3> SUFFICES ASSUME Bad # {} PROVE FALSE
      OBVIOUS
    <3>1. PICK k \in Bad : \A j \in Bad : k <= j
      <4>1. Bad \in SUBSET Nat
        BY <2>2
      <4> HIDE DEF Bad
      <4> QED
        BY <4>1, Least
    <3>2. k # 0
      BY <1>1, <2>1, <3>1, KnownFirst
    <3>3. k \in 1..Len(l) /\ k - 1 \in 0..Len(l)
      BY <2>2, <3>1, <3>2
    <3>4. Known(l, k - 1)
      <4>1. k - 1 \in Bad => k <= k - 1
        BY <3>1
      <4> HIDE DEF Bad
      <4>2. k - 1 \notin Bad
        BY <3>3, <4>1
      <4> QED
        BY <3>3, <4>2 DEF Bad
    <3> QED
      BY <1>1, <2>1, <3>1, <3>3, <3>4, KnownNext
  <2>4. Known(l, Len(l))
    BY <2>2, <2>3
  <2> QED
    BY <2>2, <2>4, AfterFacts, UptoFacts DEF Known
<1> QED
  BY <1>1 DEF WrongLists, Proper

-----------------------------------------------------------------------------
(* Mailboxes.                                                              *)

AllSeen(box, i, t) == \A k \in 1..i : box[k].title = t => box[k].seen

\* What is recorded after the first i messages.
Recorded(box, i) ==
    LET acc == Read(box)[i] IN
    /\ "seen" \in DOMAIN acc /\ "titles" \in DOMAIN acc /\ acc.seen = FALSE
    /\ "" \notin DOMAIN acc.titles
    /\ \A j \in 1..i : box[j].title # "" => box[j].title \in DOMAIN acc.titles
    /\ \A t \in DOMAIN acc.titles : acc.titles[t] = AllSeen(box, i, t)

\* A position and those before it.
LEMMA Positions ==
    ASSUME NEW n \in Nat, NEW i \in 1..n
    PROVE  /\ i \in Nat /\ i # 0 /\ i \in 0..n /\ i \in 1..i
           /\ \A j \in 1..i : j \in 1..i - 1 \/ j = i
           /\ \A j \in 1..i - 1 : j \in 1..i
  OBVIOUS

\* One message more.
LEMMA RecordedNext ==
    ASSUME NEW box \in Seq(Message), \A j \in DOMAIN box : box[j].title = "" => ~box[j].seen,
           NEW i \in 1..Len(box), Recorded(box, i - 1)
    PROVE  Recorded(box, i)
<1> DEFINE acc == Read(box)[i - 1]
           nxt == Read(box)[i]
           m   == box[i]
<1>1. /\ Len(box) \in Nat /\ DOMAIN box = 1..Len(box) /\ i \in Nat /\ i # 0
      /\ i \in 0..Len(box) /\ i \in 1..i /\ m \in Message /\ (m.title = "" => ~m.seen)
  <2>1. Len(box) \in Nat /\ DOMAIN box = 1..Len(box)
    BY LenProperties
  <2>2. i \in Nat /\ i # 0 /\ i \in 0..Len(box) /\ i \in 1..i
    BY <2>1, Positions, Zenon
  <2>3. m \in Message
    BY ElementOfSeq
  <2> QED
    BY <2>1, <2>2, <2>3
<1>2. nxt = Record(acc, m)
  BY <1>1, ReadFacts DEF TitlesOf
<1>3. /\ "seen" \in DOMAIN acc /\ "titles" \in DOMAIN acc /\ acc.seen = FALSE
      /\ "" \notin DOMAIN acc.titles
      /\ \A j \in 1..i - 1 : box[j].title # "" => box[j].title \in DOMAIN acc.titles
      /\ \A t \in DOMAIN acc.titles : acc.titles[t] = AllSeen(box, i - 1, t)
  BY DEF Recorded
<1>4. \A j \in 1..i : j \in 1..i - 1 \/ j = i
  BY <1>1, Positions, Zenon
<1>5. ASSUME NEW t
      PROVE  AllSeen(box, i, t) = (AllSeen(box, i - 1, t) /\ (m.title = t => m.seen))
  <2>1. \A k \in 1..i - 1 : k \in 1..i
    BY <1>1, Positions, Zenon
  <2>2. AllSeen(box, i, t) <=> AllSeen(box, i - 1, t) /\ (m.title = t => m.seen)
    BY <1>1, <1>4, <2>1, Zenon DEF AllSeen
  <2>3. AllSeen(box, i, t) \in BOOLEAN /\ (AllSeen(box, i - 1, t) /\ (m.title = t => m.seen)) \in BOOLEAN
    BY DEF AllSeen
  <2> QED
    BY <2>2, <2>3, Equal
<1>6. Seen(acc, m) = m.seen
  <2>1. m.seen \in BOOLEAN
    BY <1>1 DEF Message
  <2> HIDE DEF acc, m
  <2> QED
    BY <1>3, <2>1 DEF Seen
<1>7. CASE m.title = ""
  <2>1. nxt = [acc EXCEPT !.seen = Seen(acc, m)]
    BY <1>2, <1>7 DEF Record
  <2>2. m.seen = FALSE
    BY <1>1, <1>7 DEF Message
  <2>3. /\ "seen" \in DOMAIN nxt /\ "titles" \in DOMAIN nxt
        /\ nxt.seen = FALSE /\ nxt.titles = acc.titles
    <3> HIDE DEF acc, nxt, m
    <3> QED
      BY <1>3, <1>6, <2>1, <2>2
  <2>4. \A t \in DOMAIN acc.titles : AllSeen(box, i, t) = AllSeen(box, i - 1, t)
    <3> HIDE DEF acc
    <3>1. \A t \in DOMAIN acc.titles : m.title # t
      BY <1>3, <1>7
    <3>2. \A t : AllSeen(box, i - 1, t) \in BOOLEAN
      BY DEF AllSeen
    <3> QED
      BY <1>5, <3>1, <3>2
  <2> HIDE DEF acc, nxt
  <2> QED
    BY <1>3, <1>4, <1>7, <2>3, <2>4 DEF Recorded, acc, nxt
<1>8. CASE m.title # ""
  <2> DEFINE told == [t \in DOMAIN acc.titles \cup {m.title} |->
                       IF t # m.title THEN acc.titles[t]
                       ELSE Seen(acc, m) /\ (t \in DOMAIN acc.titles => acc.titles[t])]
  <2>1. nxt = [seen |-> FALSE, titles |-> told]
    BY <1>2, <1>8 DEF Record
  <2>2. /\ "seen" \in DOMAIN nxt /\ "titles" \in DOMAIN nxt
        /\ nxt.seen = FALSE /\ nxt.titles = told
    <3> HIDE DEF nxt, told
    <3> QED
      BY <2>1
  <2>3. DOMAIN nxt.titles = DOMAIN acc.titles \cup {m.title}
    BY <2>2
  <2>4. \A j \in 1..i : box[j].title # "" => box[j].title \in DOMAIN nxt.titles
    <3> HIDE DEF nxt, acc
    <3> QED
      BY <1>3, <1>4, <2>3
  <2>5. ASSUME NEW t \in DOMAIN nxt.titles
        PROVE  nxt.titles[t] = AllSeen(box, i, t)
    <3>1. AllSeen(box, i - 1, t) \in BOOLEAN /\ m.seen \in BOOLEAN
      BY <1>1 DEF AllSeen, Message
    <3>2. CASE t # m.title
      <4>1. t \in DOMAIN acc.titles /\ nxt.titles[t] = acc.titles[t]
        BY <2>2, <2>3, <2>5, <3>2
      <4> HIDE DEF nxt, acc, m
      <4> QED
        BY <1>3, <1>5, <3>1, <3>2, <4>1
    <3>3. CASE t = m.title
      <4>1. nxt.titles[t] = (m.seen /\ (t \in DOMAIN acc.titles => acc.titles[t]))
        <5> HIDE DEF nxt, acc, m
        <5> QED
          BY <1>6, <2>2, <2>5, <2>3, <3>3
      <4>2. t \notin DOMAIN acc.titles => AllSeen(box, i - 1, t)
        <5> HIDE DEF acc
        <5> QED
          BY <1>3, <1>8, <3>3 DEF AllSeen
      <4> HIDE DEF nxt, acc, m
      <4>3. (t \in DOMAIN acc.titles => acc.titles[t]) <=> AllSeen(box, i - 1, t)
        BY <1>3, <4>2, Zenon
      <4>4. nxt.titles[t] <=> AllSeen(box, i, t)
        BY <1>5, <3>1, <3>3, <4>1, <4>3, Zenon
      <4>5. nxt.titles[t] \in BOOLEAN /\ AllSeen(box, i, t) \in BOOLEAN
        BY <3>1, <4>1 DEF AllSeen
      <4> QED
        BY <4>4, <4>5, Equal
    <3> QED
      BY <3>2, <3>3
  <2>6. "" \notin DOMAIN nxt.titles
    <3> HIDE DEF nxt, acc, m
    <3> QED
      BY <1>3, <1>8, <2>3
  <2> HIDE DEF nxt, told
  <2> QED
    BY <2>2, <2>4, <2>5, <2>6 DEF Recorded, nxt
<1> QED
  BY <1>7, <1>8

\* No mailbox is misread.
LEMMA NoneMisread == Misread = {}
<1>1. ASSUME NEW box \in Mailboxes, \A j \in DOMAIN box : box[j].title = "" => ~box[j].seen
      PROVE  Recorded(box, Len(box)) /\ DOMAIN box = 1..Len(box) /\ Titles(box) = Read(box)[Len(box)].titles
  <2>1. box \in Seq(Message)
    BY TodoAssumption, Zenon
  <2>2. Len(box) \in Nat /\ DOMAIN box = 1..Len(box)
    BY <2>1, LenProperties
  <2> DEFINE Bad == {i \in 0..Len(box) : ~Recorded(box, i)}
  <2>3. Bad = {}
    <3> SUFFICES ASSUME Bad # {} PROVE FALSE
      OBVIOUS
    <3>1. PICK k \in Bad : \A j \in Bad : k <= j
      <4>1. Bad \in SUBSET Nat
        BY <2>2
      <4> HIDE DEF Bad
      <4> QED
        BY <4>1, Least
    <3>2. k # 0
      <4>1. Read(box)[0] = NoTitles
        BY <2>2, ReadFacts DEF TitlesOf
      <4>2. /\ "seen" \in DOMAIN NoTitles /\ "titles" \in DOMAIN NoTitles
            /\ NoTitles.seen = FALSE /\ DOMAIN NoTitles.titles = {}
        BY DEF NoTitles
      <4>3. \A j \in 1..0 : FALSE
        OBVIOUS
      <4>4. Recorded(box, 0)
        BY <4>1, <4>2, <4>3, Zenon DEF Recorded
      <4> QED
        BY <3>1, <4>4
    <3>3. k \in 1..Len(box) /\ k - 1 \in 0..Len(box)
      BY <2>2, <3>1, <3>2
    <3>4. Recorded(box, k - 1)
      <4>1. k - 1 \in Bad => k <= k - 1
        BY <3>1
      <4> HIDE DEF Bad
      <4>2. k - 1 \notin Bad
        BY <3>3, <4>1
      <4> QED
        BY <3>3, <4>2 DEF Bad
    <3> QED
      BY <1>1, <2>1, <3>1, <3>3, <3>4, RecordedNext
  <2>4. Recorded(box, Len(box))
    BY <2>2, <2>3
  <2> QED
    BY <2>2, <2>4, ReadFacts
<1>2. ASSUME NEW box \in Mailboxes, \A j \in DOMAIN box : box[j].title = "" => ~box[j].seen,
             NEW i \in DOMAIN box, box[i].title # ""
      PROVE  Titles(box)[box[i].title] = (\A j \in DOMAIN box : box[j].title = box[i].title => box[j].seen)
  <2>0. Recorded(box, Len(box)) /\ i \in 1..Len(box) /\ Titles(box) = Read(box)[Len(box)].titles
    BY <1>1, <1>2
  <2>1. box[i].title \in DOMAIN Titles(box)
    BY <1>2, <2>0 DEF Recorded
  <2>2. Titles(box)[box[i].title] = AllSeen(box, Len(box), box[i].title)
    BY <2>0, <2>1 DEF Recorded
  <2> QED
    BY <1>1, <1>2, <2>2 DEF AllSeen
<1> QED
  BY <1>2, Zenon DEF Misread

-----------------------------------------------------------------------------
(***************************************************************************)
(* The files.  A line as it is read or has been rewritten; rewriting it    *)
(* again changes nothing.                                                  *)
(***************************************************************************)
AnyBlocker == Blocker \cup ({"date"} \X Date)
AnyLine    == [task : STRING \cup {NoTask}, blockers : Seq(AnyBlocker)]

\* The date of a blocker.
LEMMA BlockerTwice ==
    ASSUME NEW b \in AnyBlocker
    PROVE  /\ NormalizeBlocker(b) \in AnyBlocker
           /\ NormalizeBlocker(NormalizeBlocker(b)) = NormalizeBlocker(b)
<1>1. ASSUME NEW d \in Date
      PROVE  /\ <<"date", d>> \in AnyBlocker
             /\ NormalizeBlocker(<<"date", d>>) = <<"date", d>>
  <2>1. NormalizeDate(d) = d
    BY NormalKept
  <2> QED
    BY <2>1 DEF AnyBlocker, NormalizeBlocker
<1>2. ASSUME NEW d \in Written
      PROVE  NormalizeDate(d) \in Date /\ NormalizeDate(ScanDashed(d)) \in Date
  <2>1. NormalizeDate(d) \in Date
    BY WrittenFacts, NormalIsDate
  <2>2. d[1] \in Int /\ d[2] \in Int /\ d[3] \in Int
    BY WrittenFacts, Triple
  <2>3. 0 - (d[2] \div 10) \in Int /\ d[3] % 10 \in 0..9 /\ d[2] % 10 \in 0..9
    BY <2>2, Z3
  <2>4. ScanDashed(d) \in AnyDate /\ ScanDashed(d)[3] \in 0..99
    BY <2>2, <2>3 DEF ScanDashed, AnyDate
  <2>5. NormalizeDate(ScanDashed(d)) \in Date
    <3> HIDE DEF ScanDashed
    <3> QED
      BY <2>4, NormalIsDate
  <2> QED
    BY <2>1, <2>5
<1>3. CASE b \in {"date"} \X Date
  <2>1. PICK d \in Date : b = <<"date", d>>
    BY <1>3
  <2> QED
    BY <1>1, <2>1
<1>4. CASE b \in {"date", "dashed"} \X Written
  <2>1. PICK k \in {"date", "dashed"}, d \in Written : b = <<k, d>>
    BY <1>4
  <2>2. \E e \in Date : NormalizeBlocker(b) = <<"date", e>>
    <3>1. CASE k = "date"
      <4>1. NormalizeBlocker(b) = <<"date", NormalizeDate(d)>>
        BY <2>1, <3>1 DEF NormalizeBlocker
      <4> QED
        BY <1>2, <4>1
    <3>2. CASE k = "dashed"
      <4>1. NormalizeBlocker(b) = <<"date", NormalizeDate(ScanDashed(d))>>
        BY <2>1, <3>2 DEF NormalizeBlocker
      <4> QED
        BY <1>2, <4>1
    <3> QED
      BY <3>1, <3>2
  <2> QED
    BY <1>1, <2>2
<1>5. CASE b \in {"task", "urgent", "backlog"} \X STRING
  <2>1. b[1] # "date" /\ b[1] # "dashed"
    BY <1>5
  <2>2. NormalizeBlocker(b) = b
    BY <2>1 DEF NormalizeBlocker
  <2> QED
    BY <2>2
<1> QED
  BY <1>3, <1>4, <1>5 DEF AnyBlocker, Blocker

\* A line, one blocker after the other.
LEMMA LineTwice ==
    ASSUME NEW l \in AnyLine
    PROVE  Normalize(l) \in AnyLine /\ Normalize(Normalize(l)) = Normalize(l)
<1> DEFINE n == [i \in DOMAIN l.blockers |-> NormalizeBlocker(l.blockers[i])]
           m == [i \in DOMAIN n |-> NormalizeBlocker(n[i])]
<1>1. l = [task |-> l.task, blockers |-> l.blockers] /\ l.task \in STRING \cup {NoTask} /\ l.blockers \in Seq(AnyBlocker)
  BY DEF AnyLine
<1>2. DOMAIN l.blockers = 1..Len(l.blockers) /\ Len(l.blockers) \in Nat
  BY <1>1, LenProperties
<1>3. ASSUME NEW i \in DOMAIN l.blockers
      PROVE  n[i] \in AnyBlocker /\ NormalizeBlocker(n[i]) = n[i]
  <2>1. l.blockers[i] \in AnyBlocker
    BY <1>1, <1>2, ElementOfSeq
  <2> QED
    BY <2>1, BlockerTwice
<1>4. n \in [1..Len(l.blockers) -> AnyBlocker]
  <2>1. n = [i \in 1..Len(l.blockers) |-> NormalizeBlocker(l.blockers[i])]
    BY <1>2
  <2> HIDE DEF n
  <2> QED
    BY <1>2, <1>3, <2>1
<1>5. n \in Seq(AnyBlocker)
  <2> HIDE DEF n
  <2> QED
    BY <1>2, <1>4, SeqDef
<1>6. m = n
  BY <1>3
<1>7. Normalize(l) = [task |-> l.task, blockers |-> n]
  <2> DEFINE t == l.task  s == l.blockers
  <2>1. l = [task |-> t, blockers |-> s]
    BY <1>1
  <2>2. Normalize(l) = [l EXCEPT !.blockers = n]
    BY DEF Normalize
  <2> HIDE DEF n, t, s
  <2>3. [l EXCEPT !.blockers = n] = [task |-> t, blockers |-> n]
    BY <2>1
  <2> QED
    BY <2>2, <2>3 DEF t
<1>8. Normalize([task |-> l.task, blockers |-> n]) = [task |-> l.task, blockers |-> m]
  <2> DEFINE t == l.task
  <2>1. Normalize([task |-> t, blockers |-> n]) = [task |-> t, blockers |-> m]
    <3> HIDE DEF t, n
    <3> QED
      BY DEF Normalize
  <2> QED
    BY <2>1
<1>9. [task |-> l.task, blockers |-> n] \in AnyLine
  <2> HIDE DEF n
  <2> QED
    BY <1>1, <1>5 DEF AnyLine
<1> HIDE DEF m, n
<1> QED
  BY <1>6, <1>7, <1>8, <1>9

\* Rewriting what was rewritten changes nothing.
LEMMA LinesTwice ==
    ASSUME NEW s \in Seq(AnyLine)
    PROVE  Lines(s) \in Seq(AnyLine) /\ Lines(Lines(s)) = Lines(s)
<1>1. DOMAIN s = 1..Len(s) /\ Len(s) \in Nat /\ \A i \in 1..Len(s) : s[i] \in AnyLine
  BY LenProperties, ElementOfSeq
<1>2. Lines(s) = [i \in 1..Len(s) |-> Normalize(s[i])]
  BY <1>1 DEF Lines
<1>3. \A i \in 1..Len(s) : Normalize(s[i]) \in AnyLine /\ Normalize(Normalize(s[i])) = Normalize(s[i])
  BY <1>1, LineTwice
<1>4. Lines(s) \in [1..Len(s) -> AnyLine]
  BY <1>2, <1>3
<1>5. Lines(s) \in Seq(AnyLine)
  BY <1>1, <1>4, SeqDef
<1>6. Lines(Lines(s)) = [i \in 1..Len(s) |-> Normalize(Normalize(s[i]))]
  BY <1>2 DEF Lines
<1> QED
  BY <1>2, <1>3, <1>5, <1>6

-----------------------------------------------------------------------------
(***************************************************************************)
(* A run.  The invariant says what is known of a file between its reads    *)
(* and its rewrite, as far as the user has not saved it meanwhile.         *)
(***************************************************************************)
Writing == {"write", "writing"}
Ended   == {"done", "dead", "panic"}

Shape ==
    /\ disk \in [File -> Seq(AnyLine)] /\ user \in [File -> Seq(AnyLine)]
    /\ old \in Seq(AnyLine) /\ new \in Seq(AnyLine)
    /\ pc \in {"idle", "old", "new", "print", "config", "router", "blog", "mail"} \cup Writing \cup Ended
    /\ at \in 1..Len(Files) + Len(Account)
    /\ pc \in {"old", "new"} \cup Writing => at \in 1..Len(Files)
    /\ pc \in {"idle", "print", "config", "router", "blog"} => at = 1
    /\ pc = "mail" => at \in 1..Len(Account) + 1 /\ blog = "taken"
    /\ pc \in {"config", "router", "blog"} => blog \in {"asks", "sent"}
    /\ \A a \in Range(Account) : mail[a] = "done" => pc \in {"mail", "done", "dead"}
    /\ DOMAIN mail = Range(Account)

\* What the user saved is there, up to the order of its dates.
SameText == \A f \in File :
    f \notin lost /\ ~(pc = "writing" /\ f = F) => Lines(disk[f]) = Lines(user[f])

\* What is in the hands of a run is what the user saved, rewritten.
InHand ==
    /\ pc = "new" /\ F = "rems" /\ F \notin lost => disk[F] = old
    /\ pc \in Writing => Lines(new) = new /\ (F \notin lost => new = Lines(user[F]))

\* A file that was gone through is as rewriting leaves it.
CleanOK ==
    /\ \A f \in clean : f \in File /\ Lines(disk[f]) = disk[f]
    /\ pc \in Writing => F \notin clean
    /\ pc = "new" /\ F \in clean => old = disk[F]

TInv == Shape /\ SameText /\ InHand /\ CleanOK

\* There is a file, and names are names.
LEMMA FileFacts ==
    /\ Files \in Seq(STRING) /\ Len(Files) \in Nat /\ Len(Files) >= 1 /\ DOMAIN Files = 1..Len(Files)
    /\ Account \in Seq(Range(Account)) /\ Len(Account) \in Nat /\ DOMAIN Account = 1..Len(Account)
    /\ \A i \in 1..Len(Files) : Files[i] \in File
    /\ \A i \in 1..Len(Account) : Account[i] \in Range(Account)
<1>1. Files \in Seq(STRING) /\ Files # <<>>
  BY TodoAssumption, Zenon
<1>2. Account \in Seq(Range(Account))
  BY TodoAssumption, Zenon
<1>3. Len(Files) \in Nat /\ DOMAIN Files = 1..Len(Files) /\ Len(Files) # 0
  BY <1>1, LenProperties, EmptySeq
<1>4. Len(Account) \in Nat /\ DOMAIN Account = 1..Len(Account)
  BY <1>2, LenProperties
<1>5. /\ \A i \in 1..Len(Files) : Files[i] \in File
      /\ \A i \in 1..Len(Account) : Account[i] \in Range(Account)
  BY <1>3, <1>4 DEF File, Range
<1> QED
  BY <1>1, <1>2, <1>3, <1>4, <1>5

\* The lines that the user writes are lines.
LEMMA Readable == Seq(Line) \subseteq Seq(AnyLine)
<1>1. Blocker \subseteq AnyBlocker
  BY DEF AnyBlocker
<1>2. ASSUME NEW S, NEW T, S \subseteq T
      PROVE  Seq(S) \subseteq Seq(T)
  <2> SUFFICES ASSUME NEW s \in Seq(S) PROVE s \in Seq(T)
    OBVIOUS
  <2>1. s \in [1..Len(s) -> S] /\ Len(s) \in Nat
    BY LenProperties, ElementOfSeq
  <2>2. s \in [1..Len(s) -> T]
    BY <1>2, <2>1
  <2> QED
    BY <2>1, <2>2, SeqDef
<1>3. Line \subseteq AnyLine
  BY <1>1, <1>2 DEF Line, AnyLine
<1> QED
  BY <1>2, <1>3

\* A step that leaves the files, and the place in them, alone.
LEMMA Elsewhere ==
    ASSUME TInv, UNCHANGED fileVars,
           \/ UNCHANGED <<pc, at>>
           \/ pc # "writing" /\ pc' \notin {"new"} \cup Writing
    PROVE  SameText' /\ InHand' /\ CleanOK'
<1>1. CASE UNCHANGED <<pc, at>>
  BY <1>1 DEF TInv, SameText, InHand, CleanOK, F, fileVars
<1>2. CASE pc # "writing" /\ pc' \notin {"new"} \cup Writing
  BY <1>2 DEF TInv, SameText, InHand, CleanOK, F, fileVars, Writing
<1> QED
  BY <1>1, <1>2

\* What todotool asks of the network leaves the files alone.
LEMMA NetSafe ==
    ASSUME TInv,
           \/ Interrupt \/ Start \/ Report \/ Config \/ Router \/ TakeBlog \/ TakeMail \/ Blog
           \/ \E a \in Range(Account) : Dial(a) \/ Reply(a) \/ Deadline(a)
    PROVE  TInv'
<1> USE FileFacts
<1>1. CASE Interrupt
  <2>1. Shape'
    BY <1>1 DEF TInv, Shape, Interrupt, fileVars
  <2>2. UNCHANGED fileVars /\ UNCHANGED <<pc, at>>
    BY <1>1 DEF Interrupt
  <2> QED
    BY <2>1, <2>2, Elsewhere DEF TInv
<1>2. CASE Start
  <2>1. Shape'
    BY <1>2 DEF TInv, Shape, Start, fileVars, netVars, Writing, Ended
  <2>2. UNCHANGED fileVars /\ pc # "writing" /\ pc' \notin {"new"} \cup Writing
    BY <1>2 DEF Start, Writing
  <2> QED
    BY <2>1, <2>2, Elsewhere DEF TInv
<1>3. CASE Report
  <2>1. Shape'
    BY <1>3 DEF TInv, Shape, Report, fileVars, Writing, Ended
  <2>2. UNCHANGED fileVars /\ pc # "writing" /\ pc' \notin {"new"} \cup Writing
    BY <1>3 DEF Report, Writing
  <2> QED
    BY <2>1, <2>2, Elsewhere DEF TInv
<1>4. CASE Config
  <2>1. Shape'
    BY <1>4 DEF TInv, Shape, Config, fileVars, Writing, Ended
  <2>2. UNCHANGED fileVars /\ pc # "writing" /\ pc' \notin {"new"} \cup Writing
    BY <1>4 DEF Config, Writing
  <2> QED
    BY <2>1, <2>2, Elsewhere DEF TInv
<1>5. CASE Router
  <2>1. Shape'
    BY <1>5 DEF TInv, Shape, Router, fileVars, netVars, Writing, Ended
  <2>2. UNCHANGED fileVars /\ pc # "writing" /\ pc' \notin {"new"} \cup Writing
    BY <1>5 DEF Router, Writing
  <2> QED
    BY <2>1, <2>2, Elsewhere DEF TInv
<1>6. CASE TakeBlog
  <2>1. Shape'
    BY <1>6 DEF TInv, Shape, TakeBlog, fileVars, Writing, Ended
  <2>2. UNCHANGED fileVars /\ pc # "writing" /\ pc' \notin {"new"} \cup Writing
    BY <1>6 DEF TakeBlog, Writing
  <2> QED
    BY <2>1, <2>2, Elsewhere DEF TInv
<1>7. CASE TakeMail
  <2>1. Shape'
    <3>1. CASE at > Len(Account)
      BY <1>7, <3>1 DEF TInv, Shape, TakeMail, fileVars, Writing, Ended
    <3>2. CASE ~(at > Len(Account))
      <4>1. /\ pc = "mail" /\ pc' = pc /\ at' = at + 1 /\ UNCHANGED fileVars /\ blog' = blog
            /\ mail' = [mail EXCEPT ![Account[at]] = "done"]
        BY <1>7, <3>2 DEF TakeMail
      <4>2. at' \in 1..Len(Account) + 1 /\ at' \in 1..Len(Files) + Len(Account)
        BY <3>2, <4>1 DEF TInv, Shape
      <4> QED
        BY <4>1, <4>2 DEF TInv, Shape, fileVars, Writing, Ended
    <3> QED
      BY <3>1, <3>2
  <2>2. UNCHANGED fileVars /\ pc # "writing" /\ pc' \notin {"new"} \cup Writing
    BY <1>7 DEF TakeMail, Writing
  <2> QED
    BY <2>1, <2>2, Elsewhere DEF TInv
<1>8. CASE Blog
  <2>1. Shape'
    BY <1>8 DEF TInv, Shape, Blog, Running, fileVars, Writing, Ended
  <2>2. UNCHANGED fileVars /\ pc # "writing" /\ pc' \notin {"new"} \cup Writing
    BY <1>8 DEF Blog, Running, Writing
  <2> QED
    BY <2>1, <2>2, Elsewhere DEF TInv
<1>9. CASE \E a \in Range(Account) : Dial(a) \/ Reply(a) \/ Deadline(a)
  <2>1. PICK a \in Range(Account), s \in {"reads", "sends"} :
           UNCHANGED <<fileVars, pc, at, blog>> /\ mail' = [mail EXCEPT ![a] = s]
    BY <1>9 DEF Dial, Reply, Deadline
  <2>2. Shape'
    BY <2>1 DEF TInv, Shape, fileVars
  <2> QED
    BY <2>1, <2>2, Elsewhere DEF TInv
<1> QED
  BY <1>1, <1>2, <1>3, <1>4, <1>5, <1>6, <1>7, <1>8, <1>9

\* The user saves a file.
LEMMA EditSafe ==
    ASSUME TInv, Edit
    PROVE  TInv'
<1> PICK f \in File, c \in Edits :
        /\ disk' = [disk EXCEPT ![f] = c]
        /\ user' = [user EXCEPT ![f] = c]
        /\ clean' = clean \ {f}
        /\ lost' = IF HasRead(f) THEN lost \cup {f} ELSE lost \ {f}
        /\ UNCHANGED <<pc, at, old, new, netVars>>
  BY DEF Edit
<1>1. c \in Seq(AnyLine)
  <2>1. Edits \subseteq Seq(Line)
    BY TodoAssumption, Zenon
  <2> QED
    BY <2>1, Readable
<1>2. Shape'
  BY <1>1 DEF TInv, Shape, netVars
<1>3. \A g \in File : g # f => disk'[g] = disk[g] /\ user'[g] = user[g] /\ (g \in lost' <=> g \in lost)
  BY DEF TInv, Shape
<1>4. disk'[f] = c /\ user'[f] = c /\ F' = F
  BY DEF TInv, Shape, F
<1>5. F = f /\ (pc \in Writing \/ (pc = "new" /\ F = "rems")) => F \in lost'
  BY FileFacts DEF TInv, Shape, HasRead, Writing
<1>6. pc \in {"new"} \cup Writing => F \in File
  BY FileFacts DEF TInv, Shape, F
<1>7. SameText'
  BY <1>3, <1>4 DEF TInv, SameText
<1>8. InHand'
  <2>1. pc = "new" /\ F = "rems" /\ F \notin lost' => disk'[F] = old
    BY <1>3, <1>5, <1>6 DEF TInv, InHand
  <2>2. pc \in Writing => Lines(new) = new /\ (F \notin lost' => new = Lines(user'[F]))
    BY <1>3, <1>5, <1>6 DEF TInv, InHand
  <2> QED
    BY <1>4, <2>1, <2>2 DEF InHand, Lines
<1>9. CleanOK'
  <2>1. \A g \in clean' : g \in File /\ g # f /\ g \in clean
    BY DEF TInv, CleanOK
  <2>2. \A g \in clean' : g \in File /\ Lines(disk'[g]) = disk'[g]
    BY <1>3, <2>1 DEF TInv, CleanOK
  <2>3. pc \in Writing => F \notin clean'
    BY <2>1 DEF TInv, CleanOK
  <2>4. pc = "new" /\ F \in clean' => old = disk'[F]
    BY <1>3, <2>1 DEF TInv, CleanOK
  <2> QED
    BY <1>4, <2>2, <2>3, <2>4 DEF CleanOK, Lines
<1> QED
  BY <1>2, <1>7, <1>8, <1>9 DEF TInv

\* The run ends, or is killed.
LEMMA EndSafe ==
    ASSUME TInv, Kill \/ Exit
    PROVE  TInv'
<1> USE FileFacts
<1>1. CASE Kill
  <2>1. pc' = "dead" /\ UNCHANGED <<disk, at, old, new, netVars, user, clean>>
        /\ lost' = (IF pc = "writing" THEN lost \cup {F} ELSE lost)
    BY <1>1 DEF Kill
  <2>2. Shape'
    BY <1>1, <2>1 DEF TInv, Shape, Kill, netVars, Writing, Ended
  <2>3. SameText'
    BY <2>1 DEF TInv, SameText
  <2>4. InHand' /\ CleanOK'
    BY <2>1 DEF TInv, InHand, CleanOK, Writing
  <2> QED
    BY <2>2, <2>3, <2>4 DEF TInv
<1>2. CASE Exit
  <2>1. /\ pc \in Ended /\ pc' = "idle" /\ at' = 1 /\ old' = <<>> /\ new' = <<>>
        /\ mail' = NotRunning /\ UNCHANGED <<disk, user, lost, clean>>
    BY <1>2 DEF Exit, Ended
  <2>2. <<>> \in Seq(AnyLine)
    BY EmptySeq
  <2>3. DOMAIN NotRunning = Range(Account) /\ \A a \in Range(Account) : NotRunning[a] = "off"
    BY DEF NotRunning
  <2>4. Shape'
    BY <2>1, <2>2, <2>3 DEF TInv, Shape, Writing, Ended
  <2>5. SameText'
    BY <2>1 DEF TInv, SameText, Ended
  <2>6. InHand' /\ CleanOK'
    BY <2>1 DEF TInv, InHand, CleanOK, Writing
  <2> QED
    BY <2>4, <2>5, <2>6 DEF TInv
<1> QED
  BY <1>1, <1>2

\* The first read of a file.
LEMMA ReadOldSafe ==
    ASSUME TInv, ReadOld
    PROVE  TInv'
<1> USE FileFacts
<1>1. /\ pc = "old" /\ pc' = "new" /\ old' = disk[F] /\ F' = F
      /\ UNCHANGED <<disk, at, new, netVars, user, lost, clean>>
  BY DEF ReadOld, F
<1>2. F \in File /\ disk[F] \in Seq(AnyLine)
  BY <1>1 DEF TInv, Shape, F
<1>3. Shape'
  BY <1>1, <1>2 DEF TInv, Shape, netVars, Writing, Ended
<1>4. SameText' /\ InHand' /\ CleanOK'
  BY <1>1 DEF TInv, SameText, InHand, CleanOK, Writing
<1> QED
  BY <1>3, <1>4 DEF TInv

\* The turn of the next file, or of the report.
LEMMA NextFileShape ==
    ASSUME TInv, pc \in {"new"} \cup Writing, NextFile
    PROVE  /\ pc' \in {"old", "print"}
           /\ at' \in 1..Len(Files) + Len(Account)
           /\ pc' = "old" => at' \in 1..Len(Files)
           /\ pc' = "print" => at' = 1
           /\ old' \in Seq(AnyLine) /\ new' \in Seq(AnyLine)
<1>1. at \in 1..Len(Files) /\ at \in Nat /\ Len(Files) \in Nat /\ Len(Account) \in Nat /\ Len(Files) >= 1
  BY FileFacts DEF TInv, Shape
<1>2. old' \in Seq(AnyLine) /\ new' \in Seq(AnyLine)
  BY EmptySeq DEF NextFile
<1>3. CASE at < Len(Files)
  BY <1>1, <1>2, <1>3 DEF NextFile
<1>4. CASE ~(at < Len(Files))
  BY <1>1, <1>2, <1>4 DEF NextFile
<1> QED
  BY <1>3, <1>4

\* The second read.
LEMMA ReadNewSafe ==
    ASSUME TInv, ReadNew
    PROVE  TInv'
<1> DEFINE text == IF F = "rems" THEN old ELSE disk[F]
<1>1. pc = "new" /\ UNCHANGED <<disk, netVars, user, lost>>
  BY DEF ReadNew
<1>2. F \in File /\ disk[F] \in Seq(AnyLine) /\ text \in Seq(AnyLine)
  BY <1>1, FileFacts DEF TInv, Shape, F
<1>3. F \notin lost => text = disk[F] /\ Lines(text) = Lines(user[F])
  BY <1>1, <1>2 DEF TInv, SameText, InHand
<1>4. F \in clean => text = old /\ disk[F] = old /\ Lines(old) = old
  BY <1>1 DEF TInv, CleanOK
<1>5. Lines(text) \in Seq(AnyLine) /\ Lines(Lines(text)) = Lines(text)
  <2> HIDE DEF text
  <2> QED
    BY <1>2, LinesTwice
<1>6. \/ pc' = "done" /\ UNCHANGED <<at, old, new, clean>>
      \/ Lines(text) # old /\ pc' = "write" /\ new' = Lines(text) /\ UNCHANGED <<at, old, clean>>
      \/ /\ Lines(text) = old /\ NextFile
         /\ clean' = IF disk[F] = old THEN clean \cup {F} ELSE clean
  BY DEF ReadNew, NewText
<1>7. CASE pc' = "done" /\ UNCHANGED <<at, old, new, clean>>
  <2>1. Shape'
    BY <1>1, <1>7, FileFacts DEF TInv, Shape, netVars, Writing, Ended
  <2>2. SameText' /\ InHand' /\ CleanOK'
    BY <1>1, <1>7 DEF TInv, SameText, InHand, CleanOK, Writing
  <2> QED
    BY <2>1, <2>2 DEF TInv
<1>8. CASE Lines(text) # old /\ pc' = "write" /\ new' = Lines(text) /\ UNCHANGED <<at, old, clean>>
  <2> HIDE DEF text
  <2>1. Shape'
    BY <1>1, <1>5, <1>8, FileFacts DEF TInv, Shape, netVars, Writing, Ended
  <2>2. F' = F
    BY <1>8 DEF F
  <2>3. SameText'
    BY <1>1, <1>8 DEF TInv, SameText
  <2>4. Lines(new') = new' /\ (F \notin lost => new' = Lines(user[F])) /\ F \notin clean
    BY <1>3, <1>4, <1>5, <1>8
  <2>5. InHand' /\ CleanOK'
    BY <1>1, <1>8, <2>2, <2>4 DEF TInv, InHand, CleanOK, Writing, Lines
  <2> QED
    BY <2>1, <2>3, <2>5 DEF TInv
<1>9. CASE /\ Lines(text) = old /\ NextFile
           /\ clean' = IF disk[F] = old THEN clean \cup {F} ELSE clean
  <2>1. /\ pc' \in {"old", "print"}
        /\ at' \in 1..Len(Files) + Len(Account)
        /\ pc' = "old" => at' \in 1..Len(Files)
        /\ pc' = "print" => at' = 1
        /\ old' \in Seq(AnyLine) /\ new' \in Seq(AnyLine)
    BY <1>1, <1>9, NextFileShape
  <2>2. Shape'
    BY <1>1, <2>1 DEF TInv, Shape, netVars, Writing, Ended
  <2>3. SameText' /\ InHand'
    BY <1>1, <2>1 DEF TInv, SameText, InHand, Writing
  <2>4. disk[F] = old => Lines(disk[F]) = disk[F]
    BY <1>9
  <2>5. \A g \in clean' : g \in File /\ Lines(disk[g]) = disk[g]
    <3> HIDE DEF text
    <3> QED
      BY <1>2, <1>9, <2>4 DEF TInv, CleanOK
  <2>6. CleanOK'
    BY <1>1, <2>1, <2>5 DEF CleanOK, Writing, Lines
  <2> QED
    BY <2>2, <2>3, <2>6 DEF TInv
<1> HIDE DEF text
<1> QED
  BY <1>6, <1>7, <1>8, <1>9

\* The rewrite begins.
LEMMA TruncateSafe ==
    ASSUME TInv, Truncate
    PROVE  TInv'
<1>1. /\ pc = "write" /\ pc' = "writing" /\ disk' = [disk EXCEPT ![F] = <<>>] /\ F' = F
      /\ UNCHANGED <<at, old, new, netVars, user, lost, clean>>
  BY DEF Truncate, F
<1>2. F \in File /\ <<>> \in Seq(AnyLine) /\ F \notin clean
  BY <1>1, FileFacts, EmptySeq DEF TInv, Shape, CleanOK, Writing, F
<1>3. \A g \in File : g # F => disk'[g] = disk[g]
  BY <1>1 DEF TInv, Shape
<1>4. Shape'
  BY <1>1, <1>2, FileFacts DEF TInv, Shape, netVars, Writing, Ended
<1>5. SameText'
  BY <1>1, <1>3 DEF TInv, SameText
<1>6. InHand'
  BY <1>1 DEF TInv, InHand, Writing
<1>7. CleanOK'
  <2>1. \A g \in clean : g \in File /\ Lines(disk'[g]) = disk'[g]
    BY <1>2, <1>3 DEF TInv, CleanOK
  <2> QED
    BY <1>1, <1>2, <2>1 DEF CleanOK, Lines
<1> QED
  BY <1>4, <1>5, <1>6, <1>7 DEF TInv

\* The rewrite ends.
LEMMA WriteFileSafe ==
    ASSUME TInv, WriteFile
    PROVE  TInv'
<1>1. /\ pc = "writing" /\ disk' = [disk EXCEPT ![F] = new] /\ NextFile
      /\ clean' = (IF F \in lost THEN clean ELSE clean \cup {F})
      /\ UNCHANGED <<netVars, user, lost>>
  BY DEF WriteFile
<1>2. F \in File /\ new \in Seq(AnyLine) /\ Lines(new) = new /\ (F \notin lost => new = Lines(user[F]))
  BY <1>1, FileFacts DEF TInv, Shape, InHand, Writing, F
<1>3. \A g \in File : g # F => disk'[g] = disk[g]
  BY <1>1 DEF TInv, Shape
<1>4. disk'[F] = new
  BY <1>1, <1>2 DEF TInv, Shape
<1>5. /\ pc' \in {"old", "print"}
      /\ at' \in 1..Len(Files) + Len(Account)
      /\ pc' = "old" => at' \in 1..Len(Files)
      /\ pc' = "print" => at' = 1
      /\ old' \in Seq(AnyLine) /\ new' \in Seq(AnyLine)
  BY <1>1, NextFileShape DEF Writing
<1>6. Shape'
  BY <1>1, <1>2, <1>5 DEF TInv, Shape, netVars, Writing, Ended
<1>7. \A g \in File \ lost : Lines(disk'[g]) = Lines(user[g])
  BY <1>1, <1>2, <1>3, <1>4 DEF TInv, SameText
<1>8. SameText' /\ InHand'
  BY <1>1, <1>5, <1>7 DEF SameText, InHand, Writing, Lines
<1>9. \A g \in clean' : g \in File /\ Lines(disk'[g]) = disk'[g]
  BY <1>1, <1>2, <1>3, <1>4 DEF TInv, CleanOK
<1>10. CleanOK'
  BY <1>5, <1>9 DEF CleanOK, Writing, Lines
<1> QED
  BY <1>6, <1>8, <1>10 DEF TInv

\* The invariant holds at first.
LEMMA InitSafe == Init => TInv
<1> SUFFICES ASSUME Init PROVE TInv
  OBVIOUS
<1>1. FirstLines \subseteq Seq(AnyLine) /\ <<>> \in Seq(AnyLine)
  <2>1. FirstLines \subseteq Seq(Line)
    BY TodoAssumption, Zenon
  <2> QED
    BY <2>1, Readable, EmptySeq
<1>2. /\ disk \in [File -> FirstLines] /\ user = disk /\ pc = "idle" /\ at = 1
      /\ old = <<>> /\ new = <<>> /\ mail = NotRunning /\ clean = {}
  BY DEF Init
<1>3. disk \in [File -> Seq(AnyLine)]
  BY <1>1, <1>2
<1>4. DOMAIN NotRunning = Range(Account) /\ \A a \in Range(Account) : NotRunning[a] = "off"
  BY DEF NotRunning
<1>5. Shape
  BY <1>1, <1>2, <1>3, <1>4, FileFacts DEF Shape, Writing, Ended
<1>6. SameText /\ InHand /\ CleanOK
  BY <1>2 DEF SameText, InHand, CleanOK, Writing
<1> QED
  BY <1>5, <1>6 DEF TInv

\* Every step keeps it.
LEMMA StepSafe == TInv /\ [Next]_vars => TInv'
<1> SUFFICES ASSUME TInv, [Next]_vars PROVE TInv'
  OBVIOUS
<1>1. CASE Edit
  BY <1>1, EditSafe
<1>2. CASE Kill \/ Exit
  BY <1>2, EndSafe
<1>3. CASE ReadOld
  BY <1>3, ReadOldSafe
<1>4. CASE ReadNew
  BY <1>4, ReadNewSafe
<1>5. CASE Truncate
  BY <1>5, TruncateSafe
<1>6. CASE WriteFile
  BY <1>6, WriteFileSafe
<1>7. CASE \/ Interrupt \/ Start \/ Report \/ Config \/ Router \/ TakeBlog \/ TakeMail \/ Blog
           \/ \E a \in Range(Account) : Dial(a) \/ Reply(a) \/ Deadline(a)
  BY <1>7, NetSafe
<1>8. CASE UNCHANGED vars
  <2>1. UNCHANGED fileVars /\ UNCHANGED <<pc, at>> /\ UNCHANGED netVars
    BY <1>8 DEF vars, fileVars, netVars
  <2>2. Shape'
    BY <2>1 DEF TInv, Shape, fileVars, netVars
  <2> QED
    BY <2>1, <2>2, Elsewhere DEF TInv
<1> QED
  BY <1>1, <1>2, <1>3, <1>4, <1>5, <1>6, <1>7, <1>8 DEF Next, Main

\* So it holds always.
LEMMA Inductive == Spec => []TInv
  BY InitSafe, StepSafe, PTL DEF Spec

\* What the user wrote is in the files but for the order of its dates, for any
\* files and any number of edits and runs that are cut off: a file is at a loss
\* only when it was saved between read and rewrite or cut off in the middle.
THEOREM NoLineLost == Spec => []NothingLost
<1>1. TInv => NothingLost
  <2> SUFFICES ASSUME TInv PROVE NothingLost
    OBVIOUS
  <2>1. TypeOK
    BY DEF TInv, Shape, TypeOK, Writing, Ended
  <2> QED
    BY <2>1 DEF TInv, SameText, NothingLost
<1> QED
  BY <1>1, Inductive, PTL

\* A file that was gone through is not rewritten until the user saves it,
\* whatever the dates in it are: normalizing is idempotent for all of them.
THEOREM RewrittenOnlyOnce == Spec => RewrittenOnce
<1>1. TInv /\ [Next]_vars => [pc = "write" /\ pc' = "writing" => F \notin clean]_vars
  BY DEF TInv, CleanOK, Writing
<1> QED
  BY <1>1, Inductive, PTL DEF Spec, RewrittenOnce

\* Comparing the strings of normalized dates compares the days, for every date
\* that four and twice two digits write.
THEOREM OnItsDay == Spec => []DueOnItsDay
<1>1. DueOnItsDay
  BY NoneMisdated DEF DueOnItsDay
<1> QED
  BY <1>1, PTL

\* Of every list of tasks, of any length, exactly those that are due by the
\* reference are shown, in their order, where no name is repeated.
THEOREM ReadyAsTold == Spec => []ReadyIffClear
<1>1. ReadyIffClear
  BY NoWrongLists DEF ReadyIffClear
<1> QED
  BY <1>1, PTL

\* Every mailbox of any length reports a title as unread exactly when one of
\* its messages is, where no message without a subject has been read.
THEOREM UnreadAsTold == Spec => []UnreadIsShown
<1>1. UnreadIsShown
  BY NoneMisread DEF UnreadIsShown
<1> QED
  BY <1>1, PTL
=============================================================================
