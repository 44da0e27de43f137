---------------------------- MODULE FunctionProofs ----------------------------
(***************************************************************************)
(* What the pure functions give for every input: the periods of Seoul and  *)
(* of every zone for every instant, the levels of a unit for every set of  *)
(* activities and every answer of the model, the plans, windows and        *)
(* refreshes of every range, the requests and runs of every plan, and the  *)
(* chunks of a dump of every size, whichever arrive and whichever fail.    *)
(*                                                                         *)
(* A year is counted from March, as in KstPeriods, so that the day a leap  *)
(* year adds is its last.  Its numbers are large, and only SMT takes them. *)
(***************************************************************************)
EXTENDS FillPlanning, EvaluationScoring, ChunkTransfer, WellFoundedInduction,
        FiniteSetTheorems, SequenceTheorems, TLAPS

------------------------------------------------------------------------------
(* Days, months and years. *)

\* The first day of a year of an era.
YearStart(n) == 365 * n + (n \div 4) - (n \div 100)
YearEnd(n) == IF n = 399 THEN 146097 ELSE YearStart(n + 1)

\* A day of an era is in the year that is computed for it.
LEMMA YearFits ==
    ASSUME NEW doe \in Int, 0 <= doe, doe <= 146096
    PROVE  /\ YearOfEra(doe) \in Int /\ 0 <= YearOfEra(doe) /\ YearOfEra(doe) <= 399
           /\ YearStart(YearOfEra(doe)) <= doe
           /\ doe - YearStart(YearOfEra(doe)) <= 365
           /\ doe < YearEnd(YearOfEra(doe))
<1>1. CASE doe = 146096
  BY <1>1, SMTT(20) DEF YearOfEra, YearStart, YearEnd
<1>2. CASE doe < 146096
  <2>1. PICK q \in 0..3, r \in Int : 0 <= r /\ r <= 36523 /\ doe = 36524 * q + r
    <3>1. /\ doe \div 36524 \in 0..3 /\ doe % 36524 \in Int
          /\ 0 <= doe % 36524 /\ doe % 36524 <= 36523
      BY <1>2, SMTT(20)
    <3>2. doe = 36524 * (doe \div 36524) + (doe % 36524)
      BY SMTT(20)
    <3> QED
      BY <3>1, <3>2, SMTT(20)
  <2>2. PICK k \in 0..24, s \in Int : 0 <= s /\ s <= 1460 /\ r = 1461 * k + s
    <3>1. r \div 1461 \in 0..24 /\ r % 1461 \in Int /\ 0 <= r % 1461 /\ r % 1461 <= 1460
      BY <2>1, SMTT(20)
    <3>2. r = 1461 * (r \div 1461) + (r % 1461)
      BY <2>1, SMTT(20)
    <3> QED
      BY <3>1, <3>2, SMTT(20)
  <2>3. k = 24 => s <= 1459
    BY <2>1, <2>2, SMTT(20)
  <2>4. PICK e \in 0..1 : /\ doe \div 1460 = 25 * q + k + e
                          /\ (e = 1 => s >= 1364) /\ (s = 1460 => e = 1)
    <3>1. doe = 1460 * (25 * q + k) + (24 * q + k + s)
      BY <2>1, <2>2, SMTT(20)
    <3>2. CASE 24 * q + k + s < 1460
      <4>1. doe \div 1460 = 25 * q + k + 0
        BY <2>2, <3>1, <3>2, SMTT(20)
      <4>2. s # 1460
        BY <2>2, <3>2, SMTT(20)
      <4> QED
        BY <4>1, <4>2, SMTT(20)
    <3>3. CASE 24 * q + k + s >= 1460
      <4>1. doe \div 1460 = 25 * q + k + 1
        BY <2>2, <3>1, <3>3, SMTT(20)
      <4>2. s >= 1364
        BY <2>2, <3>3, SMTT(20)
      <4> QED
        BY <4>1, <4>2, SMTT(20)
    <3> QED
      BY <3>2, <3>3, SMTT(20)
  <2>5. doe \div 36524 = q /\ doe \div 146096 = 0
    BY <1>2, <2>1, SMTT(20)
  <2>6. doe - (doe \div 1460) + (doe \div 36524) - (doe \div 146096)
          = 365 * (100 * q + 4 * k) + (s - e)
    BY <2>1, <2>2, <2>4, <2>5, SMTT(20)
  <2>7. PICK j \in 0..3 : 365 * j <= s - e /\ s - e <= 365 * j + 364
    <3>1. s - e \in Int /\ 0 <= s - e /\ s - e <= 1459
      BY <2>2, <2>4, SMTT(20)
    <3> QED
      BY <3>1, SMTT(20)
  <2>8. YearOfEra(doe) = 100 * q + 4 * k + j
    <3> DEFINE n == 100 * q + 4 * k + j
    <3>2. /\ 365 * n <= 365 * (100 * q + 4 * k) + (s - e)
          /\ 365 * (100 * q + 4 * k) + (s - e) < 365 * n + 365
      BY <2>7, SMTT(20)
    <3> QED
      BY <2>6, <3>2, SMTT(20) DEF YearOfEra
  <2>9. (100 * q + 4 * k + j) \div 4 = 25 * q + k
    BY SMTT(20)
  <2>10. (100 * q + 4 * k + j) \div 100 = q
    BY SMTT(20)
  <2>11. YearStart(YearOfEra(doe)) = 36524 * q + 1461 * k + 365 * j
    BY <2>8, <2>9, <2>10, SMTT(20) DEF YearStart
  <2>12. s - 365 * j <= 365 /\ (j < 3 \/ k = 24 => s - 365 * j <= 364)
    BY <2>2, <2>3, <2>4, <2>7, SMTT(20)
  <2>13. (100 * q + 4 * k + j + 1) \div 4 = 25 * q + k + (IF j = 3 THEN 1 ELSE 0)
    BY SMTT(20)
  <2>14. (100 * q + 4 * k + j + 1) \div 100 = q + (IF k = 24 /\ j = 3 THEN 1 ELSE 0)
    BY SMTT(20)
  <2>15. doe < YearEnd(YearOfEra(doe))
    <3>1. CASE YearOfEra(doe) = 399
      BY <1>2, <3>1, SMTT(20) DEF YearEnd
    <3>2. CASE YearOfEra(doe) # 399
      <4>1. YearEnd(YearOfEra(doe)) = YearStart(100 * q + 4 * k + j + 1)
        BY <3>2, <2>8, SMTT(20) DEF YearEnd
      <4>2. YearStart(100 * q + 4 * k + j + 1)
              = 36524 * q + 1461 * k + 365 * j + 365
                + (IF j = 3 THEN 1 ELSE 0) - (IF k = 24 /\ j = 3 THEN 1 ELSE 0)
        BY <2>13, <2>14, SMTT(20) DEF YearStart
      <4> QED
        BY <4>1, <4>2, <2>1, <2>2, <2>12, SMTT(20)
    <3> QED
      BY <3>1, <3>2, SMTT(20)
  <2> QED
    BY <2>1, <2>2, <2>4, <2>7, <2>8, <2>11, <2>15, SMTT(20)
<1> QED
  BY <1>1, <1>2, SMTT(20)

\* A day of a year is in the month that is computed for it.
LEMMA MonthFits ==
    ASSUME NEW doy \in 0..365
    PROVE  /\ (5 * doy + 2) \div 153 \in 0..11
           /\ (153 * ((5 * doy + 2) \div 153) + 2) \div 5 <= doy
           /\ doy < (153 * (((5 * doy + 2) \div 153) + 1) + 2) \div 5
BY SMTT(60)

\* Later years of an era begin later.
LEMMA YearsRise ==
    ASSUME NEW m \in Int, NEW n \in Int, 0 <= m, m <= n, n <= 400
    PROVE  YearStart(m) \in Int /\ YearStart(m) <= YearStart(n)
BY SMTT(20) DEF YearStart

\* The year computed for a day is the only one the day is in.
LEMMA YearIsOne ==
    ASSUME NEW n \in Int, 0 <= n, n <= 399, NEW doe \in Int,
           YearStart(n) <= doe, doe < YearEnd(n)
    PROVE  0 <= doe /\ doe <= 146096 /\ YearOfEra(doe) = n
<1>1. 0 <= doe /\ doe <= 146096
  <2>1. YearStart(0) = 0 /\ YearStart(399) = 145731
    BY SMTT(20) DEF YearStart
  <2>2. YearStart(0) <= YearStart(n)
    BY YearsRise, SMTT(20)
  <2>3. n # 399 => YearStart(n + 1) <= YearStart(399)
    BY YearsRise, SMTT(20)
  <2> QED
    BY <2>1, <2>2, <2>3, YearsRise, SMTT(20) DEF YearEnd
<1>3. PICK m \in Int : /\ 0 <= m /\ m <= 399
                       /\ m = YearOfEra(doe) /\ YearStart(m) <= doe /\ doe < YearEnd(m)
  <2>1. /\ YearOfEra(doe) \in Int /\ 0 <= YearOfEra(doe) /\ YearOfEra(doe) <= 399
        /\ YearStart(YearOfEra(doe)) <= doe
        /\ doe < YearEnd(YearOfEra(doe))
    BY <1>1, YearFits, SMTT(20)
  <2> QED
    BY <2>1, SMTT(20)
<1>4. ASSUME n < m PROVE FALSE
  <2>1. YearStart(n + 1) <= YearStart(m) /\ YearEnd(n) = YearStart(n + 1)
    BY <1>3, <1>4, YearsRise, SMTT(20) DEF YearEnd
  <2> QED
    BY <2>1, <1>3, <1>4, YearsRise, SMTT(20)
<1>5. ASSUME m < n PROVE FALSE
  <2>1. YearStart(m + 1) <= YearStart(n) /\ YearEnd(m) = YearStart(m + 1)
    BY <1>3, <1>5, YearsRise, SMTT(20) DEF YearEnd
  <2> QED
    BY <2>1, <1>3, <1>5, YearsRise, SMTT(20)
<1> QED
  BY <1>1, <1>3, <1>4, <1>5, SMTT(20)

\* The days of an era before the year of an instant, and of the year before its
\* month.
MonthStart(mp) == (153 * mp + 2) \div 5
Epoch(y) == (y \div 400) * 146097 + YearStart(y % 400) - 719468

\* What is computed of a year are integers.
LEMMA ErasFit ==
    ASSUME NEW y \in Int
    PROVE  /\ y \div 400 \in Int /\ y % 400 \in Int /\ 0 <= y % 400 /\ y % 400 <= 399
           /\ y = 400 * (y \div 400) + (y % 400)
           /\ Epoch(y) \in Int
           /\ YearStart(y % 400) \in Int /\ YearEnd(y % 400) \in Int
<1>1. /\ y \div 400 \in Int /\ y % 400 \in Int /\ 0 <= y % 400 /\ y % 400 <= 399
      /\ y = 400 * (y \div 400) + (y % 400)
  BY SMTT(20)
<1>2. YearStart(y % 400) \in Int /\ YearEnd(y % 400) \in Int
  BY <1>1, SMTT(20) DEF YearStart, YearEnd
<1> QED
  BY <1>1, <1>2, SMTT(20) DEF Epoch

\* The date of a day of a year, counted from its first.
LEMMA DateOfYearDay ==
    ASSUME NEW y \in Int, NEW doy \in Int, 0 <= doy,
           YearStart(y % 400) + doy < YearEnd(y % 400)
    PROVE  DateOf(Epoch(y) + doy) = DateOfDay(y, doy)
<1> DEFINE days == Epoch(y) + doy
           doe == YearStart(y % 400) + doy
<1>1. /\ y \div 400 \in Int /\ y % 400 \in Int /\ 0 <= y % 400 /\ y % 400 <= 399
      /\ doe \in Int /\ 0 <= doe /\ doe <= 146096
      /\ YearOfEra(doe) = y % 400
  <2>1. /\ y \div 400 \in Int /\ y % 400 \in Int /\ 0 <= y % 400 /\ y % 400 <= 399
        /\ YearStart(y % 400) \in Int
        /\ doe \in Int /\ YearStart(y % 400) <= doe
    BY ErasFit, SMTT(20)
  <2>2. 0 <= doe /\ doe <= 146096 /\ YearOfEra(doe) = y % 400
    BY <2>1, YearIsOne, SMTT(20)
  <2> QED
    BY <2>1, <2>2, SMTT(20)
<1>2. days + 719468 = 146097 * (y \div 400) + doe
  BY ErasFit, SMTT(20) DEF Epoch
<1> HIDE DEF doe, days
<1>3. (days + 719468) \div 146097 = y \div 400 /\ (days + 719468) % 146097 = doe
  BY <1>1, <1>2, SMTT(20)
<1>4. DayOfYear(doe, y % 400) = doy
  BY ErasFit, SMTT(20) DEF DayOfYear, YearStart, doe
<1>5. (y % 400) + (y \div 400) * 400 = y
  BY ErasFit, SMTT(20)
<1>6. DateOf(days) = DateOfYear(y \div 400, doe, y % 400)
  BY <1>1, <1>3, SMTT(20) DEF DateOf, DateOfEra
<1>7. DateOf(days) = DateOfDay(y, doy)
  BY <1>4, <1>5, <1>6, SMTT(20) DEF DateOfYear
<1> QED
  BY <1>7, SMTT(20) DEF days

\* Every day is one of a year.
IsDayOf(d, y, doy) ==
    /\ 0 <= doy /\ doy <= 365 /\ YearStart(y % 400) + doy < YearEnd(y % 400)
    /\ d = Epoch(y) + doy

\* Every day is one of a year.
LEMMA DayHasYear ==
    ASSUME NEW d \in Int
    PROVE  \E y \in Int, doy \in Int : IsDayOf(d, y, doy)
<1> DEFINE era == (d + 719468) \div 146097
           doe == (d + 719468) % 146097
<1>1. /\ era \in Int /\ doe \in Int /\ 0 <= doe /\ doe <= 146096
      /\ d + 719468 = 146097 * era + doe
  BY SMTT(20)
<1> HIDE DEF era, doe
<1>2. PICK n \in Int : /\ 0 <= n /\ n <= 399
                       /\ YearStart(n) <= doe /\ doe - YearStart(n) <= 365 /\ doe < YearEnd(n)
  <2>1. /\ YearOfEra(doe) \in Int /\ 0 <= YearOfEra(doe) /\ YearOfEra(doe) <= 399
        /\ YearStart(YearOfEra(doe)) <= doe
        /\ doe - YearStart(YearOfEra(doe)) <= 365
        /\ doe < YearEnd(YearOfEra(doe))
    BY <1>1, YearFits, SMTT(20)
  <2> QED
    BY <2>1, SMTT(20)
<1>3. (400 * era + n) \div 400 = era /\ (400 * era + n) % 400 = n
  BY <1>1, <1>2, SMTT(20)
<1>4. YearStart(n) \in Int
  BY <1>2, SMTT(20) DEF YearStart
<1>5. d = Epoch(400 * era + n) + (doe - YearStart(n))
  BY <1>1, <1>3, <1>4, SMTT(20) DEF Epoch
<1>6. YearStart(n) + (doe - YearStart(n)) = doe
  BY <1>1, <1>4, SMTT(20)
<1>7. IsDayOf(d, 400 * era + n, doe - YearStart(n))
  BY <1>1, <1>2, <1>3, <1>4, <1>5, <1>6, SMTT(20) DEF IsDayOf
<1> QED
  BY <1>1, <1>2, <1>4, <1>7, SMTT(20)

\* Where a year ends the next one begins, at the end of an era too.
LEMMA YearsMeet ==
    ASSUME NEW y \in Int
    PROVE  Epoch(y + 1) = Epoch(y) + YearEnd(y % 400) - YearStart(y % 400)
<1>1. CASE y % 400 = 399
  <2>1. (y + 1) \div 400 = (y \div 400) + 1 /\ (y + 1) % 400 = 0
    BY <1>1, SMTT(20)
  <2> QED
    BY <1>1, <2>1, SMTT(20) DEF Epoch, YearEnd, YearStart
<1>2. CASE y % 400 # 399
  <2>1. (y + 1) \div 400 = y \div 400 /\ (y + 1) % 400 = (y % 400) + 1
    BY <1>2, SMTT(20)
  <2>2. YearEnd(y % 400) = YearStart((y % 400) + 1)
    BY <1>2, SMTT(20) DEF YearEnd
  <2>3. YearStart((y % 400) + 1) \in Int
    BY ErasFit, SMTT(20) DEF YearStart
  <2> QED
    BY ErasFit, <2>1, <2>2, <2>3, SMTT(20) DEF Epoch
<1> QED
  BY <1>1, <1>2, SMTT(20)

\* A month, by the year that began in March and its place in it: its first day
\* and the first of the next one.
FirstDay(y, mp) == Epoch(y) + MonthStart(mp)
NextFirstDay(y, mp) == IF mp = 11 THEN Epoch(y + 1) ELSE FirstDay(y, mp + 1)
YearIn(y, mp) == IF mp < 10 THEN y ELSE y + 1
MonthIn(mp) == IF mp < 10 THEN mp + 3 ELSE mp - 9
IsOfMonth(d, y, mp) ==
    /\ 0 <= mp /\ mp <= 11
    /\ FirstDay(y, mp) <= d /\ d < NextFirstDay(y, mp)

\* A year has 365 or 366 days.
LEMMA YearLasts ==
    ASSUME NEW n \in Int, 0 <= n, n <= 399
    PROVE  YearEnd(n) - YearStart(n) >= 365 /\ YearEnd(n) - YearStart(n) <= 366
<1>1. YearStart(399) = 145731
  BY SMTT(20) DEF YearStart
<1>2. 365 <= YearStart(n + 1) - YearStart(n) /\ YearStart(n + 1) - YearStart(n) <= 366
  BY SMTT(20) DEF YearStart
<1> QED
  BY <1>1, <1>2, SMTT(20) DEF YearEnd

\* The months of a year are in it, one after another.
LEMMA MonthsFit ==
    ASSUME NEW y \in Int, NEW mp \in Int, 0 <= mp, mp <= 11
    PROVE  /\ FirstDay(y, mp) \in Int /\ NextFirstDay(y, mp) \in Int
           /\ Epoch(y) <= FirstDay(y, mp) /\ NextFirstDay(y, mp) <= Epoch(y + 1)
           /\ FirstDay(y, mp) < NextFirstDay(y, mp)
           /\ NextFirstDay(y, mp) <= Epoch(y) + MonthStart(mp + 1)
<1>1. /\ MonthStart(mp) \in Int /\ 0 <= MonthStart(mp) /\ MonthStart(mp + 1) \in Int
      /\ MonthStart(mp) < MonthStart(mp + 1)
      /\ (mp = 11 => MonthStart(mp + 1) = 367 /\ MonthStart(mp) = 337)
      /\ (mp < 11 => MonthStart(mp + 1) <= 337)
  BY SMTT(20) DEF MonthStart
<1>2. /\ Epoch(y) \in Int /\ Epoch(y + 1) \in Int
      /\ Epoch(y) + 365 <= Epoch(y + 1) /\ Epoch(y + 1) <= Epoch(y) + 366
  <2>1. Epoch(y + 1) = Epoch(y) + YearEnd(y % 400) - YearStart(y % 400)
    BY YearsMeet, SMTT(20)
  <2>2. /\ y % 400 \in Int /\ 0 <= y % 400 /\ y % 400 <= 399 /\ Epoch(y) \in Int
        /\ YearStart(y % 400) \in Int /\ YearEnd(y % 400) \in Int
    BY ErasFit, SMTT(20)
  <2>3. /\ 365 <= YearEnd(y % 400) - YearStart(y % 400)
        /\ YearEnd(y % 400) - YearStart(y % 400) <= 366
    BY <2>2, YearLasts, SMTT(20)
  <2> QED
    BY <2>1, <2>2, <2>3, SMTT(20)
<1>3. CASE mp = 11
  BY <1>1, <1>2, <1>3, SMTT(20) DEF FirstDay, NextFirstDay
<1>4. CASE mp # 11
  BY <1>1, <1>2, <1>4, SMTT(20) DEF FirstDay, NextFirstDay
<1> QED
  BY <1>3, <1>4, SMTT(20)

\* The month computed for a day is the only one the day is in.
LEMMA MonthIsOne ==
    ASSUME NEW mp \in Int, 0 <= mp, mp <= 11, NEW doy \in Int,
           MonthStart(mp) <= doy, doy < MonthStart(mp + 1)
    PROVE  0 <= doy /\ (5 * doy + 2) \div 153 = mp
BY SMTT(60) DEF MonthStart

\* The date of a day, by the month it is in.
LEMMA DateOfMonthDay ==
    ASSUME NEW y \in Int, NEW mp \in Int, 0 <= mp, mp <= 11,
           NEW d \in Int, FirstDay(y, mp) <= d, d < NextFirstDay(y, mp)
    PROVE  DateOf(d) = [year |-> YearIn(y, mp), month |-> MonthIn(mp),
                        day |-> d - FirstDay(y, mp) + 1]
<1>0. d - Epoch(y) \in Int
  BY ErasFit, SMTT(20)
<1>1. PICK doy \in Int : doy = d - Epoch(y)
  BY <1>0, SMTT(20)
<1>2. MonthStart(mp) <= doy /\ doy < MonthStart(mp + 1) /\ MonthStart(mp) \in Int
  <2>1. MonthStart(mp) \in Int /\ MonthStart(mp + 1) \in Int
    BY SMTT(20) DEF MonthStart
  <2> QED
    <3>1. Epoch(y) \in Int /\ NextFirstDay(y, mp) \in Int
      BY ErasFit, MonthsFit, SMTT(20)
    <3>2. NextFirstDay(y, mp) <= Epoch(y) + MonthStart(mp + 1)
      BY MonthsFit, SMTT(20)
    <3> QED
      BY <1>1, <2>1, <3>1, <3>2, SMTT(20) DEF FirstDay
<1>3. 0 <= doy /\ (5 * doy + 2) \div 153 = mp
  BY <1>2, MonthIsOne, SMTT(20)
<1>4. YearStart(y % 400) + doy < YearEnd(y % 400)
  <2>1. Epoch(y + 1) = Epoch(y) + YearEnd(y % 400) - YearStart(y % 400)
    BY YearsMeet, SMTT(20)
  <2>2. Epoch(y) \in Int /\ YearStart(y % 400) \in Int /\ YearEnd(y % 400) \in Int
    BY ErasFit, SMTT(20)
  <2>3. d < Epoch(y + 1)
    <3>1. NextFirstDay(y, mp) <= Epoch(y + 1) /\ NextFirstDay(y, mp) \in Int
      BY MonthsFit, SMTT(20)
    <3> QED
      BY <2>1, <2>2, <3>1, SMTT(20)
  <2> QED
    BY <1>1, <2>1, <2>2, <2>3, SMTT(20)
<1>5. DateOf(d) = DateOfDay(y, doy)
  <2>1. d = Epoch(y) + doy
    BY <1>1, ErasFit, SMTT(20)
  <2>2. DateOf(Epoch(y) + doy) = DateOfDay(y, doy)
    BY <1>3, <1>4, DateOfYearDay, SMTT(20)
  <2> QED
    BY <2>1, <2>2, SMTT(20)
<1>6. DateOf(d) = DateIn(y, mp, doy)
  BY <1>3, <1>5, SMTT(20) DEF DateOfDay
<1>7. doy - MonthStart(mp) + 1 = d - FirstDay(y, mp) + 1
  BY <1>1, <1>2, ErasFit, SMTT(20) DEF FirstDay
<1> QED
  BY <1>6, <1>7, SMTT(20) DEF DateIn, YearIn, MonthIn, MonthStart

\* Every day is in a month.
LEMMA DayHasMonth ==
    ASSUME NEW d \in Int
    PROVE  \E y \in Int, mp \in Int : IsOfMonth(d, y, mp)
<1>0. PICK y \in Int, doy \in Int : IsDayOf(d, y, doy)
  BY DayHasYear, SMTT(20)
<1>1. /\ 0 <= doy /\ doy <= 365 /\ YearStart(y % 400) + doy < YearEnd(y % 400)
      /\ d = Epoch(y) + doy
  BY <1>0, SMTT(20) DEF IsDayOf
<1>2. PICK mp \in Int : 0 <= mp /\ mp <= 11 /\ MonthStart(mp) <= doy /\ doy < MonthStart(mp + 1)
  <2>1. /\ (5 * doy + 2) \div 153 \in 0..11
        /\ (153 * ((5 * doy + 2) \div 153) + 2) \div 5 <= doy
        /\ doy < (153 * (((5 * doy + 2) \div 153) + 1) + 2) \div 5
    BY <1>1, MonthFits, SMTT(20)
  <2> QED
    BY <2>1, SMTT(20) DEF MonthStart
<1>3. d < Epoch(y + 1)
  <2>1. Epoch(y + 1) = Epoch(y) + YearEnd(y % 400) - YearStart(y % 400)
    BY YearsMeet, SMTT(20)
  <2>2. Epoch(y) \in Int /\ YearStart(y % 400) \in Int /\ YearEnd(y % 400) \in Int
    BY ErasFit, SMTT(20)
  <2> QED
    BY <1>1, <2>1, <2>2, SMTT(20)
<1>4. FirstDay(y, mp) <= d /\ d < NextFirstDay(y, mp)
  <2>1. MonthStart(mp) \in Int /\ MonthStart(mp + 1) \in Int
    BY <1>2, SMTT(20) DEF MonthStart
  <2> QED
    BY <2>1, <1>1, <1>2, <1>3, ErasFit, SMTT(20) DEF FirstDay, NextFirstDay
<1>5. IsOfMonth(d, y, mp)
  BY <1>2, <1>4, SMTT(20) DEF IsOfMonth
<1> QED
  BY <1>2, <1>5, SMTT(20)

\* The day a month and a day of it name, the next month's too.
LEMMA DaysOfMonthDay ==
    ASSUME NEW y \in Int, NEW mp \in Int, 0 <= mp, mp <= 11, NEW day \in Int
    PROVE  DaysOf(YearIn(y, mp), MonthIn(mp), day) = FirstDay(y, mp) + day - 1
<1> DEFINE month == MonthIn(mp)
<1>1. /\ month \in Int /\ (month - 1) \div 12 = 0 /\ ((month - 1) % 12) + 1 = month
      /\ (month + 9) % 12 = mp /\ ((month - 1) % 12 < 2 <=> mp >= 10)
  BY SMTT(20) DEF MonthIn
<1>2. YearIn(y, mp) + 0 - (IF mp >= 10 THEN 1 ELSE 0) = y
  BY SMTT(20) DEF YearIn
<1> HIDE DEF month
<1>3. DaysOf(YearIn(y, mp), month, day) = FromMarch(y, month, day)
  <2>1. CASE mp >= 10
    BY <1>1, <1>2, <2>1, SMTT(20) DEF DaysOf
  <2>2. CASE ~(mp >= 10)
    BY <1>1, <1>2, <2>2, SMTT(20) DEF DaysOf
  <2> QED
    BY <2>1, <2>2, SMTT(20)
<1>4. FromMarch(y, month, day) = FirstDay(y, mp) + day - 1
  BY <1>1, SMTT(20) DEF FromMarch, FirstDay, Epoch, YearStart, MonthStart
<1> QED
  BY <1>3, <1>4, SMTT(20) DEF month

\* The first of a month that is counted one too far is that of the next one.
LEMMA DaysOfNextMonth ==
    ASSUME NEW y \in Int, NEW mp \in Int, 0 <= mp, mp <= 11
    PROVE  DaysOf(YearIn(y, mp), MonthIn(mp) + 1, 1) = NextFirstDay(y, mp)
<1>1. CASE mp = 9
  <2>1. YearIn(y, mp) = y /\ MonthIn(mp) + 1 = 13
    BY <1>1, SMTT(20) DEF YearIn, MonthIn
  <2>2. DaysOf(y, 13, 1) = DaysOf(y + 1, 1, 1)
    BY SMTT(20) DEF DaysOf
  <2>3. YearIn(y, 10) = y + 1 /\ MonthIn(10) = 1
    BY SMTT(20) DEF YearIn, MonthIn
  <2>4. DaysOf(YearIn(y, 10), MonthIn(10), 1) = FirstDay(y, 10) + 1 - 1
    BY DaysOfMonthDay, SMTT(20)
  <2>5. FirstDay(y, 10) \in Int
    BY MonthsFit, SMTT(20)
  <2> QED
    BY <1>1, <2>1, <2>2, <2>3, <2>4, <2>5, SMTT(20) DEF NextFirstDay
<1>2. CASE mp = 11
  <2>1. YearIn(y, mp) = YearIn(y + 1, 0) /\ MonthIn(mp) + 1 = MonthIn(0)
    BY <1>2, SMTT(20) DEF YearIn, MonthIn
  <2>2. DaysOf(YearIn(y + 1, 0), MonthIn(0), 1) = FirstDay(y + 1, 0) + 1 - 1
    BY DaysOfMonthDay, SMTT(20)
  <2>3. FirstDay(y + 1, 0) = Epoch(y + 1)
    BY ErasFit, SMTT(20) DEF FirstDay, MonthStart
  <2> QED
    BY <1>2, <2>1, <2>2, <2>3, ErasFit, SMTT(20) DEF NextFirstDay
<1>3. CASE mp # 9 /\ mp # 11
  <2>1. YearIn(y, mp) = YearIn(y, mp + 1) /\ MonthIn(mp) + 1 = MonthIn(mp + 1)
    BY <1>3, SMTT(20) DEF YearIn, MonthIn
  <2>2. DaysOf(YearIn(y, mp + 1), MonthIn(mp + 1), 1) = FirstDay(y, mp + 1) + 1 - 1
    BY <1>3, DaysOfMonthDay, SMTT(20)
  <2>3. FirstDay(y, mp + 1) \in Int
    BY <1>3, MonthsFit, SMTT(20)
  <2> QED
    BY <1>3, <2>1, <2>2, <2>3, SMTT(20) DEF NextFirstDay
<1> QED
  BY <1>1, <1>2, <1>3, SMTT(20)

\* A day comes back from its date, and days are counted on within a month.
LEMMA DatesComeBack ==
    ASSUME NEW d \in Int
    PROVE  /\ DateOf(d) = [year |-> DateOf(d).year, month |-> DateOf(d).month,
                           day |-> DateOf(d).day]
           /\ DateOf(d).day \in Int
           /\ \A n \in Int : DaysOf(DateOf(d).year, DateOf(d).month, DateOf(d).day + n) = d + n
<1>0. PICK y \in Int, mp \in Int : IsOfMonth(d, y, mp)
  BY DayHasMonth, SMTT(20)
<1>1. /\ 0 <= mp /\ mp <= 11
      /\ FirstDay(y, mp) <= d /\ d < NextFirstDay(y, mp)
  BY <1>0, SMTT(20) DEF IsOfMonth
<1>2. DateOf(d) = [year |-> YearIn(y, mp), month |-> MonthIn(mp),
                   day |-> d - FirstDay(y, mp) + 1]
  BY <1>1, DateOfMonthDay, SMTT(20)
<1>3. FirstDay(y, mp) \in Int
  BY <1>1, MonthsFit, SMTT(20)
<1>4. ASSUME NEW n \in Int
      PROVE  DaysOf(DateOf(d).year, DateOf(d).month, DateOf(d).day + n) = d + n
  <2>1. DaysOf(YearIn(y, mp), MonthIn(mp), d - FirstDay(y, mp) + 1 + n)
          = FirstDay(y, mp) + (d - FirstDay(y, mp) + 1 + n) - 1
    <3>1. d - FirstDay(y, mp) + 1 + n \in Int
      BY <1>3, SMTT(20)
    <3> QED
      BY <1>1, <3>1, DaysOfMonthDay, SMTT(20)
  <2>2. FirstDay(y, mp) + (d - FirstDay(y, mp) + 1 + n) - 1 = d + n
    BY <1>3, SMTT(20)
  <2> QED
    BY <1>2, <2>1, <2>2, SMTT(20)
<1> QED
  BY <1>2, <1>3, <1>4, SMTT(20)

------------------------------------------------------------------------------
(* The days of a zone, whichever way its clocks turn. *)

\* The turns of the clocks, as hours of the epoch.
LEMMA TurnsAre ==
    /\ UTC(2026, 4, 4, 14) = 493142 /\ UTC(2026, 9, 26, 14) = 497342
    /\ UTC(2026, 3, 8, 5) = 492485 /\ UTC(2026, 11, 1, 5) = 498197
    /\ UTC(2026, 3, 8, 4) = 492484
BY SMTT(20) DEF UTC, DaysOf, FromMarch

LEMMA OffsetsAre ==
    ASSUME NEW t \in Int
    PROVE  /\ Offset("Asia/Seoul", t) = 9
           /\ Offset("Pacific/Auckland", t) = IF 493142 <= t /\ t < 497342 THEN 12 ELSE 13
           /\ Offset("America/Havana", t) = IF 492485 <= t /\ t < 498197 THEN -4 ELSE -5
BY TurnsAre, SMTT(20) DEF Offset

DayIn(t, zone) == (t + Offset(zone, t)) \div 24
HourIn(t, zone) == (t + Offset(zone, t)) % 24

\* The day and the hour of an instant add up to its local time.
LEMMA ZoneDay ==
    ASSUME NEW zone \in Zones, NEW t \in Int
    PROVE  /\ Offset(zone, t) \in {9, 12, 13, -4, -5}
           /\ DayIn(t, zone) \in Int /\ HourIn(t, zone) \in 0..23
           /\ 24 * DayIn(t, zone) + HourIn(t, zone) = t + Offset(zone, t)
<1>1. Offset(zone, t) \in {9, 12, 13, -4, -5}
  BY OffsetsAre, SMTT(20) DEF Zones
<1>2. PICK l \in Int : l = t + Offset(zone, t)
  BY <1>1, SMTT(20)
<1>3. l \div 24 \in Int /\ l % 24 \in 0..23 /\ 24 * (l \div 24) + (l % 24) = l
  BY SMTT(20)
<1> QED
  BY <1>1, <1>2, <1>3, SMTT(20) DEF DayIn, HourIn

\* The clock of a zone shows the date of the day of an instant.
LEMMA ZoneClock ==
    ASSUME NEW zone \in Zones, NEW t \in Int
    PROVE  WallClock(t, zone) =
              [year |-> DateOf(DayIn(t, zone)).year, month |-> DateOf(DayIn(t, zone)).month,
               day |-> DateOf(DayIn(t, zone)).day, hour |-> HourIn(t, zone)]
BY SMTT(20) DEF WallClock, Wall, At, DayIn, HourIn

\* Read without its zone, a clock is ahead by the offset, and so the offset that is
\* read off it is the one of the zone.
LEMMA ZoneOffset ==
    ASSUME NEW zone \in Zones, NEW t \in Int
    PROVE  /\ Unzoned(WallClock(t, zone)) = t + Offset(zone, t)
           /\ OffsetOf(t, zone) = Offset(zone, t)
<1>1. PICK d \in Int : d = DayIn(t, zone)
  BY ZoneDay, SMTT(20)
<1>2. /\ DaysOf(DateOf(d).year, DateOf(d).month, DateOf(d).day + 0) = d + 0
      /\ DateOf(d).day \in Int
  BY DatesComeBack, SMTT(20)
<1>3. DaysOf(DateOf(d).year, DateOf(d).month, DateOf(d).day) = d
  BY <1>2, SMTT(20)
<1>4. Unzoned(WallClock(t, zone)) = d * 24 + HourIn(t, zone)
  BY <1>1, <1>3, ZoneClock, SMTT(20) DEF Unzoned, UTC
<1> QED
  BY <1>1, <1>4, ZoneDay, SMTT(20) DEF OffsetOf

MidnightIn(d, zone) == 24 * d - Offset(zone, 24 * d - Offset(zone, 24 * d))

\* It is what the two passes of SettleOffset make of the clock.
LEMMA ZoneMidnight ==
    ASSUME NEW zone \in Zones, NEW d \in Int
    PROVE  MidnightIn(d, zone) \in Int /\ SettleOffset(24 * d, zone) = MidnightIn(d, zone)
<1>1. PICK c \in Int : c = 24 * d
  BY SMTT(20)
<1>2. OffsetOf(c, zone) = Offset(zone, c) /\ Offset(zone, c) \in Int
  BY ZoneOffset, ZoneDay, SMTT(20)
<1>3. PICK g \in Int : g = c - Offset(zone, c)
  BY <1>2, SMTT(20)
<1>4. OffsetOf(g, zone) = Offset(zone, g) /\ Offset(zone, g) \in Int
  BY ZoneOffset, ZoneDay, SMTT(20)
<1> QED
  BY <1>1, <1>2, <1>3, <1>4, SMTT(20) DEF SettleOffset, MidnightIn

\* The midnight of a day that has none: the clocks of Havana skip it.
SkippedMidnight == UTC(2026, 3, 8, 4)
Skipped(d, zone) == zone = "America/Havana" /\ MidnightIn(d, zone) = SkippedMidnight

\* The days of a zone are in order, and each begins at its midnight, if it has one.
LEMMA DaysAreOrdered ==
    ASSUME NEW zone \in Zones, NEW d \in Int, NEW t \in Int
    PROVE  /\ d <= DayIn(t, zone) => MidnightIn(d, zone) <= t
           /\ DayIn(t, zone) < d /\ ~Skipped(d, zone) => t < MidnightIn(d, zone)
<1>1. CASE zone = "Asia/Seoul"
  BY <1>1, OffsetsAre, SMTT(20) DEF DayIn, MidnightIn
<1>2. CASE zone = "Pacific/Auckland"
  <2>1. PICK c \in Int : c = 24 * d
    BY SMTT(20)
  <2>2. PICK g \in Int : g = c - Offset(zone, c)
    BY <1>2, OffsetsAre, SMTT(20)
  <2> QED
    BY <1>2, <2>1, <2>2, OffsetsAre, SMTT(20) DEF DayIn, MidnightIn
<1>3. CASE zone = "America/Havana"
  <2>1. PICK c \in Int : c = 24 * d
    BY SMTT(20)
  <2>2. PICK g \in Int : g = c - Offset(zone, c)
    BY <1>3, OffsetsAre, SMTT(20)
  <2> QED
    BY <1>3, <2>1, <2>2, OffsetsAre, TurnsAre, SMTT(20) DEF DayIn, MidnightIn, Skipped, SkippedMidnight
<1> QED
  BY <1>1, <1>2, <1>3, SMTT(20) DEF Zones

\* It is midnight there at its midnight.
LEMMA MidnightBegins ==
    ASSUME NEW zone \in Zones, NEW d \in Int, ~Skipped(d, zone)
    PROVE  DayIn(MidnightIn(d, zone), zone) = d /\ HourIn(MidnightIn(d, zone), zone) = 0
<1>1. PICK c \in Int : c = 24 * d
  BY SMTT(20)
<1>2. PICK g \in Int : g = c - Offset(zone, c)
  BY ZoneDay, SMTT(20)
<1>3. PICK m \in Int : m = c - Offset(zone, g)
  BY ZoneDay, SMTT(20)
<1>4. m = MidnightIn(d, zone)
  BY <1>1, <1>2, <1>3, SMTT(20) DEF MidnightIn
<1>5. m + Offset(zone, m) = c
  <2>1. CASE zone = "Asia/Seoul"
    BY <2>1, <1>3, OffsetsAre, SMTT(20)
  <2>2. CASE zone = "Pacific/Auckland"
    BY <2>2, <1>1, <1>2, <1>3, OffsetsAre, SMTT(20)
  <2>3. CASE zone = "America/Havana"
    BY <2>3, <1>1, <1>2, <1>3, <1>4, OffsetsAre, TurnsAre, SMTT(20) DEF Skipped, SkippedMidnight
  <2> QED
    BY <2>1, <2>2, <2>3, SMTT(20) DEF Zones
<1> QED
  BY <1>1, <1>4, <1>5, SMTT(20) DEF DayIn, HourIn

RangeIn(a, b, zone) == [start |-> MidnightIn(a, zone), end |-> MidnightIn(b, zone)]

\* A date is put on the clock of a zone in one way.
LEMMA MidnightOfDateIn ==
    ASSUME NEW zone \in Zones, NEW date, NEW d \in Int,
           DaysOf(date.year, date.month, date.day) = d
    PROVE  MidnightOf(date, zone) = MidnightIn(d, zone)
<1>1. UTC(date.year, date.month, date.day, 0) = 24 * d
  BY SMTT(20) DEF UTC
<1> QED
  BY <1>1, ZoneMidnight, SMTT(20) DEF MidnightOf, WallClockToUtc

\* What NextDate makes of a date and an hour.
LEMMA NextDates ==
    ASSUME NEW y, NEW month, NEW day, NEW hour
    PROVE  LET date == [year |-> y, month |-> month, day |-> day, hour |-> hour]
               first == [date EXCEPT !.day = 1]
               next(period) == NextDate(period, date)
           IN  /\ first.year = y /\ first.month = month /\ first.day = 1
               /\ next("day").year = y /\ next("day").month = month
               /\ next("day").day = day + 1
               /\ next("week").year = y /\ next("week").month = month
               /\ next("week").day = day + 7
               /\ next("month").year = y /\ next("month").month = month + 1
               /\ next("month").day = 1
<1> DEFINE date == [year |-> y, month |-> month, day |-> day, hour |-> hour]
<1>1. /\ NextDate("day", date) = [date EXCEPT !.day = @ + 1]
      /\ NextDate("week", date) = [date EXCEPT !.day = @ + 7]
      /\ NextDate("month", date) = [date EXCEPT !.month = @ + 1, !.day = 1]
  BY SMTT(20) DEF NextDate
<1>2. LET first == [date EXCEPT !.day = 1]
          next == [date EXCEPT !.day = @ + 1]
      IN  /\ first.year = y /\ first.month = month /\ first.day = 1
          /\ next.year = y /\ next.month = month /\ next.day = day + 1
  BY SMTT(20)
<1>3. LET next == [date EXCEPT !.day = @ + 7]
      IN  next.year = y /\ next.month = month /\ next.day = day + 7
  BY SMTT(20)
<1>4. LET next == [date EXCEPT !.month = @ + 1, !.day = 1]
      IN  next.year = y /\ next.month = month + 1 /\ next.day = 1
  BY SMTT(20)
<1> QED
  BY <1>1, <1>2, <1>3, <1>4, Zenon

\* A period of days from one to another: it begins at the midnight of the first for
\* each of its instants, and if there is one, ends at that of the last.
IsPeriod(period, a, b, zone) ==
    \A u \in Int : a <= DayIn(u, zone) /\ DayIn(u, zone) < b =>
        /\ PeriodStart(period, u, zone) = MidnightIn(a, zone)
        /\ ~Skipped(a, zone) => PeriodRange(period, u, zone) = RangeIn(a, b, zone)

\* A day goes to the next midnight.
LEMMA DaysArePeriods ==
    ASSUME NEW zone \in Zones, NEW d \in Int
    PROVE  IsPeriod("day", d, d + 1, zone)
<1>1. /\ DateOf(d).day \in Int
      /\ DaysOf(DateOf(d).year, DateOf(d).month, DateOf(d).day + 0) = d + 0
      /\ DaysOf(DateOf(d).year, DateOf(d).month, DateOf(d).day + 1) = d + 1
  BY DatesComeBack, SMTT(20)
<1>2. SUFFICES ASSUME NEW u \in Int, d <= DayIn(u, zone), DayIn(u, zone) < d + 1
               PROVE  /\ PeriodStart("day", u, zone) = MidnightIn(d, zone)
                      /\ ~Skipped(d, zone) => PeriodRange("day", u, zone) = RangeIn(d, d + 1, zone)
  BY SMTT(20) DEF IsPeriod
<1>3. PeriodStart("day", u, zone) = MidnightIn(d, zone)
  <2>1. PICK date : date = WallClock(u, zone)
    BY Zenon
  <2>2. DayIn(u, zone) = d
    <3>1. DayIn(u, zone) \in Int
      BY ZoneDay, Zenon
    <3> QED
      BY <1>2, <3>1, SMTT(20)
  <2>3. DaysOf(date.year, date.month, date.day) = d
    BY <1>1, <2>1, <2>2, ZoneClock, SMTT(20)
  <2> QED
    BY <2>1, <2>3, MidnightOfDateIn, SMTT(20) DEF PeriodStart, StartOfDay
<1>4. ASSUME ~Skipped(d, zone)
      PROVE  MidnightOf(NextDate("day", WallClock(MidnightIn(d, zone), zone)), zone)
               = MidnightIn(d + 1, zone)
  <2>1. WallClock(MidnightIn(d, zone), zone)
          = [year |-> DateOf(d).year, month |-> DateOf(d).month, day |-> DateOf(d).day, hour |-> 0]
    BY <1>4, MidnightBegins, ZoneMidnight, ZoneClock, SMTT(20)
  <2>2. PICK date : date = NextDate("day", WallClock(MidnightIn(d, zone), zone))
    BY Zenon
  <2>3. /\ date.year = DateOf(d).year /\ date.month = DateOf(d).month
        /\ date.day = DateOf(d).day + 1
    BY <1>1, <2>1, <2>2, NextDates, SMTT(20)
  <2>4. DaysOf(date.year, date.month, date.day) = d + 1
    BY <1>1, <2>3, SMTT(20)
  <2> QED
    BY <2>2, <2>4, MidnightOfDateIn, SMTT(20)
<1> QED
  BY <1>3, <1>4, SMTT(20) DEF PeriodRange, RangeFrom, RangeIn

Monday(d) == d - ((d + 3) % 7)

\* All seven days from a Monday have it as theirs.
LEMMA MondaysAreWeekly ==
    ASSUME NEW d \in Int
    PROVE  /\ Monday(d) \in Int /\ Monday(d) <= d /\ d < Monday(d) + 7
           /\ \A e \in Int : Monday(d) <= e /\ e < Monday(d) + 7 => Monday(e) = Monday(d)
<1> DEFINE q == (d + 3) \div 7
           r == (d + 3) % 7
<1>1. q \in Int /\ r \in 0..6 /\ d + 3 = 7 * q + r
  BY SMTT(20)
<1>2. Monday(d) = 7 * q - 3
  BY <1>1, SMTT(20) DEF Monday
<1> HIDE DEF q, r
<1>3. ASSUME NEW e \in Int, Monday(d) <= e, e < Monday(d) + 7
      PROVE  Monday(e) = Monday(d)
  BY <1>2, <1>3, SMTT(20) DEF Monday
<1> QED
  BY <1>1, <1>2, <1>3, SMTT(20)

\* A week goes to the seventh midnight after its Monday's.
LEMMA WeeksArePeriods ==
    ASSUME NEW zone \in Zones, NEW d \in Int, Monday(d) = d
    PROVE  IsPeriod("week", d, d + 7, zone)
<1>1. /\ DateOf(d).day \in Int
      /\ DaysOf(DateOf(d).year, DateOf(d).month, DateOf(d).day + 0) = d + 0
      /\ DaysOf(DateOf(d).year, DateOf(d).month, DateOf(d).day + 7) = d + 7
  BY DatesComeBack, SMTT(20)
<1>2. SUFFICES ASSUME NEW u \in Int, d <= DayIn(u, zone), DayIn(u, zone) < d + 7
               PROVE  /\ PeriodStart("week", u, zone) = MidnightIn(d, zone)
                      /\ ~Skipped(d, zone) => PeriodRange("week", u, zone) = RangeIn(d, d + 7, zone)
  BY SMTT(20) DEF IsPeriod
<1>3. PeriodStart("week", u, zone) = MidnightIn(d, zone)
  <2>1. PICK e \in Int : e = DayIn(u, zone)
    BY ZoneDay, SMTT(20)
  <2>2. /\ DaysOf(DateOf(e).year, DateOf(e).month, DateOf(e).day + 0) = e + 0
        /\ DateOf(e).day \in Int
    BY DatesComeBack, SMTT(20)
  <2>3. DayCount(WallClock(u, zone)) = e
    <3>1. PICK date : date = WallClock(u, zone)
      BY Zenon
    <3>2. DaysOf(date.year, date.month, date.day) = e
      BY <2>1, <2>2, <3>1, ZoneClock, SMTT(20)
    <3> QED
      BY <3>1, <3>2, SMTT(20) DEF DayCount
  <2>4. Monday(e) = d
    BY <1>2, <2>1, MondaysAreWeekly, SMTT(20)
  <2>5. MondayOf(e) = DateOf(d)
    BY <2>4, SMTT(20) DEF MondayOf, Monday
  <2>6. DaysOf(DateOf(d).year, DateOf(d).month, DateOf(d).day) = d
    BY <1>1, SMTT(20)
  <2> QED
    BY <2>3, <2>5, <2>6, MidnightOfDateIn, SMTT(20) DEF PeriodStart, StartOfWeek
<1>4. ASSUME ~Skipped(d, zone)
      PROVE  MidnightOf(NextDate("week", WallClock(MidnightIn(d, zone), zone)), zone)
               = MidnightIn(d + 7, zone)
  <2>1. WallClock(MidnightIn(d, zone), zone)
          = [year |-> DateOf(d).year, month |-> DateOf(d).month, day |-> DateOf(d).day, hour |-> 0]
    BY <1>4, MidnightBegins, ZoneMidnight, ZoneClock, SMTT(20)
  <2>2. PICK date : date = NextDate("week", WallClock(MidnightIn(d, zone), zone))
    BY Zenon
  <2>3. /\ date.year = DateOf(d).year /\ date.month = DateOf(d).month
        /\ date.day = DateOf(d).day + 7
    BY <1>1, <2>1, <2>2, NextDates, SMTT(20)
  <2>4. DaysOf(date.year, date.month, date.day) = d + 7
    BY <1>1, <2>3, SMTT(20)
  <2> QED
    BY <2>2, <2>4, MidnightOfDateIn, SMTT(20)
<1> QED
  BY <1>3, <1>4, SMTT(20) DEF PeriodRange, RangeFrom, RangeIn

\* A month goes to the midnight of the next one's first day.
LEMMA MonthsArePeriods ==
    ASSUME NEW zone \in Zones, NEW y \in Int, NEW mp \in Int, 0 <= mp, mp <= 11
    PROVE  IsPeriod("month", FirstDay(y, mp), NextFirstDay(y, mp), zone)
<1>1. /\ FirstDay(y, mp) \in Int /\ NextFirstDay(y, mp) \in Int
      /\ FirstDay(y, mp) < NextFirstDay(y, mp)
  BY MonthsFit, SMTT(20)
<1>2. PICK d \in Int, n \in Int : d = FirstDay(y, mp) /\ n = NextFirstDay(y, mp)
  BY <1>1, SMTT(20)
<1>3. SUFFICES ASSUME NEW u \in Int, d <= DayIn(u, zone), DayIn(u, zone) < n
               PROVE  /\ PeriodStart("month", u, zone) = MidnightIn(d, zone)
                      /\ ~Skipped(d, zone) => PeriodRange("month", u, zone) = RangeIn(d, n, zone)
  BY <1>2, SMTT(20) DEF IsPeriod
<1>4. PICK e \in Int : e = DayIn(u, zone)
  BY ZoneDay, SMTT(20)
<1>5. /\ DateOf(e).year = YearIn(y, mp) /\ DateOf(e).month = MonthIn(mp)
      /\ DateOf(d).year = YearIn(y, mp) /\ DateOf(d).month = MonthIn(mp)
      /\ DateOf(d).day \in Int
  BY <1>1, <1>2, <1>3, <1>4, DateOfMonthDay, DatesComeBack, SMTT(20)
<1>6. DaysOf(YearIn(y, mp), MonthIn(mp), 1) = d
  <2>1. DaysOf(YearIn(y, mp), MonthIn(mp), 1) = FirstDay(y, mp) + 1 - 1
    BY DaysOfMonthDay, SMTT(20)
  <2> QED
    BY <1>2, <2>1, SMTT(20)
<1>7. PeriodStart("month", u, zone) = MidnightIn(d, zone)
  <2>1. PICK date : date = [WallClock(u, zone) EXCEPT !.day = 1]
    BY Zenon
  <2>2. date.year = YearIn(y, mp) /\ date.month = MonthIn(mp) /\ date.day = 1
    BY <1>4, <1>5, <2>1, ZoneClock, NextDates, SMTT(20)
  <2>3. DaysOf(date.year, date.month, date.day) = d
    BY <1>6, <2>2, SMTT(20)
  <2>4. PeriodStart("month", u, zone) = MidnightOf(date, zone)
    <3>1. PeriodStart("month", u, zone) = StartOfMonth(u, zone)
      BY SMTT(20) DEF PeriodStart
    <3> QED
      BY <2>1, <3>1, Zenon DEF StartOfMonth
  <2> QED
    BY <2>3, <2>4, MidnightOfDateIn, SMTT(20)
<1>8. ASSUME ~Skipped(d, zone)
      PROVE  MidnightOf(NextDate("month", WallClock(MidnightIn(d, zone), zone)), zone)
               = MidnightIn(n, zone)
  <2>1. WallClock(MidnightIn(d, zone), zone)
          = [year |-> DateOf(d).year, month |-> DateOf(d).month, day |-> DateOf(d).day, hour |-> 0]
    BY <1>8, MidnightBegins, ZoneMidnight, ZoneClock, SMTT(20)
  <2>2. PICK date : date = NextDate("month", WallClock(MidnightIn(d, zone), zone))
    BY Zenon
  <2>3. date.year = YearIn(y, mp) /\ date.month = MonthIn(mp) + 1 /\ date.day = 1
    BY <1>5, <2>1, <2>2, NextDates, SMTT(20)
  <2>4. DaysOf(date.year, date.month, date.day) = n
    BY <1>2, <2>3, DaysOfNextMonth, SMTT(20)
  <2> QED
    BY <2>2, <2>4, MidnightOfDateIn, SMTT(20)
<1> QED
  BY <1>7, <1>8, SMTT(20) DEF PeriodRange, RangeFrom, RangeIn

\* Each instant is in a period.
LEMMA PeriodsOfZone ==
    ASSUME NEW zone \in Zones, NEW period \in RefreshPeriods, NEW t \in Int
    PROVE  \E a \in Int, b \in Int : /\ a <= DayIn(t, zone) /\ DayIn(t, zone) < b
                                     /\ IsPeriod(period, a, b, zone)
<1>1. PICK d \in Int : d = DayIn(t, zone)
  BY ZoneDay, SMTT(20)
<1>2. CASE period = "day"
  <2>1. d <= d /\ d < d + 1 /\ IsPeriod("day", d, d + 1, zone)
    BY DaysArePeriods, SMTT(20)
  <2> QED
    BY <1>1, <1>2, <2>1, SMTT(20)
<1>3. CASE period = "week"
  <2>1. PICK m \in Int : m = Monday(d) /\ m <= d /\ d < m + 7 /\ Monday(m) = m
    BY MondaysAreWeekly, SMTT(20)
  <2>2. IsPeriod("week", m, m + 7, zone)
    BY <2>1, WeeksArePeriods, SMTT(20)
  <2> QED
    BY <1>1, <1>3, <2>1, <2>2, SMTT(20)
<1>4. CASE period = "month"
  <2>1. PICK y \in Int, mp \in Int : IsOfMonth(d, y, mp)
    BY DayHasMonth, SMTT(20)
  <2>2. /\ 0 <= mp /\ mp <= 11 /\ FirstDay(y, mp) \in Int /\ NextFirstDay(y, mp) \in Int
        /\ FirstDay(y, mp) <= d /\ d < NextFirstDay(y, mp)
    BY <2>1, MonthsFit, SMTT(20) DEF IsOfMonth
  <2>3. IsPeriod("month", FirstDay(y, mp), NextFirstDay(y, mp), zone)
    BY <2>2, MonthsArePeriods, SMTT(20)
  <2> QED
    BY <1>1, <1>4, <2>2, <2>3, Zenon
<1> QED
  BY <1>2, <1>3, <1>4, SMTT(20) DEF RefreshPeriods

\* What is said of an instant and the range of its period there.
Tiles(period, t, zone, r) ==
    /\ r.start \in Int /\ r.end \in Int
    /\ WallClock(r.start, zone).hour = 0
    /\ r.start <= t /\ t < r.end
    /\ \A u \in Int : r.start <= u /\ u < r.end => PeriodRange(period, u, zone) = r
    /\ ParseInput(FormatIso(r.start, zone), zone) = r.start
    /\ ParseInput([wall |-> WallClock(r.start, zone), offset |-> NoOffset], zone) = r.start

\* In every zone, whichever way its clocks turn, an instant is in the period that is
\* computed for it, the whole of that period is computed for every instant in it, and
\* its start comes back from its text, with its offset or without; only next to a
\* midnight that the clocks skip it is not so (period-boundary.ts:85).
THEOREM PeriodsPartitionZones ==
    ASSUME NEW zone \in Zones, NEW period \in RefreshPeriods, NEW t \in Int
    PROVE  LET r == PeriodRange(period, t, zone)
           IN  \/ zone = "America/Havana" /\ SkippedMidnight \in {r.start, r.end}
               \/ Tiles(period, t, zone, r)
<1>1. PICK a \in Int, b \in Int : /\ a <= DayIn(t, zone) /\ DayIn(t, zone) < b
                                  /\ IsPeriod(period, a, b, zone)
  BY PeriodsOfZone, Zenon
<1>2. PICK r : r = PeriodRange(period, t, zone)
  BY Zenon
<1>3. CASE Skipped(a, zone)
  <2>1. r.start = MidnightIn(a, zone)
    BY <1>1, <1>2, SMTT(20) DEF IsPeriod, PeriodRange, RangeFrom
  <2> QED
    BY <1>2, <1>3, <2>1, Zenon DEF Skipped
<1>4. CASE ~Skipped(a, zone) /\ Skipped(b, zone)
  <2>1. r.end = MidnightIn(b, zone)
    BY <1>1, <1>2, <1>4, SMTT(20) DEF IsPeriod, RangeIn
  <2> QED
    BY <1>2, <1>4, <2>1, Zenon DEF Skipped
<1>5. CASE ~Skipped(a, zone) /\ ~Skipped(b, zone)
  <2>1. PICK s \in Int, e \in Int : s = MidnightIn(a, zone) /\ e = MidnightIn(b, zone)
    BY ZoneMidnight, SMTT(20)
  <2>2. r = [start |-> s, end |-> e]
    BY <1>1, <1>2, <1>5, <2>1, SMTT(20) DEF IsPeriod, RangeIn
  <2>3. ASSUME NEW u \in Int
        PROVE  s <= u /\ u < e <=> a <= DayIn(u, zone) /\ DayIn(u, zone) < b
    BY <1>5, <2>1, DaysAreOrdered, ZoneDay, SMTT(20)
  <2>4. ASSUME NEW u \in Int, s <= u, u < e PROVE PeriodRange(period, u, zone) = r
    BY <1>1, <1>5, <2>1, <2>2, <2>3, <2>4, SMTT(20) DEF IsPeriod, RangeIn
  <2>5. DayIn(s, zone) = a /\ HourIn(s, zone) = 0
    BY <1>5, <2>1, MidnightBegins, SMTT(20)
  <2>6. WallClock(s, zone).hour = 0
    BY <2>5, ZoneClock, SMTT(20)
  <2>7. Unzoned(WallClock(s, zone)) = s + Offset(zone, s) /\ s + Offset(zone, s) = 24 * a
    BY <2>5, ZoneOffset, ZoneDay, SMTT(20)
  <2>8. ParseInput(FormatIso(s, zone), zone) = s
    <3>1. FormatIso(s, zone) = [wall |-> WallClock(s, zone), offset |-> Offset(zone, s)]
      BY ZoneOffset, SMTT(20) DEF FormatIso
    <3>2. Offset(zone, s) \in {9, 12, 13, -4, -5}
      BY ZoneDay, SMTT(20)
    <3> QED
      BY <2>7, <3>1, <3>2, SMTT(20) DEF ParseInput, NoOffset
  <2>9. ParseInput([wall |-> WallClock(s, zone), offset |-> NoOffset], zone) = s
    BY <2>1, <2>7, ZoneMidnight, SMTT(20) DEF ParseInput
  <2>10. s <= t /\ t < e
    BY <1>1, <2>3, SMTT(20)
  <2>11. Tiles(period, t, zone, r)
    <3>1. r.start = s /\ r.end = e
      BY <2>2, SMTT(20)
    <3> QED
      BY <2>1, <2>4, <2>6, <2>8, <2>9, <2>10, <3>1, Zenon DEF Tiles
  <2> QED
    BY <1>2, <2>11, Zenon
<1> QED
  BY <1>3, <1>4, <1>5, Zenon

------------------------------------------------------------------------------
(* Seoul keeps one offset. *)

DayOf(t) == (t + 9) \div 24
Midnight(d) == 24 * d - 9
RangeOfDays(a, b) == [start |-> Midnight(a), end |-> Midnight(b)]

\* A day begins at its midnight, and its instants are up to the next one.
LEMMA SeoulDay ==
    ASSUME NEW t \in Int
    PROVE  DayOf(t) \in Int /\ 24 * DayOf(t) - 9 <= t /\ t < 24 * DayOf(t) + 15
BY SMTT(20) DEF DayOf

LEMMA DayOfMidnight ==
    ASSUME NEW d \in Int
    PROVE  Midnight(d) \in Int /\ DayOf(Midnight(d)) = d
BY SMTT(20) DEF Midnight, DayOf

\* Its days are those of its zone, and none is without its midnight.
LEMMA SeoulIsOfZones ==
    /\ KST \in Zones
    /\ \A t \in Int : DayIn(t, KST) = DayOf(t) /\ Offset(KST, t) = 9
    /\ \A d \in Int : MidnightIn(d, KST) = Midnight(d) /\ ~Skipped(d, KST)
<1>1. \A t \in Int : Offset(KST, t) = 9
  BY OffsetsAre, SMTT(20) DEF KST
<1>2. ASSUME NEW t \in Int PROVE DayIn(t, KST) = DayOf(t)
  BY <1>1, SMTT(20) DEF DayIn, DayOf
<1>3. ASSUME NEW d \in Int PROVE MidnightIn(d, KST) = Midnight(d)
  BY <1>1, SMTT(20) DEF MidnightIn, Midnight
<1>4. KST \in Zones /\ KST # "America/Havana"
  BY SMTT(20) DEF KST, Zones
<1> QED
  BY <1>1, <1>2, <1>3, <1>4, Zenon DEF Skipped

\* Read without its zone, the clock of Seoul is nine hours ahead.
LEMMA SeoulOffset ==
    ASSUME NEW t \in Int
    PROVE  Unzoned(WallClock(t, KST)) = t + 9 /\ OffsetOf(t, KST) = 9
BY SeoulIsOfZones, ZoneOffset, SMTT(20)

\* A period of a zone is one of Seoul.
LEMMA SeoulPeriod ==
    ASSUME NEW period, NEW a \in Int, NEW b \in Int, IsPeriod(period, a, b, KST),
           NEW t \in Int, a <= DayOf(t), DayOf(t) < b
    PROVE  RangeOf(period, t) = RangeOfDays(a, b)
BY SeoulIsOfZones, SMTT(20) DEF IsPeriod, RangeIn, RangeOf, RangeOfDays

\* The range of a day is from its midnight to the next one.
LEMMA DayRange ==
    ASSUME NEW t \in Int
    PROVE  RangeOf("day", t) = RangeOfDays(DayOf(t), DayOf(t) + 1)
<1>1. PICK d \in Int : d = DayOf(t)
  BY SeoulDay, SMTT(20)
<1>2. IsPeriod("day", d, d + 1, KST)
  BY SeoulIsOfZones, DaysArePeriods, SMTT(20)
<1> QED
  BY <1>1, <1>2, SeoulPeriod, SMTT(20)

\* The range of a week is seven days from its Monday.
LEMMA WeekRange ==
    ASSUME NEW t \in Int
    PROVE  RangeOf("week", t) = RangeOfDays(Monday(DayOf(t)), Monday(DayOf(t)) + 7)
<1>1. PICK d \in Int : d = DayOf(t)
  BY SeoulDay, SMTT(20)
<1>2. PICK m \in Int : m = Monday(d) /\ m <= d /\ d < m + 7 /\ Monday(m) = m
  BY MondaysAreWeekly, SMTT(20)
<1>3. IsPeriod("week", m, m + 7, KST)
  BY <1>2, SeoulIsOfZones, WeeksArePeriods, SMTT(20)
<1> QED
  BY <1>1, <1>2, <1>3, SeoulPeriod, SMTT(20)

Holds(a, b, t) == a <= DayOf(t) /\ DayOf(t) < b
IsRange(period, t, a, b) ==
    /\ a < b /\ Holds(a, b, t)
    /\ \A u \in Int : Holds(a, b, u) => RangeOf(period, u) = RangeOfDays(a, b)

\* The days of a period have it as theirs.
LEMMA RangesAreOfDays ==
    ASSUME NEW period \in RefreshPeriods, NEW t \in Int
    PROVE  \E a \in Int, b \in Int : IsRange(period, t, a, b)
<1>1. PICK a \in Int, b \in Int : /\ a <= DayIn(t, KST) /\ DayIn(t, KST) < b
                                  /\ IsPeriod(period, a, b, KST)
  BY SeoulIsOfZones, PeriodsOfZone, Zenon
<1>2. PICK d \in Int : d = DayOf(t)
  BY SeoulDay, SMTT(20)
<1>3. a <= d /\ d < b /\ a < b
  BY <1>1, <1>2, SeoulIsOfZones, SMTT(20)
<1>4. ASSUME NEW u \in Int, Holds(a, b, u) PROVE RangeOf(period, u) = RangeOfDays(a, b)
  <2>1. a <= DayOf(u) /\ DayOf(u) < b
    BY <1>4 DEF Holds
  <2> QED
    BY <1>1, <2>1, SeoulPeriod, SMTT(20)
<1> QED
  BY <1>2, <1>3, <1>4, Zenon DEF IsRange, Holds

\* Every instant of Seoul is in the period that is computed for it, and the whole
\* of that period is computed for every instant in it: no two periods overlap,
\* whatever the month and the leap year (period-boundary.ts:151).
THEOREM PeriodsPartition ==
    ASSUME NEW period \in RefreshPeriods, NEW t \in Int
    PROVE  LET r == RangeOf(period, t)
           IN  /\ r.start \in Int /\ r.end \in Int /\ r.start <= t /\ t < r.end
               /\ \A u \in Int : r.start <= u /\ u < r.end => RangeOf(period, u) = r
<1>1. PICK a \in Int, b \in Int : IsRange(period, t, a, b)
  BY RangesAreOfDays, SMTT(20)
<1>2. a < b /\ Holds(a, b, t) /\ RangeOf(period, t) = RangeOfDays(a, b)
  BY <1>1, SMTT(20) DEF IsRange
<1>3. Midnight(a) \in Int /\ Midnight(b) \in Int
  BY DayOfMidnight, SMTT(20)
<1>4. ASSUME NEW u \in Int PROVE Holds(a, b, u) <=> Midnight(a) <= u /\ u < Midnight(b)
  <2>1. DayOf(u) \in Int /\ 24 * DayOf(u) - 9 <= u /\ u < 24 * DayOf(u) + 15
    BY SeoulDay, SMTT(20)
  <2> QED
    BY <2>1, SMTT(20) DEF Holds, Midnight
<1>5. ASSUME NEW u \in Int, Midnight(a) <= u, u < Midnight(b)
      PROVE  RangeOf(period, u) = RangeOfDays(a, b)
  BY <1>1, <1>4, <1>5, SMTT(20) DEF IsRange
<1> QED
  BY <1>2, <1>3, <1>4, <1>5, SMTT(20) DEF RangeOfDays

\* Where one period ends the next one starts: no instant is between two
\* (period-boundary.ts:151).
THEOREM PeriodsMeet ==
    ASSUME NEW period \in RefreshPeriods, NEW t \in Int
    PROVE  RangeOf(period, RangeOf(period, t).end).start = RangeOf(period, t).end
<1>1. PICK r : r = RangeOf(period, t)
  BY SMTT(20)
<1>2. /\ r.start \in Int /\ r.end \in Int /\ r.start <= t /\ t < r.end
      /\ \A u \in Int : r.start <= u /\ u < r.end => RangeOf(period, u) = r
  BY <1>1, PeriodsPartition, SMTT(20)
<1>3. PICK q : q = RangeOf(period, r.end)
  BY SMTT(20)
<1>4. /\ q.start \in Int /\ q.end \in Int /\ q.start <= r.end /\ r.end < q.end
      /\ \A u \in Int : q.start <= u /\ u < q.end => RangeOf(period, u) = q
  BY <1>2, <1>3, PeriodsPartition, SMTT(20)
<1>5. PICK last \in Int : last = r.end - 1
  BY <1>2, SMTT(20)
<1>6. RangeOf(period, last) = r
  BY <1>2, <1>5, SMTT(20)
<1>7. q.start < r.end => RangeOf(period, last) = q
  BY <1>2, <1>4, <1>5, SMTT(20)
<1>8. ~(q.start < r.end)
  BY <1>4, <1>6, <1>7, SMTT(20)
<1>9. q.start = r.end
  BY <1>2, <1>4, <1>8, SMTT(20)
<1> QED
  BY <1>1, <1>3, <1>9, SMTT(20)

\* The period whose summary is due ends where the running one starts: it is
\* closed, the running one is not, and none is between them
\* (summary-due-coordinates.ts:53, period-evaluable.ts:36).
THEOREM DuePeriodIsTheLastClosed ==
    ASSUME NEW period \in RefreshPeriods, NEW now \in Int
    PROVE  LET due == SummaryDueStart(period, now)
           IN  /\ due \in Int /\ RangeOf(period, due).start = due
               /\ RangeOf(period, due).end = RangeOf(period, now).start
               /\ IsPeriodEvaluable(period, due, now)
               /\ ~IsPeriodEvaluable(period, RangeOf(period, now).start, now)
<1>1. PICK r : r = RangeOf(period, now)
  BY SMTT(20)
<1>2. /\ r.start \in Int /\ r.end \in Int /\ r.start <= now /\ now < r.end
      /\ \A u \in Int : r.start <= u /\ u < r.end => RangeOf(period, u) = r
  BY <1>1, PeriodsPartition, SMTT(20)
<1>3. PICK before \in Int : before = r.start - 1
  BY <1>2, SMTT(20)
<1>4. PICK q : q = RangeOf(period, before)
  BY SMTT(20)
<1>5. /\ q.start \in Int /\ q.end \in Int /\ q.start <= before /\ before < q.end
      /\ \A u \in Int : q.start <= u /\ u < q.end => RangeOf(period, u) = q
  BY <1>3, <1>4, PeriodsPartition, SMTT(20)
<1>6. RangeOf(period, r.start) = r
  BY <1>2, SMTT(20)
<1>7. r.start < q.end => RangeOf(period, r.start) = q
  BY <1>2, <1>3, <1>5, SMTT(20)
<1>8. ~(r.start < q.end)
  BY <1>2, <1>3, <1>5, <1>6, <1>7, SMTT(20)
<1>9. q.end = r.start
  BY <1>2, <1>3, <1>5, <1>8, SMTT(20)
<1>10. SummaryDueStart(period, now) = q.start
  BY <1>1, <1>3, <1>4, SMTT(20) DEF SummaryDueStart, PreviousStart
<1>11. RangeOf(period, q.start) = q
  BY <1>2, <1>3, <1>5, SMTT(20)
<1> QED
  BY <1>1, <1>2, <1>5, <1>6, <1>9, <1>10, <1>11, SMTT(20) DEF IsPeriodEvaluable

\* The days that are collected again each night are the last whole ones, up to the
\* midnight before now (recent-deletion-coordinates.ts:32).
THEOREM ClosedDaysAreWhole ==
    ASSUME NEW now \in Int, NEW days \in Nat
    PROVE  LET w == ClosedDaysWindow(now, days)
           IN  /\ w.end = RangeOf("day", now).start
               /\ w.start = w.end - 24 * days
               /\ RangeOf("day", w.start).start = w.start
<1>1. PICK d \in Int : d = DayOf(now)
  BY SeoulDay, SMTT(20)
<1>2. RangeOf("day", now) = RangeOfDays(d, d + 1)
  BY <1>1, DayRange, SMTT(20)
<1>3. StartOfDay(now, KST) = Midnight(d)
  BY <1>2, SMTT(20) DEF RangeOf, PeriodRange, PeriodStart, RangeFrom, RangeOfDays
<1>4. PICK m \in Int : m = Midnight(d) - 1 /\ DayOf(m) = d - 1
  <2>1. Midnight(d) - 1 \in Int /\ DayOf(Midnight(d) - 1) = d - 1
    BY SMTT(20) DEF Midnight, DayOf
  <2> QED
    BY <2>1, SMTT(20)
<1>5. RangeOf("day", m).end = Midnight(d)
  <2>1. RangeOf("day", m) = RangeOfDays(d - 1, (d - 1) + 1)
    BY <1>4, DayRange, SMTT(20)
  <2>2. (d - 1) + 1 = d
    BY SMTT(20)
  <2> QED
    BY <2>1, <2>2, SMTT(20) DEF RangeOfDays
<1>6. PICK s \in Int : /\ s = Midnight(d) - days * 24
                       /\ s = Midnight(d - days) /\ DayOf(s) = d - days
  <2>1. d - days \in Int /\ Midnight(d) - days * 24 = Midnight(d - days)
    BY SMTT(20) DEF Midnight
  <2> QED
    BY <2>1, DayOfMidnight, SMTT(20)
<1>7. RangeOf("day", s).start = s /\ StartOfDay(s, KST) = s
  <2>1. RangeOf("day", s) = RangeOfDays(d - days, d - days + 1)
    BY <1>6, DayRange, SMTT(20)
  <2>2. RangeOf("day", s).start = s
    BY <1>6, <2>1, SMTT(20) DEF RangeOfDays
  <2> QED
    BY <2>2, SMTT(20) DEF RangeOf, PeriodRange, PeriodStart, RangeFrom
<1>8. ClosedDaysWindow(now, days) = [start |-> s, end |-> Midnight(d)]
  BY <1>3, <1>4, <1>5, <1>6, <1>7, SMTT(20) DEF ClosedDaysWindow, RecentDeletionWindow, DaysUpTo
<1>9. Midnight(d) \in Int
  BY DayOfMidnight, SMTT(20)
<1> QED
  BY <1>2, <1>6, <1>7, <1>8, <1>9, SMTT(20) DEF RangeOfDays

\* The weeks of a backfill are whole ones that follow one another, the last being
\* that of the reference (backfill-plan.ts:53).
THEOREM BackfillWeeksFollow ==
    ASSUME NEW reference \in Int, NEW weeks \in Nat
    PROVE  LET plan == BackfillPlan(reference, weeks)
           IN  /\ DOMAIN plan = 1..weeks
               /\ \A i \in 1..weeks : RangeOf("week", plan[i].start) = plan[i]
               /\ \A i \in 1..(weeks - 1) : plan[i].end = plan[i + 1].start
               /\ weeks > 0 => plan[weeks] = RangeOf("week", reference)
<1>1. PICK d \in Int : d = DayOf(reference)
  BY SeoulDay, SMTT(20)
<1>2. PICK m \in Int : m = Monday(d) /\ Monday(m) = m
  <2>1. Monday(d) \in Int /\ Monday(Monday(d)) = Monday(d)
    BY MondaysAreWeekly, SMTT(20)
  <2> QED
    BY <2>1, SMTT(20)
<1>3. RangeOf("week", reference) = RangeOfDays(m, m + 7)
  BY <1>1, <1>2, WeekRange, SMTT(20)
<1>4. StartOfWeek(reference, KST) = Midnight(m)
  BY <1>3, SMTT(20) DEF RangeOf, PeriodRange, PeriodStart, RangeFrom, RangeOfDays
<1> DEFINE monday(i) == m - 7 * (weeks - i)
           plan == BackfillPlan(reference, weeks)
<1>5. ASSUME NEW k \in Int
      PROVE  RangeOf("week", Midnight(m - 7 * k)) = RangeOfDays(m - 7 * k, m - 7 * k + 7)
  <2>1. PICK e \in Int : e = m - 7 * k
    BY SMTT(20)
  <2>2. Monday(e) = e
    BY <1>2, <2>1, SMTT(20) DEF Monday
  <2>3. PICK t \in Int : t = Midnight(e) /\ DayOf(t) = e
    BY DayOfMidnight, SMTT(20)
  <2>4. RangeOf("week", t) = RangeOfDays(e, e + 7)
    BY <2>2, <2>3, WeekRange, SMTT(20)
  <2> QED
    BY <2>1, <2>3, <2>4, SMTT(20)
<1>6. ASSUME NEW i \in 1..weeks
      PROVE  /\ plan[i] = RangeOfDays(monday(i), monday(i) + 7)
             /\ RangeOf("week", plan[i].start) = plan[i]
  <2>1. PICK k \in Int : k = weeks - i
    BY SMTT(20)
  <2>2. plan[i] = RangeOf("week", Midnight(m) - k * 168)
    BY <1>4, <2>1, SMTT(20) DEF BackfillPlan, WeeksUpTo
  <2>3. Midnight(m) - k * 168 = Midnight(m - 7 * k)
    BY SMTT(20) DEF Midnight
  <2>4. RangeOf("week", Midnight(m - 7 * k)) = RangeOfDays(m - 7 * k, m - 7 * k + 7)
    BY <1>5, SMTT(20)
  <2>5. plan[i] = RangeOfDays(m - 7 * k, m - 7 * k + 7)
    BY <2>2, <2>3, <2>4, SMTT(20)
  <2>6. RangeOfDays(m - 7 * k, m - 7 * k + 7).start = Midnight(m - 7 * k)
    BY SMTT(20) DEF RangeOfDays
  <2> HIDE DEF plan
  <2>7. monday(i) = m - 7 * k
    BY <2>1, SMTT(20)
  <2>8. RangeOf("week", plan[i].start) = plan[i]
    BY <2>4, <2>5, <2>6, SMTT(20)
  <2> QED
    BY <2>5, <2>7, <2>8, SMTT(20)
<1>7. DOMAIN plan = 1..weeks
  BY SMTT(20) DEF BackfillPlan, WeeksUpTo
<1> HIDE DEF plan
<1>8. ASSUME NEW i \in 1..(weeks - 1) PROVE plan[i].end = plan[i + 1].start
  <2>1. PICK j \in 1..weeks : j = i + 1
    BY SMTT(20)
  <2>2. i \in 1..weeks /\ monday(i) + 7 = monday(j)
    BY <2>1, SMTT(20)
  <2>3. /\ plan[i] = RangeOfDays(monday(i), monday(i) + 7)
        /\ plan[j] = RangeOfDays(monday(j), monday(j) + 7)
    BY <1>6, <2>2, SMTT(20)
  <2> HIDE DEF monday
  <2>4. plan[i].end = Midnight(monday(i) + 7) /\ plan[j].start = Midnight(monday(j))
    BY <2>3, SMTT(20) DEF RangeOfDays
  <2> QED
    BY <2>1, <2>2, <2>4, SMTT(20)
<1>9. weeks > 0 => plan[weeks] = RangeOf("week", reference)
  <2>1. monday(weeks) = m
    BY SMTT(20)
  <2> QED
    BY <1>3, <1>6, <2>1, SMTT(20)
<1> QED
  BY <1>6, <1>7, <1>8, <1>9, Zenon DEF plan

------------------------------------------------------------------------------
(* The level of a unit. *)

\* An entry of an author and a unit, whatever its narrative and its volume.
EntryOf(a, u, n, d, c, v) ==
    [author |-> a, result |-> [unit |-> u, narrative |-> n, difficulty |-> d,
                               contribution |-> c, volume |-> v]]
IsEntry(e, a, u, d, c) == \E n, v : e = EntryOf(a, u, n, d, c, v)

\* What an entry is of.
LEMMA EntryFields ==
    ASSUME NEW e, NEW a, NEW u, NEW d, NEW c, IsEntry(e, a, u, d, c)
    PROVE  e.author = a /\ e.result.unit = u /\ e.result.contribution = c
BY SMT DEF IsEntry, EntryOf

\* An entry with another volume is of the same.
LEMMA NewVolume ==
    ASSUME NEW e, NEW a, NEW u, NEW d, NEW c, IsEntry(e, a, u, d, c), NEW w
    PROVE  IsEntry([e EXCEPT !.result["volume"] = w], a, u, d, c)
<1>1. PICK n, v : e = EntryOf(a, u, n, d, c, v)
  BY DEF IsEntry
<1>2. [e EXCEPT !.result["volume"] = w] = EntryOf(a, u, n, d, c, w)
  BY <1>1, SMT DEF EntryOf
<1> QED
  BY <1>2 DEF IsEntry

\* An entry with another narrative is of the same.
LEMMA NewNarrative ==
    ASSUME NEW e, NEW a, NEW u, NEW d, NEW c, IsEntry(e, a, u, d, c), NEW w
    PROVE  IsEntry([e EXCEPT !.result["narrative"] = w], a, u, d, c)
<1>1. PICK n, v : e = EntryOf(a, u, n, d, c, v)
  BY DEF IsEntry
<1>2. [e EXCEPT !.result["narrative"] = w] = EntryOf(a, u, w, d, c, v)
  BY <1>1, SMT DEF EntryOf
<1> QED
  BY <1>2 DEF IsEntry

\* An entry with another level is of the same author and unit.
LEMMA NewContribution ==
    ASSUME NEW e, NEW a, NEW u, NEW d, NEW c, IsEntry(e, a, u, d, c), NEW w
    PROVE  IsEntry([e EXCEPT !.result["contribution"] = w], a, u, d, w)
<1>1. PICK n, v : e = EntryOf(a, u, n, d, c, v)
  BY DEF IsEntry
<1>2. [e EXCEPT !.result["contribution"] = w] = EntryOf(a, u, n, d, w, v)
  BY <1>1, SMT DEF EntryOf
<1> QED
  BY <1>2 DEF IsEntry

\* A penalty for abuse changes no level.
LEMMA PenaltiesAreOfVolume ==
    ASSUME NEW entries, NEW i \in DOMAIN entries, NEW abuse,
           NEW a, NEW u, NEW d, NEW c, IsEntry(entries[i], a, u, d, c)
    PROVE  /\ DOMAIN ApplyAbuse(entries, abuse) = DOMAIN entries
           /\ IsEntry(ApplyAbuse(entries, abuse)[i], a, u, d, c)
BY NewVolume, Zenon DEF ApplyAbuse, Adjust, Every

\* The neutralisation of update counts changes no level.
LEMMA NeutralsAreOfVolume ==
    ASSUME NEW entries, NEW i \in DOMAIN entries, NEW neutral,
           NEW a, NEW u, NEW d, NEW c, IsEntry(entries[i], a, u, d, c)
    PROVE  /\ DOMAIN ApplyUpdateCount(entries, neutral) = DOMAIN entries
           /\ IsEntry(ApplyUpdateCount(entries, neutral)[i], a, u, d, c)
BY NewVolume, Zenon DEF ApplyUpdateCount, Adjust, Every

\* A mark changes no level.
LEMMA MarksAreOfNarrative ==
    ASSUME NEW entries, NEW i \in DOMAIN entries, NEW mark, NEW marked,
           NEW a, NEW u, NEW d, NEW c, IsEntry(entries[i], a, u, d, c)
    PROVE  /\ DOMAIN Annotate(entries, mark, marked) = DOMAIN entries
           /\ IsEntry(Annotate(entries, mark, marked)[i], a, u, d, c)
BY NewNarrative, Zenon DEF Annotate, Adjust, Every

\* The floor takes the units of the signal to zero and leaves the others.
LEMMA FloorIsOfUnits ==
    ASSUME NEW entries, NEW i \in DOMAIN entries, NEW quality,
           NEW a, NEW u, NEW d, NEW c, IsEntry(entries[i], a, u, d, c)
    PROVE  /\ DOMAIN ApplyQualityFloor(entries, quality) = DOMAIN entries
           /\ IsEntry(ApplyQualityFloor(entries, quality)[i], a, u, d,
                      IF u \in quality[a] THEN "zero" ELSE c)
<1>1. entries[i].author = a /\ entries[i].result.unit = u
  BY EntryFields, Zenon
<1>2. DOMAIN ApplyQualityFloor(entries, quality) = DOMAIN entries
  BY Zenon DEF ApplyQualityFloor, Adjust, Every
<1>3. ApplyQualityFloor(entries, quality)[i] =
         IF u \in quality[a] THEN [entries[i] EXCEPT !.result["contribution"] = "zero"]
         ELSE entries[i]
  BY <1>1, Zenon DEF ApplyQualityFloor, Adjust, Every
<1>4. IsEntry([entries[i] EXCEPT !.result["contribution"] = "zero"], a, u, d, "zero")
  BY NewContribution, Zenon
<1>5. CASE u \in quality[a]
  BY <1>2, <1>3, <1>4, <1>5, Zenon
<1>6. CASE u \notin quality[a]
  BY <1>2, <1>3, <1>6, Zenon
<1> QED
  BY <1>5, <1>6, Zenon

\* A lift raises the units of the authors of the signal that are not at zero.
LEMMA LiftsAreOfAuthors ==
    ASSUME NEW entries, NEW i \in DOMAIN entries, NEW lifted,
           NEW a, NEW u, NEW d, NEW c, IsEntry(entries[i], a, u, d, c)
    PROVE  /\ DOMAIN Uplift(entries, lifted) = DOMAIN entries
           /\ IsEntry(Uplift(entries, lifted)[i], a, u, d,
                      IF lifted[a] /\ c # "zero" THEN "high" ELSE c)
<1>1. entries[i].author = a /\ entries[i].result.contribution = c
  BY EntryFields, Zenon
<1>2. DOMAIN Uplift(entries, lifted) = DOMAIN entries
  BY Zenon DEF Uplift, Adjust, Every
<1>3. Uplift(entries, lifted)[i] =
         IF lifted[a] /\ c # "zero" THEN [entries[i] EXCEPT !.result["contribution"] = "high"]
         ELSE entries[i]
  BY <1>1, Zenon DEF Uplift, Adjust, Every
<1>4. IsEntry([entries[i] EXCEPT !.result["contribution"] = "high"], a, u, d, "high")
  BY NewContribution, Zenon
<1>5. CASE lifted[a] /\ c # "zero"
  BY <1>2, <1>3, <1>4, <1>5, Zenon
<1>6. CASE ~(lifted[a] /\ c # "zero")
  BY <1>2, <1>3, <1>6, Zenon
<1> QED
  BY <1>5, <1>6, Zenon

\* The level a unit ends with, of the one the model gave it.
Floored(signals, a, u, c) == IF u \in signals.quality[a] THEN "zero" ELSE c
Lifted(lifted, a, c) == IF lifted[a] /\ c # "zero" THEN "high" ELSE c
FinalLevel(signals, a, u, c) ==
    Lifted(signals.research, a,
           Lifted(signals.document, a,
                  Lifted(signals.notable, a, Floored(signals, a, u, c))))

\* All the adjustments of one entry, in the order of the pipeline.
LEMMA AdjustmentsOfOne ==
    ASSUME NEW entries, NEW signals, NEW i \in DOMAIN entries,
           NEW a, NEW u, NEW d, NEW c, IsEntry(entries[i], a, u, d, c)
    PROVE  LET results == ApplyAdjustments(entries, signals)
           IN  /\ DOMAIN results = DOMAIN entries
               /\ results[i].unit = u /\ results[i].contribution = FinalLevel(signals, a, u, c)
<1> DEFINE e1 == ApplyAbuse(entries, signals.abuse)
           e2 == ApplyUpdateCount(e1, signals.updateCount)
           e3 == ApplyQualityFloor(e2, signals.quality)
           e4 == ApplyUnderPerformerAnnotation(e3, signals.under)
           e5 == ApplyNotableAnnotation(e4, signals.notable)
           e6 == ApplyNotableUplift(e5, signals.notable)
           e7 == ApplyDocumentUplift(e6, signals.document)
           e8 == ApplyDocumentAnnotation(e7, signals.document)
           e9 == ApplyResearchUplift(e8, signals.research)
           c3 == Floored(signals, a, u, c)
           c6 == Lifted(signals.notable, a, c3)
           c7 == Lifted(signals.document, a, c6)
<1>0. ApplyAdjustments(entries, signals) = Every(e9, LAMBDA e : e.result)
  BY Zenon DEF ApplyAdjustments
<1>1. DOMAIN e1 = DOMAIN entries /\ IsEntry(e1[i], a, u, d, c)
  BY PenaltiesAreOfVolume, Zenon
<1> HIDE DEF e1
<1>2. DOMAIN e2 = DOMAIN entries /\ IsEntry(e2[i], a, u, d, c)
  BY <1>1, NeutralsAreOfVolume, Zenon
<1> HIDE DEF e2
<1>3. DOMAIN e3 = DOMAIN entries /\ IsEntry(e3[i], a, u, d, c3)
  BY <1>2, FloorIsOfUnits, Zenon DEF Floored
<1> HIDE DEF e3, c3
<1>4. DOMAIN e4 = DOMAIN entries /\ IsEntry(e4[i], a, u, d, c3)
  <2>1. e4 = Annotate(e3, "under", signals.under)
    BY Zenon DEF ApplyUnderPerformerAnnotation
  <2> HIDE DEF e4
  <2>2. /\ DOMAIN Annotate(e3, "under", signals.under) = DOMAIN e3
        /\ IsEntry(Annotate(e3, "under", signals.under)[i], a, u, d, c3)
    BY <1>3, MarksAreOfNarrative, Zenon
  <2> QED
    BY <1>3, <2>1, <2>2, Zenon
<1> HIDE DEF e4
<1>5. DOMAIN e5 = DOMAIN entries /\ IsEntry(e5[i], a, u, d, c3)
  <2>1. e5 = Annotate(e4, "notable", signals.notable)
    BY Zenon DEF ApplyNotableAnnotation
  <2> HIDE DEF e5
  <2>2. /\ DOMAIN Annotate(e4, "notable", signals.notable) = DOMAIN e4
        /\ IsEntry(Annotate(e4, "notable", signals.notable)[i], a, u, d, c3)
    BY <1>4, MarksAreOfNarrative, Zenon
  <2> QED
    BY <1>4, <2>1, <2>2, Zenon
<1> HIDE DEF e5
<1>6. DOMAIN e6 = DOMAIN entries /\ IsEntry(e6[i], a, u, d, c6)
  BY <1>5, LiftsAreOfAuthors, Zenon DEF ApplyNotableUplift, Lifted
<1> HIDE DEF e6, c6
<1>7. DOMAIN e7 = DOMAIN entries /\ IsEntry(e7[i], a, u, d, c7)
  BY <1>6, LiftsAreOfAuthors, Zenon DEF ApplyDocumentUplift, Lifted
<1> HIDE DEF e7, c7
<1>8. DOMAIN e8 = DOMAIN entries /\ IsEntry(e8[i], a, u, d, c7)
  <2>1. e8 = Annotate(e7, "document", signals.document)
    BY Zenon DEF ApplyDocumentAnnotation
  <2> HIDE DEF e8
  <2>2. /\ DOMAIN Annotate(e7, "document", signals.document) = DOMAIN e7
        /\ IsEntry(Annotate(e7, "document", signals.document)[i], a, u, d, c7)
    BY <1>7, MarksAreOfNarrative, Zenon
  <2> QED
    BY <1>7, <2>1, <2>2, Zenon
<1> HIDE DEF e8
<1>9. DOMAIN e9 = DOMAIN entries /\ IsEntry(e9[i], a, u, d, Lifted(signals.research, a, c7))
  BY <1>8, LiftsAreOfAuthors, Zenon DEF ApplyResearchUplift, Lifted
<1>10. FinalLevel(signals, a, u, c) = Lifted(signals.research, a, c7)
  BY Zenon DEF FinalLevel, c3, c6, c7
<1> HIDE DEF e9
<1>11. /\ DOMAIN Every(e9, LAMBDA e : e.result) = DOMAIN entries
       /\ Every(e9, LAMBDA e : e.result)[i] = e9[i].result
  BY <1>9, Zenon DEF Every
<1>12. e9[i].result.unit = u /\ e9[i].result.contribution = FinalLevel(signals, a, u, c)
  <2>1. IsEntry(e9[i], a, u, d, FinalLevel(signals, a, u, c))
    BY <1>9, <1>10, Zenon
  <2> QED
    BY <2>1, EntryFields, Zenon
<1> QED
  BY <1>0, <1>11, <1>12, Zenon

IsTrivial(units, i) ==
    \E j \in DOMAIN units : /\ units[j].unit = units[i].unit
                            /\ units[j].author = units[i].author
                            /\ units[j].titleLength <= TITLE_FLOOR
LevelStands(units, routing, generate, results, i) ==
    LET answered == ScoreUnit(units[i], routing, generate).contribution
        level == results[i].contribution
    IN  /\ results[i].unit = units[i].unit
        /\ IsTrivial(units, i) => level = "zero"
        /\ ~IsTrivial(units, i) => level = answered \/ (level = "high" /\ answered # "zero")

\* A unit with a trivial title contributes nothing, whatever the model answers and
\* whatever of its author's is lifted; any other keeps its level or is lifted to the
\* highest, unless it contributed nothing before
\* (evaluation-quality-adjust.ts:119, evaluation-notable-contribution-adjust.ts:217).
THEOREM TrivialUnitsStayAtZero ==
    ASSUME NEW activities, NEW routing, NEW generate
    PROVE  LET units == ExcludeSelfFollowUps(DedupTemporal(Every(activities, Input)))
               results == EvaluateActivities(activities, routing, generate)
           IN  \A i \in DOMAIN units : /\ DOMAIN results = DOMAIN units
                                       /\ LevelStands(units, routing, generate, results, i)
<1> DEFINE units == ExcludeSelfFollowUps(DedupTemporal(Every(activities, Input)))
           entries == Every(units, LAMBDA x :
                          [author |-> x.author, result |-> ScoreUnit(x, routing, generate)])
           signals == Signals(units)
           results == ApplyAdjustments(entries, signals)
<1>1. EvaluateActivities(activities, routing, generate) = results
  BY Zenon DEF EvaluateActivities
<1> HIDE DEF units
<1>2. ASSUME NEW i \in DOMAIN units
      PROVE  DOMAIN results = DOMAIN units /\ LevelStands(units, routing, generate, results, i)
  <2> DEFINE answered == ScoreUnit(units[i], routing, generate).contribution
             a == units[i].author
             u == units[i].unit
  <2>1. /\ DOMAIN entries = DOMAIN units
        /\ entries[i] = [author |-> a, result |-> ScoreUnit(units[i], routing, generate)]
    BY Zenon DEF Every
  <2>2. PICK d : IsEntry(entries[i], a, u, d, answered)
    <3>1. \E n, d, c, v : ScoreUnit(units[i], routing, generate) =
              [unit |-> u, narrative |-> n, difficulty |-> d, contribution |-> c, volume |-> v]
      BY Zenon DEF ScoreUnit
    <3>2. PICK n, d, c, v : ScoreUnit(units[i], routing, generate) =
              [unit |-> u, narrative |-> n, difficulty |-> d, contribution |-> c, volume |-> v]
      BY <3>1, Zenon
    <3>3. c = answered
      BY <3>2, SMT
    <3>4. IsEntry(entries[i], a, u, d, c)
      BY <2>1, <3>2, Zenon DEF IsEntry, EntryOf
    <3> QED
      BY <3>3, <3>4, Zenon
  <2>3. u \in signals.quality[a] <=> IsTrivial(units, i)
    <3>1. signals.quality = QualitySignal(units)
      BY SMT DEF Signals
    <3>2. a \in Authors(units)
      BY Zenon DEF Authors
    <3>3. QualitySignal(units)[a] = UnitsWhere(units, a, LAMBDA x : x.titleLength <= TITLE_FLOOR)
      BY <3>2, Zenon DEF QualitySignal
    <3> QED
      BY <3>1, <3>3, SMT DEF UnitsWhere, Of, IsTrivial
  <2> HIDE DEF entries, signals
  <2>4. /\ DOMAIN results = DOMAIN units
        /\ results[i].unit = u /\ results[i].contribution = FinalLevel(signals, a, u, answered)
    <3>1. i \in DOMAIN entries
      BY <2>1, Zenon
    <3> HIDE DEF a, u, answered
    <3>2. /\ DOMAIN ApplyAdjustments(entries, signals) = DOMAIN entries
          /\ ApplyAdjustments(entries, signals)[i].unit = u
          /\ ApplyAdjustments(entries, signals)[i].contribution = FinalLevel(signals, a, u, answered)
      BY <2>2, <3>1, AdjustmentsOfOne
    <3> QED
      BY <2>1, <3>2, Zenon
  <2> HIDE DEF results
  <2>5. IsTrivial(units, i) => FinalLevel(signals, a, u, answered) = "zero"
    BY <2>3, SMT DEF FinalLevel, Floored, Lifted
  <2>6. ~IsTrivial(units, i) => \/ FinalLevel(signals, a, u, answered) = answered
                               \/ (FinalLevel(signals, a, u, answered) = "high" /\ answered # "zero")
    BY <2>3, SMT DEF FinalLevel, Floored, Lifted
  <2> QED
    BY <2>4, <2>5, <2>6, Zenon DEF LevelStands
<1> QED
  BY <1>1, <1>2, Zenon DEF units

------------------------------------------------------------------------------
(* Numbers. *)

\* A quotient, by what it leaves.
LEMMA DivFits ==
    ASSUME NEW n \in Nat, NEW size \in Nat, size > 0
    PROVE  /\ n \div size \in Nat
           /\ (n \div size) * size <= n /\ n < (n \div size) * size + size
BY SMTT(20)

\* A set of natural numbers has a least one, if it has any.
LEMMA LeastOfSet ==
    ASSUME NEW S \in SUBSET Nat, S # {}
    PROVE  \E m \in S : \A n \in S : m <= n
<1>1. IsWellFoundedOn(OpToRel(<, Nat), Nat)
  BY NatLessThanWellFounded, Zenon
<1>2. PICK m \in S : \A n \in S : ~(<<n, m>> \in OpToRel(<, Nat))
  BY <1>1, WFMin, Zenon
<1>3. \A n \in S : ~(n < m)
  BY <1>2, Zenon DEF OpToRel
<1> QED
  BY <1>3, SMT

\* Multiples of a size follow one another.
LEMMA ProductRises ==
    ASSUME NEW i \in Nat, NEW j \in Nat, NEW size \in Nat, i < j
    PROVE  i * size \in Nat /\ j * size \in Nat /\ i * size + size <= j * size
           /\ (i + 1) * size = i * size + size
<1>1. (i + 1) * size = i * size + size
  BY SMT
<1>2. PICK k \in Nat : j = i + 1 + k
  BY SMT
<1>3. j * size = (i + 1) * size + k * size /\ k * size \in Nat
  BY <1>2, SMT
<1> QED
  BY <1>1, <1>3, SMT

------------------------------------------------------------------------------
(* Plans: the periods of a range and of a window, and the coordinates that *)
(* are asked for, collected and evaluated again.                           *)

\* The starts that follow one another, from the one of the first instant.
IsAnchors(period, first, longest, anchor) ==
    anchor = [n \in 0..longest |->
                 IF n = 0 THEN RangeOf(period, first).start
                 ELSE RangeOf(period, anchor[n - 1]).end]

\* They exist, however many.
LEMMA AnchorsExist ==
    ASSUME NEW period, NEW first, NEW longest \in Nat
    PROVE  \E anchor : IsAnchors(period, first, longest, anchor)
<1> DEFINE S == {n \in Nat : ~\E anchor : IsAnchors(period, first, n, anchor)}
<1>1. SUFFICES ASSUME S # {} PROVE FALSE
  OBVIOUS
<1>2. PICK m \in S : \A n \in S : m <= n
  BY <1>1, LeastOfSet
<1>3. m # 0
  <2>1. IsAnchors(period, first, 0, [n \in 0..0 |-> RangeOf(period, first).start])
    BY SMT DEF IsAnchors
  <2> QED
    BY <2>1, <1>2
<1>4. m - 1 \in Nat /\ m - 1 \notin S
  BY <1>2, <1>3, SMT
<1>5. PICK a : IsAnchors(period, first, m - 1, a)
  BY <1>4
<1> DEFINE b == [n \in 0..m |-> IF n = m THEN RangeOf(period, a[m - 1]).end ELSE a[n]]
<1>6. IsAnchors(period, first, m, b)
  <2>1. ASSUME NEW n \in 0..m
        PROVE  b[n] = IF n = 0 THEN RangeOf(period, first).start
                      ELSE RangeOf(period, b[n - 1]).end
    <3>1. CASE n = m
      BY <3>1, <1>2, <1>3, SMT
    <3>2. CASE n # m
      <4>1. n \in 0..(m - 1) /\ b[n] = a[n] /\ (n # 0 => b[n - 1] = a[n - 1])
        BY <3>2, <1>2, <1>3, SMT
      <4>2. a[n] = IF n = 0 THEN RangeOf(period, first).start
                   ELSE RangeOf(period, a[n - 1]).end
        BY <4>1, <1>5, Zenon DEF IsAnchors
      <4> QED
        BY <4>1, <4>2
    <3> QED
      BY <3>1, <3>2
  <2>2. b = [n \in 0..m |-> b[n]]
    BY Zenon
  <2> HIDE DEF b
  <2> QED
    BY <2>1, <2>2, Zenon DEF IsAnchors
<1> QED
  BY <1>2, <1>6

\* So the starts of a plan are those.
LEMMA AnchorsFollow ==
    ASSUME NEW period, NEW first, NEW longest \in Nat
    PROVE  LET anchor == Anchors(period, first, longest)
           IN  /\ DOMAIN anchor = 0..longest
               /\ anchor[0] = RangeOf(period, first).start
               /\ \A n \in 0..(longest - 1) :
                     anchor[n + 1] = RangeOf(period, anchor[n]).end
<1> DEFINE anchor == Anchors(period, first, longest)
<1>1. anchor = CHOOSE a : IsAnchors(period, first, longest, a)
  BY Zenon DEF Anchors, IsAnchors
<1>2. IsAnchors(period, first, longest, anchor)
  BY <1>1, AnchorsExist, Zenon
<1> HIDE DEF anchor
<1>3. DOMAIN anchor = 0..longest
  BY <1>2, Zenon DEF IsAnchors
<1>4. \A n \in 0..longest : anchor[n] = IF n = 0 THEN RangeOf(period, first).start
                                        ELSE RangeOf(period, anchor[n - 1]).end
  BY <1>2, Zenon DEF IsAnchors
<1>5. ASSUME NEW n \in 0..(longest - 1)
      PROVE  anchor[n + 1] = RangeOf(period, anchor[n]).end
  <2>1. n + 1 \in 0..longest /\ n + 1 # 0 /\ n + 1 - 1 = n
    BY SMT
  <2> QED
    BY <1>4, <2>1, SMT
<1> QED
  BY <1>3, <1>4, <1>5, SMT DEF anchor

\* A period lasts a day or longer, is that of its start, and its end starts the next.
LEMMA PeriodFits ==
    ASSUME NEW period \in RefreshPeriods, NEW t \in Int
    PROVE  LET r == RangeOf(period, t)
           IN  /\ r.start \in Int /\ r.end \in Int /\ r.start <= t /\ t < r.end
               /\ r.start + 24 <= r.end
               /\ RangeOf(period, r.start) = r /\ RangeOf(period, r.end).start = r.end
               /\ \A u \in Int : r.start <= u /\ u < r.end => RangeOf(period, u) = r
<1>1. PICK r : r = RangeOf(period, t)
  BY Zenon
<1>2. /\ r.start \in Int /\ r.end \in Int /\ r.start <= t /\ t < r.end
      /\ \A u \in Int : r.start <= u /\ u < r.end => RangeOf(period, u) = r
  BY <1>1, PeriodsPartition, SMT
<1>3. RangeOf(period, r.start) = r
  BY <1>2, SMT
<1>4. RangeOf(period, r.end).start = r.end
  BY <1>1, PeriodsMeet, SMT
<1>5. r.start + 24 <= r.end
  <2>1. PICK a \in Int, b \in Int : IsRange(period, t, a, b)
    BY RangesAreOfDays, SMTT(20)
  <2>2. a < b /\ r = RangeOfDays(a, b)
    BY <1>1, <2>1, SMTT(20) DEF IsRange
  <2> QED
    BY <2>2, SMTT(20) DEF RangeOfDays, Midnight
<1> QED
  BY <1>1, <1>2, <1>3, <1>4, <1>5, Zenon

IsStart(period, t) == t \in Int /\ RangeOf(period, t).start = t

\* The n-th start is at least n days after the first.
LEMMA AnchorsRise ==
    ASSUME NEW period \in RefreshPeriods, NEW first \in Int, NEW longest \in Nat,
           NEW n \in 0..longest
    PROVE  LET anchor == Anchors(period, first, longest)
           IN  /\ IsStart(period, anchor[n])
               /\ n = 0 => anchor[n] <= first
               /\ n > 0 => first + 24 * (n - 1) < anchor[n]
<1> DEFINE anchor == Anchors(period, first, longest)
           Fits(k) == /\ IsStart(period, anchor[k])
                      /\ k = 0 => anchor[k] <= first
                      /\ k > 0 => first + 24 * (k - 1) < anchor[k]
           S == {k \in 0..longest : ~Fits(k)}
<1>1. SUFFICES ASSUME S # {} PROVE FALSE
  BY Zenon
<1>2. PICK m \in S : \A k \in S : m <= k
  <2>1. S \in SUBSET Nat
    BY SMT
  <2> HIDE DEF S
  <2> QED
    BY <1>1, <2>1, LeastOfSet, Zenon
<1>3. /\ anchor[0] = RangeOf(period, first).start
      /\ \A k \in 0..(longest - 1) : anchor[k + 1] = RangeOf(period, anchor[k]).end
  BY AnchorsFollow, Zenon
<1> HIDE DEF anchor
<1>4. m # 0
  <2>1. Fits(0)
    BY <1>3, PeriodFits, SMT DEF IsStart
  <2> QED
    BY <2>1, <1>2, Zenon
<1>5. PICK k \in 0..(longest - 1) : m = k + 1
  <2>1. m - 1 \in 0..(longest - 1) /\ m = (m - 1) + 1
    BY <1>2, <1>4, SMT
  <2> QED
    BY <2>1, Zenon
<1>6. k \in 0..longest /\ k \notin S
  BY <1>2, <1>5, SMT
<1>7. Fits(k)
  BY <1>6, Zenon
<1>8. PICK a \in Int : a = anchor[k] /\ RangeOf(period, a).start = a
  BY <1>7, Zenon DEF IsStart
<1>9. anchor[m] = RangeOf(period, a).end
  BY <1>3, <1>5, <1>8, Zenon
<1>10. PICK b \in Int : b = anchor[m] /\ RangeOf(period, b).start = b /\ a + 24 <= b
                        /\ (first >= a => (RangeOf(period, first).start = a => first < b))
  <2>1. PICK r : r = RangeOf(period, a)
    BY Zenon
  <2>2. /\ r.end \in Int /\ a + 24 <= r.end /\ RangeOf(period, r.end).start = r.end
        /\ \A u \in Int : r.start <= u /\ u < r.end => RangeOf(period, u) = r
    BY <1>8, <2>1, PeriodFits, SMT
  <2>3. ASSUME RangeOf(period, first).start = a PROVE first < r.end
    <3>1. PICK q : q = RangeOf(period, first)
      BY Zenon
    <3>2. q.start = a /\ first < q.end /\ RangeOf(period, q.start) = q
      BY <2>3, <3>1, PeriodFits, SMT
    <3> QED
      BY <3>2, <2>1, Zenon
  <2> QED
    BY <1>9, <2>1, <2>2, <2>3, SMT
<1>11. CASE k = 0
  <2>1. a <= first /\ RangeOf(period, first).start = a
    BY <1>3, <1>7, <1>8, <1>11, Zenon
  <2>2. m = 1 /\ first < b
    BY <1>5, <1>10, <1>11, <2>1, SMT
  <2>3. Fits(m)
    BY <1>10, <2>2, SMT DEF IsStart
  <2> QED
    BY <2>3, <1>2, Zenon
<1>12. CASE k # 0
  <2>1. first + 24 * (k - 1) < a
    BY <1>7, <1>8, <1>12, SMT
  <2>2. Fits(m)
    BY <1>5, <1>10, <1>12, <2>1, SMT DEF IsStart
  <2> QED
    BY <2>2, <1>2, Zenon
<1> QED
  BY <1>11, <1>12

\* The starts that are cut out of a range: the first is that of the range, each
\* next one is where the one before it ends, and the last one's end is not before
\* the end of the range.
IsCut(period, start, end, starts, count) ==
    /\ starts = [i \in 1..count |-> starts[i]]
    /\ starts[1] = RangeOf(period, start).start
    /\ \A i \in 1..count : IsStart(period, starts[i]) /\ starts[i] < end
    /\ \A i \in 2..count : /\ starts[i] = RangeOf(period, starts[i - 1]).end
                           /\ start < starts[i]
    /\ end <= RangeOf(period, starts[count]).end

\* The starts of a plan are such ones.
LEMMA PeriodStartsAreCut ==
    ASSUME NEW period \in RefreshPeriods, NEW range,
           range.start \in Int, range.end \in Int, range.start < range.end
    PROVE  \E count \in Nat \ {0} :
              IsCut(period, range.start, range.end, PeriodStarts(period, range), count)
<1>1. PICK first \in Int, end \in Int : first = range.start /\ end = range.end
  BY Zenon
<1>2. PICK longest \in Nat : /\ longest = ((range.end - range.start) \div 24) + 2
                             /\ first + 24 * (longest - 1) >= end
  <2>1. /\ ((end - first) \div 24) + 2 \in Nat
        /\ first + 24 * (((end - first) \div 24) + 2 - 1) >= end
    BY <1>1, SMTT(20)
  <2>2. PICK l : l = ((range.end - range.start) \div 24) + 2
    BY Zenon
  <2>3. l = ((end - first) \div 24) + 2
    BY <1>1, <2>2, Zenon
  <2>4. l \in Nat /\ first + 24 * (l - 1) >= end
    BY <2>1, <2>3, SMT
  <2> QED
    BY <2>2, <2>4, Zenon
<1>3. PICK anchor : anchor = Anchors(period, range.start, longest)
  BY Zenon
<1>4. /\ DOMAIN anchor = 0..longest /\ anchor[0] = RangeOf(period, first).start
      /\ \A n \in 0..(longest - 1) : anchor[n + 1] = RangeOf(period, anchor[n]).end
  BY <1>1, <1>3, AnchorsFollow, Zenon
<1>5. \A n \in 0..longest : /\ IsStart(period, anchor[n])
                            /\ n = 0 => anchor[n] <= first
                            /\ n > 0 => first + 24 * (n - 1) < anchor[n]
  BY <1>1, <1>3, AnchorsRise, Zenon
<1>6. longest > 0
  BY <1>1, <1>2, SMT
<1> DEFINE Late == {n \in 0..longest : anchor[n] >= end}
           IsCount(n) == anchor[n] >= end /\ \A m \in 0..(n - 1) : anchor[m] < end
<1>7. PICK n \in Late : \A m \in Late : n <= m
  <2>1. longest \in 0..longest
    BY <1>2, SMT
  <2>2. anchor[longest] >= end
    BY <1>2, <1>5, <1>6, <2>1, SMT DEF IsStart
  <2>3. Late \in SUBSET Nat /\ Late # {}
    BY <2>1, <2>2, SMT
  <2> HIDE DEF Late
  <2> QED
    BY <2>3, LeastOfSet, Zenon
<1>8. n \in DOMAIN anchor /\ IsCount(n)
  <2>1. n \in 0..longest /\ anchor[n] >= end
    BY <1>7, Zenon
  <2>2. ASSUME NEW m \in 0..(n - 1) PROVE anchor[m] < end
    <3>1. m \in 0..longest /\ ~(n <= m)
      BY <2>1, SMT
    <3>2. ~(anchor[m] >= end)
      BY <3>1, <1>7, Zenon
    <3> QED
      BY <1>5, <3>1, <3>2, SMT DEF IsStart
  <2> QED
    BY <1>4, <2>1, <2>2, Zenon
<1>9. PICK count : count = CHOOSE k \in DOMAIN anchor : IsCount(k)
  BY Zenon
<1>10. count \in DOMAIN anchor /\ IsCount(count)
  BY <1>8, <1>9, Zenon
<1>11. PeriodStarts(period, range) = [i \in 1..count |-> anchor[i - 1]]
  <2>1. PeriodStarts(period, range) = StartsBefore(range.end, anchor)
    BY <1>2, <1>3, Zenon DEF PeriodStarts
  <2> QED
    BY <2>1, <1>1, <1>9, Zenon DEF StartsBefore
<1>12. count \in 0..longest /\ count # 0
  <2>1. anchor[0] < end /\ anchor[0] \in Int
    <3>1. 0 \in 0..longest
      BY SMT
    <3> QED
      BY <1>1, <1>5, <3>1, SMT DEF IsStart
  <2>2. anchor[count] >= end
    BY <1>10, Zenon
  <2>3. count # 0
    BY <2>1, <2>2, SMT
  <2> QED
    BY <1>4, <1>10, <2>3, Zenon
<1>13. PICK starts : starts = PeriodStarts(period, range)
  BY Zenon
<1>14. \A i \in 1..count : starts[i] = anchor[i - 1]
  BY <1>11, <1>13, Zenon
<1>15. starts = [i \in 1..count |-> starts[i]]
  BY <1>11, <1>13, <1>14, Zenon
<1>16. starts[1] = RangeOf(period, first).start
  <2>1. 1 \in 1..count /\ 1 - 1 = 0
    BY <1>12, SMT
  <2> QED
    BY <1>4, <1>14, <2>1, SMT
<1>17. ASSUME NEW i \in 1..count
       PROVE  IsStart(period, starts[i]) /\ starts[i] < end
  <2>1. i - 1 \in 0..longest /\ i - 1 \in 0..(count - 1)
    BY <1>12, SMT
  <2> QED
    BY <1>5, <1>10, <1>14, <2>1, Zenon
<1>18. ASSUME NEW i \in 2..count
       PROVE  starts[i] = RangeOf(period, starts[i - 1]).end /\ first < starts[i]
  <2>1. PICK k \in 0..(longest - 1) : k = i - 2 /\ k + 1 = i - 1
    <3>1. i - 2 \in 0..(longest - 1) /\ (i - 2) + 1 = i - 1
      BY <1>12, SMT
    <3> QED
      BY <3>1, Zenon
  <2>2. starts[i] = anchor[k + 1] /\ starts[i - 1] = anchor[k]
    <3>1. i \in 1..count /\ i - 1 \in 1..count /\ (i - 1) - 1 = i - 2
      BY <1>12, SMT
    <3> QED
      BY <1>14, <2>1, <3>1, SMT
  <2>3. k + 1 \in 0..longest /\ k + 1 > 0 /\ 24 * ((k + 1) - 1) >= 0
    BY <2>1, SMT
  <2>4. first < anchor[k + 1]
    <3>1. first + 24 * ((k + 1) - 1) < anchor[k + 1] /\ anchor[k + 1] \in Int
      BY <1>5, <2>3, Zenon DEF IsStart
    <3> QED
      BY <2>1, <2>3, <3>1, SMT
  <2> QED
    BY <1>4, <2>2, <2>4, Zenon
<1>19. end <= RangeOf(period, starts[count]).end
  <2>1. PICK k \in 0..(longest - 1) : k = count - 1 /\ k + 1 = count
    <3>1. count - 1 \in 0..(longest - 1) /\ (count - 1) + 1 = count
      BY <1>12, SMT
    <3> QED
      BY <3>1, Zenon
  <2>2. starts[count] = anchor[k] /\ anchor[count] = RangeOf(period, anchor[k]).end
    <3>1. count \in 1..count
      BY <1>12, SMT
    <3> QED
      BY <1>4, <1>14, <2>1, <3>1, Zenon
  <2>3. anchor[count] \in Int /\ anchor[count] >= end
    BY <1>5, <1>10, <1>12, Zenon DEF IsStart
  <2> QED
    BY <2>2, <2>3, SMT
<1>20. IsCut(period, first, end, starts, count)
  BY <1>15, <1>16, <1>17, <1>18, <1>19, Zenon DEF IsCut
<1>21. count \in Nat \ {0}
  BY <1>12, SMT
<1> QED
  BY <1>1, <1>13, <1>20, <1>21, Zenon

\* The starts of a cut rise.
LEMMA StartsRise ==
    ASSUME NEW period \in RefreshPeriods, NEW start \in Int, NEW end \in Int, NEW starts,
           NEW count \in Nat \ {0}, IsCut(period, start, end, starts, count),
           NEW i \in 1..count, NEW j \in 1..count, i < j
    PROVE  starts[i] < starts[j]
<1> DEFINE S == {k \in (i + 1)..count : ~(starts[i] < starts[k])}
<1>1. SUFFICES ASSUME S # {} PROVE FALSE
  <2>1. j \in (i + 1)..count
    BY SMT
  <2> QED
    BY <2>1, Zenon
<1>2. PICK m \in S : \A k \in S : m <= k
  <2>1. S \in SUBSET Nat
    BY SMT
  <2> HIDE DEF S
  <2> QED
    BY <1>1, <2>1, LeastOfSet, Zenon
<1>3. m \in (i + 1)..count /\ ~(starts[i] < starts[m])
  BY <1>2, Zenon
<1>4. PICK k \in 1..count : /\ k = m - 1 /\ i <= k
                            /\ k # i => k \in (i + 1)..count /\ ~(m <= k)
  <2>1. /\ m - 1 \in 1..count /\ i <= m - 1
        /\ m - 1 # i => m - 1 \in (i + 1)..count /\ ~(m <= m - 1)
    BY <1>3, SMT
  <2> QED
    BY <2>1, Zenon
<1>5. m \in 2..count /\ m \in 1..count
  BY <1>3, SMT
<1>6. /\ starts[m] = RangeOf(period, starts[k]).end
      /\ starts[i] \in Int /\ starts[k] \in Int /\ starts[m] \in Int
  BY <1>4, <1>5, Zenon DEF IsCut, IsStart
<1>7. starts[k] < starts[m]
  <2>1. PICK t \in Int : t = starts[k]
    BY <1>6, Zenon
  <2> QED
    BY <1>6, <2>1, PeriodFits, SMT
<1>8. k = i \/ starts[i] < starts[k]
  BY <1>2, <1>4, Zenon
<1> QED
  BY <1>3, <1>6, <1>7, <1>8, SMT

\* Every instant of the range is of one of the periods that are cut out of it.
LEMMA CutCovers ==
    ASSUME NEW period \in RefreshPeriods, NEW start \in Int, NEW end \in Int, NEW starts,
           NEW count \in Nat \ {0}, IsCut(period, start, end, starts, count),
           NEW t \in Int, start <= t, t < end
    PROVE  \E i \in 1..count : RangeOf(period, t).start = starts[i]
<1> DEFINE S == {k \in 1..count : t < RangeOf(period, starts[k]).end}
<1>1. \A i \in 1..count : /\ starts[i] \in Int /\ RangeOf(period, starts[i]).start = starts[i]
                          /\ RangeOf(period, starts[i]).end \in Int
  BY PeriodFits, Zenon DEF IsCut, IsStart
<1>2. S # {}
  <2>1. count \in 1..count
    BY SMT
  <2>2. end <= RangeOf(period, starts[count]).end
    BY Zenon DEF IsCut
  <2>3. t < RangeOf(period, starts[count]).end
    BY <1>1, <2>1, <2>2, SMT
  <2> QED
    BY <2>1, <2>3, Zenon
<1>3. PICK m \in S : \A k \in S : m <= k
  <2>1. S \in SUBSET Nat
    BY SMT
  <2> HIDE DEF S
  <2> QED
    BY <1>2, <2>1, LeastOfSet, Zenon
<1>4. m \in 1..count /\ t < RangeOf(period, starts[m]).end
  BY <1>3, Zenon
<1>5. starts[m] <= t
  <2>1. CASE m = 1
    BY <1>1, <1>4, <2>1, PeriodFits, SMT DEF IsCut
  <2>2. CASE m # 1
    <3>1. PICK k \in 1..count : k = m - 1 /\ ~(m <= k)
      <4>1. m - 1 \in 1..count /\ ~(m <= m - 1)
        BY <1>4, <2>2, SMT
      <4> QED
        BY <4>1, Zenon
    <3>2. m \in 2..count
      BY <1>4, <2>2, SMT
    <3>3. starts[m] = RangeOf(period, starts[k]).end
      BY <3>1, <3>2, Zenon DEF IsCut
    <3>4. ~(t < RangeOf(period, starts[k]).end)
      BY <1>3, <3>1, Zenon
    <3> QED
      BY <1>1, <3>1, <3>3, <3>4, SMT
  <2> QED
    BY <2>1, <2>2, Zenon
<1>6. PICK r : r = RangeOf(period, starts[m])
  BY Zenon
<1>7. RangeOf(period, t) = r
  BY <1>1, <1>4, <1>5, <1>6, PeriodFits, SMT
<1> QED
  BY <1>1, <1>4, <1>6, <1>7, Zenon

\* The starts that are cut out of a range are those of the periods of its instants,
\* each once and the earliest first: no period that meets the range is left out
\* (evaluation-intended-period-coordinates.ts:146).
THEOREM StartsAreOfRange ==
    ASSUME NEW period \in RefreshPeriods, NEW range,
           range.start \in Int, range.end \in Int, range.start < range.end
    PROVE  LET starts == PeriodStarts(period, range)
           IN  /\ ToSet(starts) = {RangeOf(period, t).start : t \in range.start..(range.end - 1)}
               /\ \A i, j \in DOMAIN starts : i < j => starts[i] < starts[j]
<1>1. PICK start \in Int, end \in Int : start = range.start /\ end = range.end /\ start < end
  BY Zenon
<1>2. PICK starts : starts = PeriodStarts(period, range)
  BY Zenon
<1>3. PICK count \in Nat \ {0} : IsCut(period, start, end, starts, count)
  BY <1>1, <1>2, PeriodStartsAreCut, Zenon
<1>4. DOMAIN starts = 1..count
  BY <1>3, Zenon DEF IsCut
<1>5. ASSUME NEW t \in start..(end - 1) PROVE RangeOf(period, t).start \in ToSet(starts)
  <2>1. t \in Int /\ start <= t /\ t < end
    BY <1>1, SMT
  <2>2. \E i \in 1..count : RangeOf(period, t).start = starts[i]
    BY <1>1, <1>3, <2>1, CutCovers, SMT
  <2> QED
    BY <1>4, <2>2, Zenon DEF ToSet
<1>6. ASSUME NEW i \in 1..count
      PROVE  \E t \in start..(end - 1) : starts[i] = RangeOf(period, t).start
  <2>1. IsStart(period, starts[i]) /\ starts[i] < end
    BY <1>3, Zenon DEF IsCut
  <2>2. CASE i = 1
    <3>1. start \in start..(end - 1)
      BY <1>1, SMT
    <3> QED
      BY <1>3, <2>2, <3>1, Zenon DEF IsCut
  <2>3. CASE i # 1
    <3>1. i \in 2..count
      BY <2>3, SMT
    <3>2. start < starts[i]
      BY <1>3, <3>1, Zenon DEF IsCut
    <3>3. starts[i] \in start..(end - 1)
      BY <1>1, <2>1, <3>2, SMT DEF IsStart
    <3> QED
      BY <2>1, <3>3, Zenon DEF IsStart
  <2> QED
    BY <2>2, <2>3, Zenon
<1>7. ToSet(starts) = {RangeOf(period, t).start : t \in start..(end - 1)}
  BY <1>4, <1>5, <1>6, Zenon DEF ToSet
<1>8. \A i, j \in DOMAIN starts : i < j => starts[i] < starts[j]
  BY <1>3, <1>4, StartsRise, Zenon
<1> QED
  BY <1>1, <1>2, <1>7, <1>8, Zenon

\* A number of rows and columns, by its row and its column.
LEMMA RowAndColumn ==
    ASSUME NEW x \in Nat, NEW n \in Nat, n > 0
    PROVE  /\ x \div n \in Nat /\ x % n \in Nat /\ x % n < n
           /\ x = (x \div n) * n + (x % n)
<1>1. x \div n \in Nat
  BY DivFits, SMT
<1>2. x % n \in Nat /\ x % n < n
  BY SMT
<1>3. x = (x \div n) * n + (x % n)
  BY SMT
<1> QED
  BY <1>1, <1>2, <1>3, Zenon

\* And by these the number.
LEMMA RowAndColumnAre ==
    ASSUME NEW q \in Nat, NEW r \in Nat, NEW n \in Nat, r < n
    PROVE  /\ q * n + r \in Nat
           /\ (q * n + r) \div n = q /\ (q * n + r) % n = r
<1>1. PICK x \in Nat : x = q * n + r
  <2>1. q * n \in Nat
    BY SMT
  <2> QED
    BY <2>1, SMT
<1>2. PICK p \in Nat, c \in Nat : /\ p = x \div n /\ c = x % n
                                  /\ x = p * n + c /\ c < n
  <2>1. n > 0
    BY SMT
  <2> QED
    BY <2>1, RowAndColumn, SMT
<1>3. ~(p < q)
  <2>1. SUFFICES ASSUME p < q PROVE FALSE
    OBVIOUS
  <2>2. p * n \in Nat /\ q * n \in Nat /\ p * n + n <= q * n
    BY <2>1, ProductRises
  <2> QED
    BY <1>1, <1>2, <2>2, SMT
<1>4. ~(q < p)
  <2>1. SUFFICES ASSUME q < p PROVE FALSE
    OBVIOUS
  <2>2. p * n \in Nat /\ q * n \in Nat /\ q * n + n <= p * n
    BY <2>1, ProductRises
  <2> QED
    BY <1>1, <1>2, <2>2, SMT
<1>5. p = q
  BY <1>3, <1>4, SMT
<1>6. c = r
  <2>1. PICK m \in Nat : m = q * n
    BY SMT
  <2> QED
    BY <1>1, <1>2, <1>5, <2>1, SMT
<1> QED
  BY <1>1, <1>2, <1>5, <1>6, Zenon

\* A plan intends the period of every instant of its range for every person asked
\* for, and nothing else (evaluation-intended-period-coordinates.ts:146).
THEOREM IntendedAreOfRange ==
    ASSUME NEW period \in RefreshPeriods, NEW range,
           range.start \in Int, range.end \in Int, range.start < range.end,
           NEW P, NEW persons \in Seq(P)
    PROVE  \A c : c \in ToSet(Intended(persons, period, range)) <=>
                 \E k \in DOMAIN persons, t \in range.start..(range.end - 1) :
                    c = Coordinate(persons[k], period, RangeOf(period, t).start)
<1> DEFINE Meant(k, s) == Coordinate(persons[k], period, s)
<1>1. PICK n \in Nat : n = Len(persons) /\ DOMAIN persons = 1..n /\ (n = 0 <=> persons = <<>>)
  BY SMT
<1>2. CASE n = 0
  <2>1. Intended(persons, period, range) = <<>>
    BY <1>1, <1>2, Zenon DEF Intended
  <2>2. DOMAIN persons = {}
    BY <1>1, <1>2, SMT
  <2>3. ToSet(<<>>) = {}
    BY SMT DEF ToSet
  <2> QED
    BY <2>1, <2>2, <2>3, Zenon
<1>3. CASE n # 0
  <2>1. PICK starts : starts = PeriodStarts(period, range)
    BY Zenon
  <2>2. PICK count \in Nat : /\ starts = [j \in 1..count |-> starts[j]]
                             /\ \A j \in 1..count : starts[j] \in Int
    BY <2>1, PeriodStartsAreCut, Zenon DEF IsCut, IsStart
  <2>3. ToSet(starts) = {RangeOf(period, t).start : t \in range.start..(range.end - 1)}
    BY <2>1, StartsAreOfRange, Zenon
  <2>4. DOMAIN starts = 1..count /\ Len(starts) = count
    BY <2>2, SMT
  <2>5. PICK size \in Nat : size = count * n
    BY SMT
  <2>6. PICK intended : /\ intended = Intended(persons, period, range)
                        /\ DOMAIN intended = 1..size
                        /\ \A i \in 1..size :
                              intended[i] = Meant(((i - 1) % n) + 1, starts[((i - 1) \div n) + 1])
    <3>1. ~(range.start >= range.end)
      BY SMT
    <3>2. Intended(persons, period, range) =
             [i \in 1..size |-> Coordinate(persons[((i - 1) % n) + 1], period,
                                           starts[((i - 1) \div n) + 1])]
      BY <1>1, <1>3, <2>1, <2>4, <2>5, <3>1, Zenon DEF Intended
    <3> QED
      BY <3>2, Zenon
  <2>7. ASSUME NEW i \in 1..size
        PROVE  \E k \in 1..n, j \in 1..count : intended[i] = Meant(k, starts[j])
    <3>1. PICK x \in Nat : x = i - 1 /\ x < count * n
      BY <2>5, SMT
    <3>2. PICK q \in Nat, r \in Nat : q = x \div n /\ r = x % n /\ r < n /\ x = q * n + r
      BY <1>3, RowAndColumn, SMT
    <3>3. q < count
      <4>1. SUFFICES ASSUME ~(q < count) PROVE FALSE
        OBVIOUS
      <4>2. q = count \/ count < q
        BY <4>1, SMT
      <4>3. count * n <= q * n /\ q * n \in Nat
        BY <4>2, ProductRises, SMT
      <4> QED
        BY <2>5, <3>1, <3>2, <4>3, SMT
    <3>4. r + 1 \in 1..n /\ q + 1 \in 1..count
      BY <3>2, <3>3, SMT
    <3> QED
      BY <2>6, <3>1, <3>2, <3>4, Zenon
  <2>8. ASSUME NEW k \in 1..n, NEW j \in 1..count
        PROVE  \E i \in 1..size : intended[i] = Meant(k, starts[j])
    <3>1. PICK q \in Nat, r \in Nat : q = j - 1 /\ r = k - 1 /\ r < n /\ q < count
      BY SMT
    <3>2. PICK x : x = q * n + r
      BY Zenon
    <3>3. x \in Nat /\ x \div n = q /\ x % n = r
      BY <3>1, <3>2, RowAndColumnAre, Zenon
    <3>4. x < size
      <4>1. q * n \in Nat /\ q * n + n <= count * n
        BY <3>1, ProductRises
      <4> QED
        BY <2>5, <3>1, <3>2, <3>3, <4>1, SMT
    <3>5. /\ intended[x + 1] = Meant(((x + 1 - 1) % n) + 1, starts[((x + 1 - 1) \div n) + 1])
           /\ x + 1 - 1 = x
      BY <2>6, <3>4, <3>3, SMT
    <3>6. intended[x + 1] = Meant((x % n) + 1, starts[(x \div n) + 1])
      BY <3>5, Zenon
    <3>7. x + 1 \in 1..size /\ (x + 1) - 1 = x /\ q + 1 = j /\ r + 1 = k
      BY <3>1, <3>4, <3>3, SMT
    <3> QED
      BY <3>7, <3>3, <3>6, Zenon
  <2>9. ASSUME NEW c \in ToSet(intended)
        PROVE  \E k \in 1..n, s \in ToSet(starts) : c = Meant(k, s)
    <3>1. PICK i \in 1..size : c = intended[i]
      BY <2>6, Zenon DEF ToSet
    <3>2. PICK k \in 1..n, j \in 1..count : c = Meant(k, starts[j])
      BY <2>7, <3>1, Zenon
    <3>3. starts[j] \in ToSet(starts)
      BY <2>4, Zenon DEF ToSet
    <3> QED
      BY <3>2, <3>3, Zenon
  <2>10. ASSUME NEW k \in 1..n, NEW s \in ToSet(starts)
         PROVE  Meant(k, s) \in ToSet(intended)
    <3>1. PICK j \in 1..count : s = starts[j]
      BY <2>4, Zenon DEF ToSet
    <3>2. PICK i \in 1..size : intended[i] = Meant(k, starts[j])
      BY <2>8, Zenon
    <3> QED
      BY <2>6, <3>1, <3>2, Zenon DEF ToSet
  <2> HIDE DEF Meant
  <2>11. ASSUME NEW c
         PROVE  c \in ToSet(intended) <=>
                   \E k \in 1..n, t \in range.start..(range.end - 1) :
                      c = Meant(k, RangeOf(period, t).start)
    BY <2>3, <2>9, <2>10, Zenon
  <2>12. ASSUME NEW c
         PROVE  c \in ToSet(intended) <=>
                   \E k \in 1..n, t \in range.start..(range.end - 1) :
                      c = Coordinate(persons[k], period, RangeOf(period, t).start)
    <3>1. \A k, t : Meant(k, RangeOf(period, t).start)
                      = Coordinate(persons[k], period, RangeOf(period, t).start)
      BY Zenon DEF Meant
    <3>2. ASSUME c \in ToSet(intended)
          PROVE  \E k \in 1..n, t \in range.start..(range.end - 1) :
                    c = Coordinate(persons[k], period, RangeOf(period, t).start)
      <4>1. PICK k \in 1..n, t \in range.start..(range.end - 1) :
               c = Meant(k, RangeOf(period, t).start)
        BY <2>11, <3>2, Zenon
      <4> QED
        BY <3>1, <4>1, Zenon
    <3>3. ASSUME NEW k \in 1..n, NEW t \in range.start..(range.end - 1),
                 c = Coordinate(persons[k], period, RangeOf(period, t).start)
          PROVE  c \in ToSet(intended)
      <4>1. c = Meant(k, RangeOf(period, t).start)
        BY <3>1, <3>3, Zenon
      <4> QED
        BY <2>11, <4>1, Zenon
    <3> QED
      BY <3>2, <3>3, Zenon
  <2>13. intended = Intended(persons, period, range) /\ DOMAIN persons = 1..n
    BY <1>1, <2>6, Zenon
  <2> QED
    BY <2>12, <2>13, Zenon
<1> QED
  BY <1>2, <1>3, Zenon

\* A coordinate that travels as text comes back as it was: the text tells the
\* offset of Seoul (period-bridge-to-persist-context.mapper.ts:73).
THEOREM TextsComeBack ==
    ASSUME NEW person, NEW period, NEW start \in Int
    PROVE  ToContext(Text(Coordinate(person, period, start))) = Coordinate(person, period, start)
<1>1. PICK w : w = WallClock(start, KST) /\ Unzoned(w) = start + 9
  BY SeoulOffset, Zenon
<1>2. PICK text : text = [wall |-> w, offset |-> 9]
  BY Zenon
<1>3. FormatIso(start, KST) = text
  BY <1>1, <1>2, SeoulOffset, Zenon DEF FormatIso
<1>4. PICK request : /\ request = [person |-> person, period |-> period,
                                   scope |-> "aggregate", text |-> text]
                     /\ request = Text(Coordinate(person, period, start))
  <2>1. PICK c : c = Coordinate(person, period, start)
    BY Zenon
  <2>2. c.person = person /\ c.period = period /\ c.scope = "aggregate" /\ c.start = start
    BY <2>1, SMT DEF Coordinate
  <2> QED
    BY <1>3, <2>1, <2>2, Zenon DEF Text
<1>5. request.text.wall = w /\ request.text.offset = 9 /\ NoOffset # 9
  BY <1>2, <1>4, SMT DEF NoOffset
<1>6. UTC(w.year, w.month, w.day, w.hour) - 9 = start
  BY <1>1, SMT DEF Unzoned
<1> QED
  BY <1>4, <1>5, <1>6, SMT DEF ToContext, Coordinate

\* The refresh evaluates again what is over and starts in its window: every closed
\* period there, whether it has a row or not, and every row whose period is over;
\* a row whose period still runs is left alone (recent-deletion-coordinates.ts:64).
THEOREM RefreshIsOfClosed ==
    ASSUME NEW person, NEW stored, NEW window, NEW now \in Int,
           window.start \in Int, window.end \in Int, window.start < window.end,
           \A c \in stored : c.period \in RefreshPeriods /\ c.start \in Int
    PROVE  LET coordinates == PlanRecentRefresh(person, stored, window, now).coordinates
           IN  /\ \A c \in coordinates : /\ IsPeriodEvaluable(c.period, c.start, now)
                                         /\ window.start <= c.start /\ c.start < window.end
               /\ \A period \in RefreshPeriods, t \in Int :
                     LET r == RangeOf(period, t)
                     IN  window.start <= r.start /\ r.start < window.end /\ r.end <= now
                           => Coordinate(person, period, r.start) \in coordinates
               /\ \A c \in stored : /\ window.start <= c.start /\ c.start < window.end
                                    /\ IsPeriodEvaluable(c.period, c.start, now)
                                    => c \in coordinates
<1> DEFINE coordinates == PlanRecentRefresh(person, stored, window, now).coordinates
           closed == UNION {{Coordinate(person, period, t) :
                                t \in ClosedStarts(period, window, now)} :
                             period \in RefreshPeriods}
           within == {c \in stored : c.start \in InWindow(window, {c.start})}
           open == {c \in within : RangeOf(c.period, c.start).end > now}
<1>1. coordinates = closed \union (within \ open)
  <2>1. PICK a, b, c : /\ a = closed \union (within \ open)
                       /\ b = within \ open /\ c = Cardinality(open)
    BY Zenon
  <2>2. PlanRecentRefresh(person, stored, window, now) =
           [coordinates |-> a, hadRow |-> b, openRowCount |-> c]
    BY <2>1, Zenon DEF PlanRecentRefresh
  <2> QED
    BY <2>1, <2>2, SMT
<1>2. \A c \in stored : c \in within <=> window.start <= c.start /\ c.start < window.end
  BY Zenon DEF InWindow
<1> HIDE DEF within
<1>3. \A c \in within : c \in stored
  BY Zenon DEF within
<1>4. ASSUME NEW c \in within
      PROVE  c \in open <=> ~IsPeriodEvaluable(c.period, c.start, now)
  <2>1. RangeOf(c.period, c.start).end \in Int
    BY <1>3, PeriodFits, Zenon
  <2> QED
    BY <2>1, SMT DEF IsPeriodEvaluable
<1> HIDE DEF open
<1>5. ASSUME NEW period \in RefreshPeriods, NEW t \in ClosedStarts(period, window, now)
      PROVE  /\ IsPeriodEvaluable(period, t, now)
             /\ window.start <= t /\ t < window.end
  <2>1. PICK cursor \in {window.start} \union ToSet(PeriodStarts(period, window)) :
           /\ t = RangeOf(period, cursor).start
           /\ RangeOf(period, cursor).start >= window.start
           /\ RangeOf(period, cursor).end <= now
    BY Zenon DEF ClosedStarts
  <2>2. cursor \in Int /\ cursor < window.end
    <3>1. CASE cursor = window.start
      BY <3>1, Zenon
    <3>2. CASE cursor \in ToSet(PeriodStarts(period, window))
      <4>1. PICK starts, count : /\ starts = PeriodStarts(period, window)
                                 /\ IsCut(period, window.start, window.end, starts, count)
        BY PeriodStartsAreCut, Zenon
      <4>2. DOMAIN starts = 1..count
        BY <4>1, Zenon DEF IsCut
      <4>3. PICK i \in 1..count : cursor = starts[i]
        BY <3>2, <4>1, <4>2, Zenon DEF ToSet
      <4> QED
        BY <4>1, <4>3, Zenon DEF IsCut, IsStart
    <3> QED
      BY <2>1, <3>1, <3>2, SMT
  <2>3. PICK r : r = RangeOf(period, cursor)
    BY Zenon
  <2>4. r.start \in Int /\ r.end \in Int /\ r.start <= cursor /\ RangeOf(period, r.start) = r
    BY <2>2, <2>3, PeriodFits, Zenon
  <2> QED
    BY <2>1, <2>2, <2>3, <2>4, SMT DEF IsPeriodEvaluable
<1>6. ASSUME NEW c \in coordinates
      PROVE  /\ IsPeriodEvaluable(c.period, c.start, now)
             /\ window.start <= c.start /\ c.start < window.end
  <2>1. CASE c \in closed
    <3>1. PICK period \in RefreshPeriods :
             \E t \in ClosedStarts(period, window, now) : c = Coordinate(person, period, t)
      BY <2>1, Zenon
    <3>2. PICK t \in ClosedStarts(period, window, now) : c = Coordinate(person, period, t)
      BY <3>1, Zenon
    <3>3. c.period = period /\ c.start = t
      BY <3>2, SMT DEF Coordinate
    <3> QED
      BY <1>5, <3>3, Zenon
  <2>2. CASE c \in within /\ c \notin open
    BY <1>2, <1>3, <1>4, <2>2, Zenon
  <2> QED
    BY <1>1, <2>1, <2>2, Zenon
<1>7. ASSUME NEW period \in RefreshPeriods, NEW t \in Int,
             window.start <= RangeOf(period, t).start, RangeOf(period, t).start < window.end,
             RangeOf(period, t).end <= now
      PROVE  Coordinate(person, period, RangeOf(period, t).start) \in coordinates
  <2>1. PICK r : r = RangeOf(period, t)
    BY Zenon
  <2>2. /\ r.start \in Int /\ r.end \in Int /\ RangeOf(period, r.start) = r
        /\ window.start <= r.start /\ r.start < window.end /\ r.end <= now
    BY <1>7, <2>1, PeriodFits, Zenon
  <2>3. r.start \in window.start..(window.end - 1) /\ r.start >= window.start
    BY <2>2, SMT
  <2>4. r.start \in ToSet(PeriodStarts(period, window))
    BY <2>2, <2>3, StartsAreOfRange, Zenon
  <2>5. r.start \in ClosedStarts(period, window, now)
    BY <2>2, <2>3, <2>4, Zenon DEF ClosedStarts
  <2>6. Coordinate(person, period, r.start) \in closed
    <3>1. Coordinate(person, period, r.start)
            \in {Coordinate(person, period, u) : u \in ClosedStarts(period, window, now)}
      BY <2>5, Zenon
    <3> QED
      BY <3>1, SMT
  <2> QED
    BY <1>1, <2>1, <2>6, Zenon
<1>8. ASSUME NEW c \in stored, window.start <= c.start, c.start < window.end,
             IsPeriodEvaluable(c.period, c.start, now)
      PROVE  c \in coordinates
  BY <1>1, <1>2, <1>4, <1>8, Zenon
<1> HIDE DEF coordinates
<1> QED
  BY <1>6, <1>7, <1>8, Zenon DEF coordinates

\* The starts that precede one another, back from the end of a window.
IsBack(period, end, longest, back) ==
    back = [n \in 0..longest |->
               IF n = 0 THEN end ELSE PreviousStarts(period)[back[n - 1]]]

\* They exist, however many.
LEMMA BackExists ==
    ASSUME NEW period, NEW end, NEW longest \in Nat
    PROVE  \E back : IsBack(period, end, longest, back)
<1> DEFINE S == {n \in Nat : ~\E back : IsBack(period, end, n, back)}
<1>1. SUFFICES ASSUME S # {} PROVE FALSE
  OBVIOUS
<1>2. PICK m \in S : \A n \in S : m <= n
  BY <1>1, LeastOfSet
<1>3. m # 0
  <2>1. IsBack(period, end, 0, [n \in 0..0 |-> end])
    BY SMT DEF IsBack
  <2> QED
    BY <2>1, <1>2
<1>4. m - 1 \in Nat /\ m - 1 \notin S
  BY <1>2, <1>3, SMT
<1>5. PICK a : IsBack(period, end, m - 1, a)
  BY <1>4
<1> DEFINE b == [n \in 0..m |-> IF n = m THEN PreviousStarts(period)[a[m - 1]] ELSE a[n]]
<1>6. IsBack(period, end, m, b)
  <2>1. ASSUME NEW n \in 0..m
        PROVE  b[n] = IF n = 0 THEN end ELSE PreviousStarts(period)[b[n - 1]]
    <3>1. CASE n = m
      BY <3>1, <1>2, <1>3, SMT
    <3>2. CASE n # m
      <4>1. n \in 0..(m - 1) /\ b[n] = a[n] /\ (n # 0 => b[n - 1] = a[n - 1])
        BY <3>2, <1>2, <1>3, SMT
      <4>2. a[n] = IF n = 0 THEN end ELSE PreviousStarts(period)[a[n - 1]]
        BY <4>1, <1>5, Zenon DEF IsBack
      <4> QED
        BY <4>1, <4>2
    <3> QED
      BY <3>1, <3>2
  <2>2. b = [n \in 0..m |-> b[n]]
    BY Zenon
  <2> HIDE DEF b
  <2> QED
    BY <2>1, <2>2, Zenon DEF IsBack
<1> QED
  BY <1>2, <1>6

GoesBack(period, end, count, back) ==
    /\ WindowUpTo(period, count, end) = [start |-> back[count], end |-> end]
    /\ back[0] = end
    /\ \A n \in 0..count : IsStart(period, back[n]) /\ (n > 0 => back[n] < end)
    /\ \A n \in 1..count : RangeOf(period, back[n]).end = back[n - 1]

\* The window of closed periods begins where going back ends.
LEMMA WindowGoesBack ==
    ASSUME NEW period \in RefreshPeriods, NEW end, IsStart(period, end), NEW count \in Nat
    PROVE  \E back : GoesBack(period, end, count, back)
<1>1. PICK back : /\ back = (CHOOSE b : IsBack(period, end, count, b))
                  /\ IsBack(period, end, count, back)
  BY BackExists, Zenon
<1>2. WindowUpTo(period, count, end) = [start |-> back[count], end |-> end]
  BY <1>1, Zenon DEF WindowUpTo, IsBack
<1>3. \A n \in 0..count :
         back[n] = IF n = 0 THEN end ELSE PreviousStarts(period)[back[n - 1]]
  BY <1>1, Zenon DEF IsBack
<1>4. back[0] = end
  BY <1>3, SMT
<1>5. ASSUME NEW s, IsStart(period, s)
      PROVE  LET p == PreviousStart(period, s)
             IN  IsStart(period, p) /\ RangeOf(period, p).end = s /\ p < s
  <2>1. PICK p : p = PreviousStart(period, s)
    BY Zenon
  <2>2. /\ p \in Int /\ RangeOf(period, p).start = p
        /\ RangeOf(period, p).end = RangeOf(period, s).start
    BY <1>5, <2>1, DuePeriodIsTheLastClosed, Zenon DEF IsStart, SummaryDueStart
  <2>3. RangeOf(period, p).end = s /\ p < s
    BY <1>5, <2>2, PeriodFits, SMT DEF IsStart
  <2> QED
    BY <2>1, <2>2, <2>3, Zenon DEF IsStart
<1> DEFINE Fits(n) == IsStart(period, back[n]) /\ (n > 0 => back[n] < end)
           S == {n \in 0..count : ~Fits(n)}
<1>6. ASSUME S # {} PROVE FALSE
  <2>1. PICK m \in S : \A k \in S : m <= k
    <3>1. S \in SUBSET Nat
      BY SMT
    <3> HIDE DEF S
    <3> QED
      BY <1>6, <3>1, LeastOfSet, Zenon
  <2>2. m # 0
    BY <1>4, <2>1, SMT
  <2>3. PICK k \in 0..count : k = m - 1 /\ k \notin S /\ m > 0
    <3>1. m - 1 \in 0..count /\ ~(m <= m - 1) /\ m > 0
      BY <2>1, <2>2, SMT
    <3> QED
      BY <2>1, <3>1, Zenon
  <2>4. Fits(k)
    BY <2>3, Zenon
  <2>5. m \in 0..count /\ back[m] = PreviousStart(period, back[k])
    <3>1. m \in 0..count /\ back[m] = PreviousStarts(period)[back[k]]
      BY <1>3, <2>1, <2>2, <2>3, Zenon
    <3>2. back[k] \in Int
      BY <2>4, Zenon DEF IsStart
    <3> QED
      BY <3>1, <3>2, Zenon DEF PreviousStarts
  <2>6. IsStart(period, back[m]) /\ back[m] < back[k]
    BY <1>5, <2>4, <2>5, Zenon
  <2>7. back[m] < end
    BY <1>4, <2>3, <2>4, <2>6, SMT DEF IsStart
  <2> QED
    BY <2>1, <2>6, <2>7, Zenon
<1>7. \A n \in 0..count : Fits(n)
  BY <1>6, Zenon
<1>8. ASSUME NEW n \in 1..count PROVE RangeOf(period, back[n]).end = back[n - 1]
  <2>1. n \in 0..count /\ n # 0 /\ n - 1 \in 0..count
    BY SMT
  <2>2. back[n] = PreviousStarts(period)[back[n - 1]] /\ IsStart(period, back[n - 1])
    BY <1>3, <1>7, <2>1, Zenon
  <2>3. back[n] = PreviousStart(period, back[n - 1])
    BY <2>2, Zenon DEF IsStart, PreviousStarts
  <2> QED
    BY <1>5, <2>2, <2>3, Zenon
<1> QED
  BY <1>2, <1>4, <1>7, <1>8, Zenon DEF GoesBack

\* The window of the last closed periods holds as many of them as were asked for:
\* it is cut into that many periods, each over, the last one that whose summary is
\* due, and the period after it still runs (evaluation-tick-runner.service.ts:134).
THEOREM ClosedWindowHoldsCount ==
    ASSUME NEW period \in RefreshPeriods, NEW now \in Int, NEW count \in Nat \ {0}
    PROVE  LET window == ClosedWindow(period, count, now)
               starts == PeriodStarts(period, window)
           IN  /\ DOMAIN starts = 1..count /\ starts[1] = window.start
               /\ \A i \in 1..count : IsPeriodEvaluable(period, starts[i], now)
               /\ starts[count] = SummaryDueStart(period, now)
               /\ window.end = RangeOf(period, now).start
               /\ ~IsPeriodEvaluable(period, window.end, now)
<1>1. PICK end : end = RangeOf(period, now).start
  BY Zenon
<1>2. /\ end \in Int /\ end <= now /\ IsStart(period, end)
      /\ RangeOf(period, end) = RangeOf(period, now) /\ now < RangeOf(period, now).end
  BY <1>1, PeriodFits, Zenon DEF IsStart
<1>3. PICK back : GoesBack(period, end, count, back)
  <2>1. count \in Nat
    BY SMT
  <2> QED
    BY <1>2, <2>1, WindowGoesBack, Zenon
<1>4. /\ WindowUpTo(period, count, end) = [start |-> back[count], end |-> end]
      /\ back[0] = end
      /\ \A n \in 0..count : IsStart(period, back[n]) /\ (n > 0 => back[n] < end)
      /\ \A n \in 1..count : RangeOf(period, back[n]).end = back[n - 1]
  BY <1>3, Zenon DEF GoesBack
<1>5. PICK window : /\ window = ClosedWindow(period, count, now)
                    /\ window.start = back[count] /\ window.end = end
  <2>1. ClosedWindow(period, count, now) = [start |-> back[count], end |-> end]
    BY <1>1, <1>4, Zenon DEF ClosedWindow
  <2>2. PICK w : w = [start |-> back[count], end |-> end]
    BY Zenon
  <2>3. w.start = back[count] /\ w.end = end
    BY <2>2, SMT
  <2> QED
    BY <2>1, <2>2, <2>3, Zenon
<1>6. back[count] \in Int /\ back[count] < end /\ IsStart(period, back[count])
  <2>1. count \in 0..count /\ count > 0
    BY SMT
  <2> QED
    BY <1>4, <2>1, Zenon DEF IsStart
<1>7. PICK starts : starts = PeriodStarts(period, window)
  BY Zenon
<1>8. PICK found \in Nat \ {0} : IsCut(period, back[count], end, starts, found)
  BY <1>2, <1>5, <1>6, <1>7, PeriodStartsAreCut, SMT
<1> DEFINE Fits(i) == i <= count /\ starts[i] = back[count + 1 - i]
           S == {i \in 1..found : ~Fits(i)}
<1>9. ASSUME S # {} PROVE FALSE
  <2>1. PICK m \in S : \A k \in S : m <= k
    <3>1. S \in SUBSET Nat
      BY SMT
    <3> HIDE DEF S
    <3> QED
      BY <1>9, <3>1, LeastOfSet, Zenon
  <2>2. m \in 1..found
    BY <2>1, Zenon
  <2>3. m # 1
    <3>1. starts[1] = back[count]
      BY <1>6, <1>8, Zenon DEF IsCut, IsStart
    <3>2. 1 <= count /\ count + 1 - 1 = count
      BY SMT
    <3>3. Fits(1)
      BY <3>1, <3>2, SMT
    <3> QED
      BY <2>1, <3>3, Zenon
  <2>4. PICK k \in 1..found : k = m - 1 /\ k \notin S
    <3>1. m - 1 \in 1..found /\ ~(m <= m - 1)
      BY <2>2, <2>3, SMT
    <3> QED
      BY <2>1, <3>1, Zenon
  <2>5. Fits(k)
    BY <2>4, Zenon
  <2>6. m \in 2..found /\ starts[m] = RangeOf(period, starts[k]).end
    <3>1. m \in 2..found
      BY <2>2, <2>3, SMT
    <3> QED
      BY <1>8, <2>4, <3>1, Zenon DEF IsCut
  <2>7. PICK n : n = count + 1 - k
    BY Zenon
  <2>8. n \in 1..count /\ n - 1 = count + 1 - m
    BY <2>4, <2>5, <2>7, SMT
  <2>9. starts[m] = back[n - 1]
    BY <1>4, <2>5, <2>6, <2>7, <2>8, Zenon
  <2>10. m <= count
    <3>1. SUFFICES ASSUME ~(m <= count) PROVE FALSE
      BY Zenon
    <3>2. n - 1 = 0
      BY <2>4, <2>5, <2>7, <2>8, <3>1, SMT
    <3>3. starts[m] = end /\ starts[m] < end
      BY <1>4, <1>8, <2>2, <2>9, <3>2, Zenon DEF IsCut
    <3> QED
      BY <1>2, <3>3, SMT
  <2>11. Fits(m)
    BY <2>9, <2>10, <2>8, Zenon
  <2> QED
    BY <2>1, <2>11, Zenon
<1>10. \A i \in 1..found : Fits(i)
  BY <1>9, Zenon
<1>11. found = count
  <2>1. found \in 1..found
    BY SMT
  <2>2. found <= count /\ starts[found] = back[count + 1 - found]
    BY <1>10, <2>1, Zenon
  <2>3. PICK n : n = count + 1 - found
    BY Zenon
  <2>4. n \in 1..count /\ n - 1 = count - found
    BY <2>2, <2>3, SMT
  <2>5. end <= back[n - 1]
    BY <1>4, <1>8, <2>2, <2>3, <2>4, Zenon DEF IsCut
  <2>6. n - 1 \in 0..count
    BY <2>4, SMT
  <2>7. ~(n - 1 > 0)
    BY <1>2, <1>4, <2>5, <2>6, SMT DEF IsStart
  <2> QED
    BY <2>2, <2>7, <2>4, SMT
<1>12. DOMAIN starts = 1..count
  BY <1>8, <1>11, Zenon DEF IsCut
<1>13. starts[1] = window.start
  BY <1>5, <1>6, <1>8, Zenon DEF IsCut, IsStart
<1>14. ASSUME NEW i \in 1..count PROVE IsPeriodEvaluable(period, starts[i], now)
  <2>1. PICK n : n = count + 1 - i
    BY Zenon
  <2>2. n \in 1..count /\ n - 1 \in 0..count
    BY <2>1, SMT
  <2>3. RangeOf(period, starts[i]).end = back[n - 1]
    BY <1>4, <1>10, <1>11, <2>1, <2>2, Zenon
  <2>4. back[n - 1] \in Int /\ back[n - 1] <= end
    BY <1>2, <1>4, <2>2, SMT DEF IsStart
  <2> QED
    BY <1>2, <2>3, <2>4, SMT DEF IsPeriodEvaluable
<1>15. starts[count] = SummaryDueStart(period, now)
  <2>1. count \in 1..count /\ count + 1 - count = 1 /\ 1 \in 1..count
    BY SMT
  <2>2. starts[count] = back[1]
    BY <1>10, <1>11, <2>1, SMT
  <2>3. /\ back[1] \in Int /\ RangeOf(period, back[1]).start = back[1]
        /\ RangeOf(period, back[1]).end = end
    <3>1. 1 \in 0..count /\ 1 - 1 = 0
      BY SMT
    <3> QED
      BY <1>4, <2>1, <3>1, SMT DEF IsStart
  <2>4. PICK due \in Int : /\ due = SummaryDueStart(period, now)
                           /\ RangeOf(period, due).start = due
                           /\ RangeOf(period, due).end = end
    BY <1>1, DuePeriodIsTheLastClosed, Zenon
  <2>5. PICK b \in Int : b = back[1]
    BY <2>3, Zenon
  <2>6. PICK last \in Int : last = end - 1
    BY <1>2, SMT
  <2>7. RangeOf(period, last) = RangeOf(period, b)
    <3>1. PICK r : r = RangeOf(period, b)
      BY Zenon
    <3> QED
      BY <1>2, <2>3, <2>5, <2>6, <3>1, PeriodFits, SMT
  <2>8. RangeOf(period, last) = RangeOf(period, due)
    <3>1. PICK r : r = RangeOf(period, due)
      BY Zenon
    <3> QED
      BY <1>2, <2>4, <2>6, <3>1, PeriodFits, SMT
  <2> QED
    BY <2>2, <2>3, <2>4, <2>5, <2>7, <2>8, Zenon
<1>16. window.end = RangeOf(period, now).start /\ ~IsPeriodEvaluable(period, window.end, now)
  <2>1. RangeOf(period, now).end \in Int
    BY PeriodFits, Zenon
  <2> QED
    BY <1>1, <1>2, <1>5, <2>1, SMT DEF IsPeriodEvaluable
<1> QED
  BY <1>5, <1>7, <1>12, <1>13, <1>14, <1>15, <1>16, Zenon

\* A day of Seoul has 24 hours.
LEMMA DayHasItsHours ==
    ASSUME NEW t \in Int
    PROVE  RangeOf("day", t).end = RangeOf("day", t).start + 24
<1>1. PICK d \in Int : d = DayOf(t)
  BY SeoulDay, SMTT(20)
<1>2. RangeOf("day", t) = RangeOfDays(d, d + 1)
  BY <1>1, DayRange, SMTT(20)
<1> QED
  BY <1>2, SMTT(20) DEF RangeOfDays, Midnight

\* The window of whole days that the refresh subtracts is the one that the closed
\* days are counted back to (recent-deletion-coordinates.ts:32, evaluation-tick-runner.service.ts:134).
THEOREM ClosedDaysAreClosedPeriods ==
    ASSUME NEW now \in Int, NEW days \in Nat
    PROVE  ClosedDaysWindow(now, days) = ClosedWindow("day", days, now)
<1>1. PICK end : end = RangeOf("day", now).start
  BY Zenon
<1>2. /\ end \in Int /\ IsStart("day", end) /\ "day" \in RefreshPeriods
  BY <1>1, PeriodFits, Zenon DEF IsStart, RefreshPeriods
<1>3. PICK back : GoesBack("day", end, days, back)
  BY <1>2, WindowGoesBack, Zenon
<1>4. /\ WindowUpTo("day", days, end) = [start |-> back[days], end |-> end]
      /\ back[0] = end
      /\ \A n \in 0..days : IsStart("day", back[n])
      /\ \A n \in 1..days : RangeOf("day", back[n]).end = back[n - 1]
  BY <1>3, Zenon DEF GoesBack
<1> DEFINE S == {n \in 0..days : back[n] # end - 24 * n}
<1>5. ASSUME S # {} PROVE FALSE
  <2>1. PICK m \in S : \A k \in S : m <= k
    <3>1. S \in SUBSET Nat
      BY SMT
    <3> HIDE DEF S
    <3> QED
      BY <1>5, <3>1, LeastOfSet, Zenon
  <2>2. m # 0
    BY <1>2, <1>4, <2>1, SMT
  <2>3. PICK k \in 0..days : k = m - 1 /\ k \notin S /\ m \in 1..days
    <3>1. m - 1 \in 0..days /\ ~(m <= m - 1) /\ m \in 1..days
      BY <2>1, <2>2, SMT
    <3> QED
      BY <2>1, <3>1, Zenon
  <2>4. back[k] = end - 24 * k
    BY <2>3, Zenon
  <2>5. RangeOf("day", back[m]).end = back[k] /\ IsStart("day", back[m])
    BY <1>4, <2>1, <2>3, Zenon
  <2>6. back[m] \in Int /\ back[k] = back[m] + 24
    BY <2>5, DayHasItsHours, SMT DEF IsStart
  <2> QED
    BY <1>2, <2>1, <2>3, <2>4, <2>6, SMT
<1>6. back[days] = end - 24 * days
  BY <1>5, SMT
<1>7. ClosedDaysWindow(now, days).end = end /\ ClosedDaysWindow(now, days).start = end - 24 * days
  BY <1>1, ClosedDaysAreWhole, Zenon
<1>8. PICK s, e : ClosedDaysWindow(now, days) = [start |-> s, end |-> e]
  BY Zenon DEF ClosedDaysWindow, RecentDeletionWindow, DaysUpTo
<1>9. s = end - 24 * days /\ e = end
  BY <1>7, <1>8, SMT
<1> QED
  BY <1>1, <1>4, <1>6, <1>8, <1>9, Zenon DEF ClosedWindow

\* The window of a coordinate that was asked for as text.
WindowOf(c) == CollectWindow(Text(c))
IsCollectedBy(t, c) == WindowOf(c).since <= t /\ t < WindowOf(c).until

\* It is that of its period.
LEMMA WindowOfCoordinate ==
    ASSUME NEW person, NEW period, NEW start \in Int
    PROVE  /\ WindowOf(Coordinate(person, period, start)).since = start
           /\ WindowOf(Coordinate(person, period, start)).until = RangeOf(period, start).end
<1>1. PICK c : c = Coordinate(person, period, start) /\ ToContext(Text(c)) = c
  BY TextsComeBack, Zenon
<1>2. c.start = start /\ c.period = period
  BY <1>1, SMT DEF Coordinate
<1>3. PICK until : until = RangeOf(period, start).end
  BY Zenon
<1>4. WindowOf(c) = [since |-> start, until |-> until]
  BY <1>1, <1>2, <1>3, Zenon DEF WindowOf, CollectWindow
<1>5. WindowOf(c).since = start /\ WindowOf(c).until = until
  BY <1>4, SMT
<1> QED
  BY <1>1, <1>3, <1>5, Zenon

\* Every instant of the range is collected for every person asked for, by one of the
\* intended coordinates and by no other, whatever became of the coordinates as
\* texts (build-unevaluated-fill-coordinate-runner.ts:147).
THEOREM EachInstantIsOfOneCoordinate ==
    ASSUME NEW period \in RefreshPeriods, NEW range,
           range.start \in Int, range.end \in Int, range.start < range.end,
           NEW P, NEW persons \in Seq(P), NEW k \in DOMAIN persons,
           NEW t \in range.start..(range.end - 1)
    PROVE  \E c \in ToSet(Intended(persons, period, range)) :
              /\ c.person = persons[k] /\ IsCollectedBy(t, c)
              /\ \A d \in ToSet(Intended(persons, period, range)) :
                    d.person = persons[k] /\ IsCollectedBy(t, d) => d = c
<1>1. PICK intended : intended = ToSet(Intended(persons, period, range))
  BY Zenon
<1>2. \A c : c \in intended <=>
                \E j \in DOMAIN persons, u \in range.start..(range.end - 1) :
                   c = Coordinate(persons[j], period, RangeOf(period, u).start)
  <2>1. \A c : c \in ToSet(Intended(persons, period, range)) <=>
                   \E j \in DOMAIN persons, u \in range.start..(range.end - 1) :
                      c = Coordinate(persons[j], period, RangeOf(period, u).start)
    BY IntendedAreOfRange
  <2> QED
    BY <1>1, <2>1, Zenon
<1>3. PICK r : r = RangeOf(period, t)
  BY Zenon
<1>4. /\ t \in Int /\ r.start \in Int /\ r.start <= t /\ t < r.end
      /\ RangeOf(period, r.start) = r
  BY <1>3, PeriodFits, SMT
<1>5. PICK c : c = Coordinate(persons[k], period, r.start)
  BY Zenon
<1>6. c \in intended
  BY <1>2, <1>3, <1>5, Zenon
<1>7. c.person = persons[k]
  BY <1>5, SMT DEF Coordinate
<1>8. IsCollectedBy(t, c)
  <2>1. WindowOf(c).since = r.start /\ WindowOf(c).until = RangeOf(period, r.start).end
    BY <1>4, <1>5, WindowOfCoordinate
  <2> QED
    BY <1>4, <2>1, Zenon DEF IsCollectedBy
<1>9. ASSUME NEW d \in intended, d.person = persons[k], IsCollectedBy(t, d)
      PROVE  d = c
  <2>1. PICK j \in DOMAIN persons, u \in range.start..(range.end - 1) :
           d = Coordinate(persons[j], period, RangeOf(period, u).start)
    BY <1>2, Zenon
  <2>2. PICK q : q = RangeOf(period, u)
    BY Zenon
  <2>3. /\ q.start \in Int /\ RangeOf(period, q.start) = q
        /\ \A v \in Int : q.start <= v /\ v < q.end => RangeOf(period, v) = q
    BY <2>2, PeriodFits, SMT
  <2>4. d = Coordinate(persons[j], period, q.start)
    BY <2>1, <2>2, Zenon
  <2>5. q.start <= t /\ t < q.end
    <3>1. WindowOf(d).since = q.start /\ WindowOf(d).until = RangeOf(period, q.start).end
      BY <2>3, <2>4, WindowOfCoordinate
    <3> QED
      BY <1>9, <2>3, <3>1, Zenon DEF IsCollectedBy
  <2>6. q = r
    BY <1>3, <1>4, <2>3, <2>5, Zenon
  <2>7. d.person = persons[j]
    BY <2>4, SMT DEF Coordinate
  <2> QED
    BY <1>5, <1>9, <2>4, <2>6, <2>7, Zenon
<1> QED
  BY <1>6, <1>7, <1>8, <1>9, <1>1, Zenon
------------------------------------------------------------------------------
(* Sequences: the entries at some places, and sequences joined. *)

\* What was kept of the first entries of a sequence.
IsKept(seq, places, longest, kept) ==
    kept = [n \in 0..longest |->
               IF n = 0 THEN <<>>
               ELSE IF n \in places THEN Append(kept[n - 1], seq[n]) ELSE kept[n - 1]]

\* It exists, however many.
LEMMA KeptExists ==
    ASSUME NEW seq, NEW places, NEW longest \in Nat
    PROVE  \E kept : IsKept(seq, places, longest, kept)
<1> DEFINE next(n, before) == IF n \in places THEN Append(before, seq[n]) ELSE before
           S == {n \in Nat : ~\E kept : IsKept(seq, places, n, kept)}
<1>1. SUFFICES ASSUME S # {} PROVE FALSE
  OBVIOUS
<1>2. PICK m \in S : \A n \in S : m <= n
  BY <1>1, LeastOfSet
<1>3. m # 0
  <2>1. IsKept(seq, places, 0, [n \in 0..0 |-> <<>>])
    BY SMT DEF IsKept
  <2> QED
    BY <2>1, <1>2
<1>4. m - 1 \in Nat /\ m - 1 \notin S
  BY <1>2, <1>3, SMT
<1>5. PICK a : IsKept(seq, places, m - 1, a)
  BY <1>4
<1> DEFINE b == [n \in 0..m |-> IF n = m THEN next(m, a[m - 1]) ELSE a[n]]
<1>6. IsKept(seq, places, m, b)
  <2>1. ASSUME NEW n \in 0..m
        PROVE  b[n] = IF n = 0 THEN <<>> ELSE next(n, b[n - 1])
    <3> HIDE DEF next
    <3>1. CASE n = m
      BY <3>1, <1>2, <1>3, SMT
    <3>2. CASE n # m
      <4>1. n \in 0..(m - 1) /\ b[n] = a[n] /\ (n # 0 => b[n - 1] = a[n - 1])
        BY <3>2, <1>2, <1>3, SMT
      <4>2. a[n] = IF n = 0 THEN <<>> ELSE next(n, a[n - 1])
        BY <4>1, <1>5, Zenon DEF IsKept, next
      <4> QED
        BY <4>1, <4>2
    <3> QED
      BY <3>1, <3>2
  <2>2. b = [n \in 0..m |-> b[n]]
    BY Zenon
  <2> HIDE DEF b
  <2> QED
    BY <2>1, <2>2, Zenon DEF IsKept
<1> QED
  BY <1>2, <1>6

\* A sequence holds the entries of another at some places, in their order: f tells
\* from which place each is.
Takes(taken, seq, places, f) ==
    /\ f \in [1..Len(taken) -> places]
    /\ \A p \in places : \E k \in 1..Len(taken) : f[k] = p
    /\ \A j, k \in 1..Len(taken) : j < k => f[j] < f[k]
    /\ \A k \in 1..Len(taken) : taken[k] = seq[f[k]]

\* One more place after all others.
LEMMA TakesOneMore ==
    ASSUME NEW T, NEW seq \in Seq(T), NEW taken \in Seq(T), NEW places \in SUBSET Int, NEW f,
           Takes(taken, seq, places, f), NEW n \in DOMAIN seq, \A p \in places : p < n
    PROVE  /\ Append(taken, seq[n]) \in Seq(T)
           /\ \E g : Takes(Append(taken, seq[n]), seq, places \union {n}, g)
<1> DEFINE l == Len(taken)
           more == Append(taken, seq[n])
           g == [k \in 1..(l + 1) |-> IF k = l + 1 THEN n ELSE f[k]]
<1>1. /\ l \in Nat /\ more \in Seq(T) /\ Len(more) = l + 1 /\ more[l + 1] = seq[n]
      /\ \A k \in 1..l : more[k] = taken[k]
  BY SMT
<1>2. /\ f \in [1..l -> places]
      /\ \A p \in places : \E k \in 1..l : f[k] = p
      /\ \A j, k \in 1..l : j < k => f[j] < f[k]
      /\ \A k \in 1..l : taken[k] = seq[f[k]]
  BY Zenon DEF Takes
<1> HIDE DEF l, more
<1>3. g \in [1..(l + 1) -> places \union {n}]
  BY <1>1, <1>2, SMT
<1>4. g[l + 1] = n /\ \A k \in 1..l : g[k] = f[k] /\ k \in 1..(l + 1)
  BY <1>1, SMT
<1> HIDE DEF g
<1>5. ASSUME NEW p \in places \union {n} PROVE \E k \in 1..(l + 1) : g[k] = p
  <2>1. CASE p = n
    BY <1>1, <1>4, <2>1, SMT
  <2>2. CASE p \in places
    BY <1>2, <1>4, <2>2, Zenon
  <2> QED
    BY <2>1, <2>2
<1>6. ASSUME NEW j \in 1..(l + 1), NEW k \in 1..(l + 1), j < k PROVE g[j] < g[k]
  <2>1. j \in 1..l
    BY <1>1, <1>6, SMT
  <2>2. CASE k = l + 1
    <3>1. f[j] \in places /\ g[j] = f[j] /\ g[k] = n
      BY <1>2, <1>4, <2>1, <2>2, SMT
    <3> QED
      BY <3>1
  <2>3. CASE k # l + 1
    <3>1. k \in 1..l
      BY <1>1, <2>3, SMT
    <3> QED
      BY <1>2, <1>4, <1>6, <2>1, <3>1, SMT
  <2> QED
    BY <2>2, <2>3
<1>7. ASSUME NEW k \in 1..(l + 1) PROVE more[k] = seq[g[k]]
  <2>1. k = l + 1 \/ k \in 1..l
    BY <1>1, SMT
  <2> QED
    BY <1>1, <1>2, <1>4, <2>1, Zenon
<1>8. Takes(more, seq, places \union {n}, g)
  BY <1>1, <1>3, <1>5, <1>6, <1>7, Zenon DEF Takes
<1> QED
  BY <1>1, <1>8, Zenon DEF more

\* The entries at some places are just that.
LEMMA EntriesAreTaken ==
    ASSUME NEW T, NEW seq \in Seq(T), NEW places \in SUBSET DOMAIN seq
    PROVE  /\ EntriesAt(seq, places) \in Seq(T)
           /\ \E f : Takes(EntriesAt(seq, places), seq, places, f)
<1>1. PICK l \in Nat : l = Len(seq) /\ DOMAIN seq = 1..l
  BY SMT
<1>2. PICK kept : /\ kept = (CHOOSE k : IsKept(seq, places, l, k))
                  /\ IsKept(seq, places, l, kept)
  BY KeptExists, Zenon
<1>3. EntriesAt(seq, places) = kept[l]
  BY <1>1, <1>2, Zenon DEF EntriesAt, IsKept
<1>4. \A n \in 0..l : kept[n] = IF n = 0 THEN <<>>
                                ELSE IF n \in places THEN Append(kept[n - 1], seq[n])
                                ELSE kept[n - 1]
  BY <1>2, Zenon DEF IsKept
<1> DEFINE Upto(n) == {p \in places : p <= n}
           Fits(n) == kept[n] \in Seq(T) /\ \E f : Takes(kept[n], seq, Upto(n), f)
           S == {n \in 0..l : ~Fits(n)}
<1>5. ASSUME S # {} PROVE FALSE
  <2>1. PICK m \in S : \A k \in S : m <= k
    <3>1. S \in SUBSET Nat
      BY SMT
    <3> HIDE DEF S
    <3> QED
      BY <1>5, <3>1, LeastOfSet, Zenon
  <2>2. m # 0
    <3>1. kept[0] = <<>> /\ Upto(0) = {}
      BY <1>1, <1>4, SMT
    <3>2. Takes(<<>>, seq, {}, <<>>)
      BY SMT DEF Takes
    <3>3. <<>> \in Seq(T)
      BY SMT
    <3>4. Fits(0)
      BY <3>1, <3>2, <3>3, Zenon
    <3> QED
      BY <2>1, <3>4, Zenon
  <2>3. PICK k \in 0..l : k = m - 1 /\ k \notin S /\ m \in 1..l
    <3>1. m - 1 \in 0..l /\ ~(m <= m - 1) /\ m \in 1..l
      BY <2>1, <2>2, SMT
    <3> QED
      BY <2>1, <3>1, Zenon
  <2>4. kept[k] \in Seq(T) /\ \E f : Takes(kept[k], seq, Upto(k), f)
    BY <2>3, Zenon
  <2>5. PICK f : Takes(kept[k], seq, Upto(k), f)
    BY <2>4, Zenon
  <2>6. kept[m] = IF m \in places THEN Append(kept[k], seq[m]) ELSE kept[k]
    BY <1>4, <2>2, <2>1, <2>3, Zenon
  <2>7. Upto(k) \in SUBSET Int /\ \A p \in Upto(k) : p < m
    BY <1>1, <2>3, SMT
  <2>8. Upto(m) = IF m \in places THEN Upto(k) \union {m} ELSE Upto(k)
    BY <1>1, <2>3, SMT
  <2> HIDE DEF Upto
  <2>9. CASE m \in places
    <3>1. /\ Append(kept[k], seq[m]) \in Seq(T)
          /\ \E g : Takes(Append(kept[k], seq[m]), seq, Upto(k) \union {m}, g)
      BY <2>4, <2>5, <2>7, <2>9, TakesOneMore, Zenon
    <3>2. Fits(m)
      BY <2>6, <2>8, <2>9, <3>1, Zenon
    <3> QED
      BY <2>1, <3>2, Zenon
  <2>10. CASE m \notin places
    <3>1. Fits(m)
      BY <2>4, <2>6, <2>8, <2>10, Zenon
    <3> QED
      BY <2>1, <3>1, Zenon
  <2> QED
    BY <2>9, <2>10, Zenon
<1>6. Fits(l)
  <2>1. l \in 0..l
    BY <1>1, SMT
  <2> QED
    BY <1>5, <2>1, Zenon
<1>7. Upto(l) = places
  BY <1>1, SMT
<1> QED
  BY <1>3, <1>6, <1>7, Zenon

\* So its entries are those at the places.
LEMMA EntriesAtAre ==
    ASSUME NEW T, NEW seq \in Seq(T), NEW places \in SUBSET DOMAIN seq
    PROVE  /\ EntriesAt(seq, places) \in Seq(T)
           /\ ToSet(EntriesAt(seq, places)) = {seq[i] : i \in places}
<1>1. PICK taken, f : /\ taken = EntriesAt(seq, places) /\ taken \in Seq(T)
                      /\ Takes(taken, seq, places, f)
  BY EntriesAreTaken, Zenon
<1>2. DOMAIN taken = 1..Len(taken)
  BY <1>1, SMT
<1>3. ASSUME NEW x \in ToSet(taken) PROVE x \in {seq[i] : i \in places}
  BY <1>1, <1>2, <1>3 DEF ToSet, Takes
<1>4. ASSUME NEW i \in places PROVE seq[i] \in ToSet(taken)
  BY <1>1, <1>2, <1>4 DEF ToSet, Takes
<1> QED
  BY <1>1, <1>3, <1>4, Zenon

\* No entry comes up twice, and the entries stay the same.
LEMMA FirstSeenIsOnce ==
    ASSUME NEW T, NEW seq \in Seq(T)
    PROVE  /\ FirstSeen(seq) \in Seq(T) /\ ToSet(FirstSeen(seq)) = ToSet(seq)
           /\ \A j, k \in DOMAIN FirstSeen(seq) : FirstSeen(seq)[j] = FirstSeen(seq)[k] => j = k
<1> DEFINE places == {i \in DOMAIN seq : \A j \in 1..(i - 1) : seq[j] # seq[i]}
<1>1. PICK seen, f : /\ seen = FirstSeen(seq) /\ seen \in Seq(T)
                     /\ Takes(seen, seq, places, f) /\ ToSet(seen) = {seq[i] : i \in places}
  BY EntriesAreTaken, EntriesAtAre, Zenon DEF FirstSeen
<1>2. DOMAIN seen = 1..Len(seen) /\ DOMAIN seq = 1..Len(seq) /\ Len(seq) \in Nat
  BY <1>1, SMT
<1>3. ASSUME NEW i \in DOMAIN seq PROVE \E p \in places : seq[p] = seq[i]
  <2> DEFINE S == {j \in DOMAIN seq : seq[j] = seq[i]}
  <2>1. PICK p \in S : \A j \in S : p <= j
    <3>1. S \in SUBSET Nat /\ i \in S
      BY <1>2, SMT
    <3> HIDE DEF S
    <3> QED
      BY <3>1, LeastOfSet, Zenon
  <2>2. ASSUME NEW j \in 1..(p - 1) PROVE seq[j] # seq[p]
    <3>1. j \in DOMAIN seq /\ ~(p <= j)
      BY <1>2, <2>1, SMT
    <3> QED
      BY <2>1, <3>1, Zenon
  <2> QED
    BY <2>1, <2>2, Zenon
<1>4. ToSet(seen) = ToSet(seq)
  <2> places \subseteq DOMAIN seq
    OBVIOUS
  <2> HIDE DEF places
  <2>1. ToSet(seq) = {seq[i] : i \in DOMAIN seq}
    BY Zenon DEF ToSet
  <2> QED
    BY <1>1, <1>3, <2>1
<1>5. ASSUME NEW j \in DOMAIN seen, NEW k \in DOMAIN seen, seen[j] = seen[k] PROVE j = k
  <2>1. /\ f[j] \in places /\ f[k] \in places /\ seq[f[j]] = seq[f[k]]
        /\ (j < k => f[j] < f[k]) /\ (k < j => f[k] < f[j])
    BY <1>1, <1>2, <1>5, Zenon DEF Takes
  <2>2. ASSUME NEW a \in places, NEW b \in places, a < b PROVE seq[a] # seq[b]
    <3>1. a \in 1..(b - 1)
      BY <1>2, <2>2, SMT
    <3> QED
      BY <3>1, Zenon
  <2>3. ~(j < k) /\ ~(k < j)
    BY <2>1, <2>2, Zenon
  <2> QED
    BY <1>2, <2>3, SMT
<1> QED
  BY <1>1, <1>4, <1>5, Zenon

\* What was joined of the first sequences of a sequence.
IsJoined(seqs, longest, joined) ==
    joined = [n \in 1..longest |-> IF n = 1 THEN seqs[n] ELSE joined[n - 1] \o seqs[n]]

LEMMA JoinedExists ==
    ASSUME NEW seqs, NEW longest \in Nat \ {0}
    PROVE  \E joined : IsJoined(seqs, longest, joined)
<1> DEFINE S == {n \in Nat \ {0} : ~\E joined : IsJoined(seqs, n, joined)}
<1>1. SUFFICES ASSUME S # {} PROVE FALSE
  OBVIOUS
<1>2. PICK m \in S : \A n \in S : m <= n
  <2>1. S \in SUBSET Nat
    OBVIOUS
  <2> QED
    BY <1>1, <2>1, LeastOfSet, Zenon
<1>3. m # 1
  <2>1. IsJoined(seqs, 1, [n \in 1..1 |-> seqs[n]])
    BY SMT DEF IsJoined
  <2> QED
    BY <2>1, <1>2, Zenon
<1>4. m - 1 \in Nat \ {0} /\ m - 1 \notin S
  BY <1>2, <1>3, SMT
<1>5. PICK a : IsJoined(seqs, m - 1, a)
  BY <1>4
<1> DEFINE both == a[m - 1] \o seqs[m]
           b == [n \in 1..m |-> IF n = m THEN both ELSE a[n]]
<1>6. IsJoined(seqs, m, b)
  <2>1. ASSUME NEW n \in 1..m
        PROVE  b[n] = IF n = 1 THEN seqs[n] ELSE b[n - 1] \o seqs[n]
    <3>1. CASE n = m
      <4> HIDE DEF both
      <4>1. b[n] = both /\ b[n - 1] = a[m - 1] /\ n # 1
        BY <3>1, <1>2, <1>3, SMT
      <4> QED
        BY <3>1, <4>1, Zenon DEF both
    <3>2. CASE n # m
      <4> HIDE DEF both
      <4>1. n \in 1..(m - 1) /\ b[n] = a[n] /\ (n # 1 => b[n - 1] = a[n - 1])
        BY <3>2, <1>2, <1>3, SMT
      <4>2. a[n] = IF n = 1 THEN seqs[n] ELSE a[n - 1] \o seqs[n]
        BY <4>1, <1>5, Zenon DEF IsJoined
      <4> QED
        BY <4>1, <4>2, Zenon
    <3> QED
      BY <3>1, <3>2
  <2>2. b = [n \in 1..m |-> b[n]]
    BY Zenon
  <2> HIDE DEF b
  <2> QED
    BY <2>1, <2>2, Zenon DEF IsJoined
<1> QED
  BY <1>2, <1>6, Zenon

\* The elements of two sequences, one after the other.
LEMMA ElementsOfBoth ==
    ASSUME NEW T, NEW s \in Seq(T), NEW t \in Seq(T)
    PROVE  s \o t \in Seq(T) /\ ToSet(s \o t) = ToSet(s) \union ToSet(t)
<1>1. /\ s \o t \in Seq(T) /\ Len(s \o t) = Len(s) + Len(t)
      /\ \A i \in 1..Len(s) : (s \o t)[i] = s[i]
      /\ \A i \in 1..Len(t) : (s \o t)[Len(s) + i] = t[i]
  BY SMT
<1>2. PICK u : u = s \o t
  BY Zenon
<1>3. /\ DOMAIN s = 1..Len(s) /\ DOMAIN t = 1..Len(t) /\ DOMAIN u = 1..(Len(s) + Len(t))
      /\ Len(s) \in Nat /\ Len(t) \in Nat
  BY <1>1, <1>2, SMT
<1>4. ASSUME NEW x \in ToSet(u) PROVE x \in ToSet(s) \union ToSet(t)
  <2>1. PICK i \in DOMAIN u : x = u[i]
    BY <1>4, Zenon DEF ToSet
  <2>2. CASE i \in 1..Len(s)
    BY <1>1, <1>2, <1>3, <2>1, <2>2, Zenon DEF ToSet
  <2>3. CASE i \notin 1..Len(s)
    <3>1. PICK j \in 1..Len(t) : i = Len(s) + j
      <4>1. i - Len(s) \in 1..Len(t) /\ i = Len(s) + (i - Len(s))
        BY <1>3, <2>1, <2>3, SMT
      <4> QED
        BY <4>1, Zenon
    <3> QED
      BY <1>1, <1>2, <1>3, <2>1, <3>1, Zenon DEF ToSet
  <2> QED
    BY <2>2, <2>3
<1>5. ASSUME NEW i \in DOMAIN s PROVE s[i] \in ToSet(u)
  <2>1. i \in DOMAIN u
    BY <1>3, SMT
  <2> QED
    BY <1>1, <1>2, <1>3, <2>1, Zenon DEF ToSet
<1>6. ASSUME NEW i \in DOMAIN t PROVE t[i] \in ToSet(u)
  <2>1. Len(s) + i \in DOMAIN u
    BY <1>3, SMT
  <2> QED
    BY <1>1, <1>2, <1>3, <2>1, Zenon DEF ToSet
<1>7. ToSet(s) \subseteq ToSet(u) /\ ToSet(t) \subseteq ToSet(u)
  BY <1>5, <1>6, Zenon DEF ToSet
<1> QED
  BY <1>1, <1>2, <1>4, <1>7, Zenon

\* Sequences joined hold the elements of each.
LEMMA FlattenedAre ==
    ASSUME NEW T, NEW seqs \in Seq(Seq(T))
    PROVE  /\ FlattenSeq(seqs) \in Seq(T)
           /\ \A x : x \in ToSet(FlattenSeq(seqs)) <=> \E i \in DOMAIN seqs : x \in ToSet(seqs[i])
<1>1. PICK l \in Nat : l = Len(seqs) /\ DOMAIN seqs = 1..l /\ \A i \in 1..l : seqs[i] \in Seq(T)
  BY SMT
<1>2. CASE l = 0
  <2>1. FlattenSeq(seqs) = <<>>
    <3>1. seqs = <<>>
      BY <1>1, <1>2, SMT
    <3> QED
      BY <1>1, <1>2, <3>1, Zenon DEF FlattenSeq
  <2>2. <<>> \in Seq(T) /\ ToSet(<<>>) = {} /\ DOMAIN seqs = {}
    BY <1>1, <1>2, SMT DEF ToSet
  <2> QED
    BY <2>1, <2>2, Zenon
<1>3. CASE l # 0
  <2>1. PICK joined : /\ joined = (CHOOSE j : IsJoined(seqs, l, j))
                      /\ IsJoined(seqs, l, joined)
    <3>1. l \in Nat \ {0}
      BY <1>3, Zenon
    <3> QED
      BY <3>1, JoinedExists, Zenon
  <2>2. FlattenSeq(seqs) = joined[l]
    BY <1>1, <1>3, <2>1, Zenon DEF FlattenSeq, IsJoined
  <2>3. \A n \in 1..l : joined[n] = IF n = 1 THEN seqs[n] ELSE joined[n - 1] \o seqs[n]
    BY <2>1, Zenon DEF IsJoined
  <2> DEFINE Fits(n) == /\ joined[n] \in Seq(T)
                        /\ \A x : x \in ToSet(joined[n]) <=> \E i \in 1..n : x \in ToSet(seqs[i])
             S == {n \in 1..l : ~Fits(n)}
  <2>4. ASSUME S # {} PROVE FALSE
    <3>1. PICK m \in S : \A k \in S : m <= k
      <4>1. S \in SUBSET Nat
        BY SMT
      <4> HIDE DEF S
      <4> QED
        BY <2>4, <4>1, LeastOfSet, Zenon
    <3>2. m # 1
      <4>1. 1 \in 1..l /\ 1..1 = {1}
        BY <1>1, <1>3, SMT
      <4>2. Fits(1)
        BY <1>1, <2>3, <4>1, Zenon
      <4> QED
        BY <3>1, <4>2, Zenon
    <3>3. PICK k \in 1..l : /\ k = m - 1 /\ k \notin S /\ m \in 1..l
                            /\ 1..m = 1..k \union {m}
      <4>1. m - 1 \in 1..l /\ ~(m <= m - 1) /\ m \in 1..l /\ 1..m = 1..(m - 1) \union {m}
        BY <3>1, <3>2, SMT
      <4> QED
        BY <3>1, <4>1, Zenon
    <3>4. Fits(k)
      BY <3>3, Zenon
    <3>5. joined[m] = joined[k] \o seqs[m]
      BY <2>3, <3>2, <3>3, Zenon
    <3>6. joined[m] \in Seq(T) /\ ToSet(joined[m]) = ToSet(joined[k]) \union ToSet(seqs[m])
      <4>1. joined[k] \in Seq(T) /\ seqs[m] \in Seq(T)
        BY <1>1, <3>3, <3>4, Zenon
      <4>2. PICK u, v : u = joined[k] /\ v = seqs[m] /\ u \in Seq(T) /\ v \in Seq(T)
        BY <4>1, Zenon
      <4>3. u \o v \in Seq(T) /\ ToSet(u \o v) = ToSet(u) \union ToSet(v)
        BY <4>2, ElementsOfBoth
      <4> QED
        BY <3>5, <4>2, <4>3, Zenon
    <3>7. Fits(m)
      BY <3>3, <3>4, <3>6, Zenon
    <3> QED
      BY <3>1, <3>7, Zenon
  <2>5. Fits(l)
    <3>1. l \in 1..l
      BY <1>3, SMT
    <3> QED
      BY <2>4, <3>1, Zenon
  <2> QED
    BY <1>1, <2>2, <2>5, Zenon
<1> QED
  BY <1>2, <1>3

------------------------------------------------------------------------------
(* Plans as requests: what is asked for is what has no row. *)

\* A function of the numbers up to a count is a sequence of its values.
LEMMA ValuesOfSequence ==
    ASSUME NEW n \in Nat, NEW s, s = [i \in 1..n |-> s[i]]
    PROVE  s \in Seq(ToSet(s)) /\ Len(s) = n /\ DOMAIN s = 1..n
<1>1. DOMAIN s = 1..n
  BY Zenon
<1>2. \A i \in 1..n : s[i] \in ToSet(s)
  BY <1>1, Zenon DEF ToSet
<1>3. PICK T : T = ToSet(s)
  BY Zenon
<1>4. s \in [1..n -> T]
  BY <1>2, <1>3, Zenon
<1>5. s \in Seq(T)
  BY <1>4, SMT
<1> QED
  BY <1>1, <1>3, <1>5, SMT

\* The requests of a plan are the texts of its gaps, each person's together.
LEMMA RequestsOfGaps ==
    ASSUME NEW T, NEW gaps \in Seq(T)
    PROVE  /\ FillRequests(BatchPlan(gaps)) \in Seq({Text(c) : c \in T})
           /\ \A x : x \in ToSet(FillRequests(BatchPlan(gaps))) <=>
                        \E c \in ToSet(gaps) : x = Text(c)
<1>1. PICK l \in Nat : l = Len(gaps) /\ DOMAIN gaps = 1..l
  BY SMT
<1> DEFINE every == [i \in DOMAIN gaps |-> gaps[i].person]
<1>2. every \in Seq(ToSet(every)) /\ DOMAIN every = DOMAIN gaps
  <2>1. every = [i \in 1..l |-> every[i]]
    BY <1>1, Zenon
  <2> HIDE DEF every
  <2> QED
    BY <1>1, <2>1, ValuesOfSequence
<1>3. \A i \in DOMAIN gaps : every[i] = gaps[i].person
  BY Zenon
<1>4. PICK persons : /\ persons = FirstSeen(every) /\ persons \in Seq(ToSet(every))
                     /\ ToSet(persons) = ToSet(every)
  BY <1>2, FirstSeenIsOnce, Zenon
<1> DEFINE Theirs(i) == {j \in DOMAIN gaps : gaps[j].person = persons[i]}
           batches == [i \in DOMAIN persons |->
                          [person |-> persons[i], periods |-> EntriesAt(gaps, Theirs(i))]]
<1>5. PICK plan : plan = BatchPlan(gaps) /\ plan.batches = batches
  <2>1. PICK b, t, p : b = batches /\ t = Len(gaps) /\ p = Len(persons)
    BY Zenon
  <2>2. BatchPlan(gaps) = [batches |-> b, totalGapCount |-> t, personCount |-> p]
    BY <1>4, <2>1, Zenon DEF BatchPlan
  <2>3. BatchPlan(gaps).batches = b
    BY <2>2, SMT
  <2> QED
    BY <2>1, <2>3, Zenon
<1>6. DOMAIN batches = DOMAIN persons
  BY Zenon
<1>7. \A i \in DOMAIN persons : batches[i].periods = EntriesAt(gaps, Theirs(i))
  <2>1. ASSUME NEW i \in DOMAIN persons PROVE batches[i].periods = EntriesAt(gaps, Theirs(i))
    <3>1. PICK p, e : p = persons[i] /\ e = EntriesAt(gaps, Theirs(i))
      BY Zenon
    <3>2. batches[i] = [person |-> p, periods |-> e]
      BY <3>1, Zenon
    <3> QED
      BY <3>1, <3>2, SMT
  <2> QED
    BY <2>1
<1> HIDE DEF every, batches
<1> DEFINE R == {Text(c) : c \in T}
           Asks(i) == [j \in DOMAIN EntriesAt(gaps, Theirs(i)) |-> Text(EntriesAt(gaps, Theirs(i))[j])]
           seqs == [i \in DOMAIN persons |-> Asks(i)]
<1>8. FillRequests(plan) = FlattenSeq(seqs)
  <2>1. seqs = [i \in DOMAIN plan.batches |->
                  [j \in DOMAIN plan.batches[i].periods |-> Text(plan.batches[i].periods[j])]]
    BY <1>5, <1>6, <1>7, Zenon
  <2> HIDE DEF seqs
  <2> QED
    BY <2>1, Zenon DEF FillRequests
<1>9. ASSUME NEW i \in DOMAIN persons
      PROVE  /\ Asks(i) \in Seq(R)
             /\ \A x : x \in ToSet(Asks(i)) <=> \E j \in Theirs(i) : x = Text(gaps[j])
  <2>1. PICK e : /\ e = EntriesAt(gaps, Theirs(i)) /\ e \in Seq(T)
                 /\ ToSet(e) = {gaps[j] : j \in Theirs(i)}
    <3>1. Theirs(i) \in SUBSET DOMAIN gaps
      BY Zenon
    <3> HIDE DEF Of
    <3> QED
      BY <3>1, EntriesAtAre
  <2>2. PICK n \in Nat : n = Len(e) /\ DOMAIN e = 1..n /\ \A j \in 1..n : e[j] \in T
    <3>1. e \in Seq(T)
      BY <2>1, Zenon
    <3> QED
      BY <3>1, SMT
  <2>3. PICK a : a = Asks(i) /\ a = [j \in 1..n |-> Text(e[j])]
    BY <2>1, <2>2, Zenon
  <2>4. a \in Seq(R)
    <3>1. \A j \in 1..n : Text(e[j]) \in R
      BY <2>2, Zenon
    <3> HIDE DEF R
    <3>2. a \in [1..n -> R]
      BY <2>3, <3>1, Zenon
    <3> QED
      BY <3>2, SMT
  <2>5. DOMAIN a = 1..n /\ \A j \in 1..n : a[j] = Text(e[j])
    BY <2>3, Zenon
  <2>6. ASSUME NEW x PROVE x \in ToSet(a) <=> \E j \in Theirs(i) : x = Text(gaps[j])
    <3> HIDE DEF Of
    <3>1. x \in ToSet(a) <=> \E c \in ToSet(e) : x = Text(c)
      BY <2>2, <2>5, Zenon DEF ToSet
    <3> QED
      BY <2>1, <3>1, Zenon
  <2> QED
    BY <2>3, <2>4, <2>6, Zenon
<1>10. seqs \in Seq(Seq(R)) /\ DOMAIN seqs = DOMAIN persons
       /\ \A i \in DOMAIN persons : seqs[i] = Asks(i)
  <2>1. PICK m \in Nat : m = Len(persons) /\ DOMAIN persons = 1..m
    BY <1>4, SMT
  <2>2. \A i \in DOMAIN persons : Asks(i) \in Seq(R)
    BY <1>9, Zenon
  <2> HIDE DEF Asks, R
  <2>3. seqs \in [1..m -> Seq(R)]
    BY <2>1, <2>2, Zenon
  <2>4. DOMAIN seqs = DOMAIN persons /\ \A i \in DOMAIN persons : seqs[i] = Asks(i)
    BY Zenon
  <2> HIDE DEF seqs
  <2>5. seqs \in Seq(Seq(R))
    BY <2>3, SMT
  <2> QED
    BY <2>4, <2>5, Zenon
<1> HIDE DEF R, Asks, seqs
<1>11. /\ FlattenSeq(seqs) \in Seq(R)
       /\ \A x : x \in ToSet(FlattenSeq(seqs)) <=> \E i \in DOMAIN seqs : x \in ToSet(seqs[i])
  BY <1>10, FlattenedAre
<1>12. ASSUME NEW x
       PROVE  x \in ToSet(FlattenSeq(seqs)) <=> \E c \in ToSet(gaps) : x = Text(c)
  <2>1. x \in ToSet(FlattenSeq(seqs)) <=>
           \E i \in DOMAIN persons : \E j \in Theirs(i) : x = Text(gaps[j])
    <3> HIDE DEF Theirs
    <3>1. x \in ToSet(FlattenSeq(seqs)) <=> \E i \in DOMAIN persons : x \in ToSet(Asks(i))
      BY <1>10, <1>11, Zenon
    <3> QED
      BY <1>9, <3>1, Zenon
  <2>2. ASSUME NEW j \in DOMAIN gaps PROVE \E i \in DOMAIN persons : j \in Theirs(i)
    <3>1. gaps[j].person \in ToSet(persons)
      BY <1>2, <1>3, <1>4, Zenon DEF ToSet
    <3> QED
      BY <3>1, Zenon DEF ToSet
  <2>3. \A i \in DOMAIN persons : Theirs(i) \subseteq DOMAIN gaps
    BY Zenon
  <2> HIDE DEF Of
  <2> QED
    BY <2>1, <2>2, <2>3, Zenon DEF ToSet
<1> QED
  BY <1>5, <1>8, <1>11, <1>12, Zenon DEF R

\* The intended coordinates are a sequence.
LEMMA IntendedIsSequence ==
    ASSUME NEW period \in RefreshPeriods, NEW range,
           range.start \in Int, range.end \in Int, range.start < range.end,
           NEW P, NEW persons \in Seq(P)
    PROVE  Intended(persons, period, range) \in Seq(ToSet(Intended(persons, period, range)))
<1>1. PICK n \in Nat : n = Len(persons)
  BY SMT
<1>2. CASE persons = <<>>
  <2>1. Intended(persons, period, range) = <<>>
    BY <1>2, Zenon DEF Intended
  <2> QED
    BY <2>1, SMT
<1>3. CASE persons # <<>>
  <2> PICK starts : starts = PeriodStarts(period, range)
    BY Zenon
  <2>1. PICK count \in Nat : IsCut(period, range.start, range.end, starts, count)
    <3>1. \A count \in Nat \ {0} : count \in Nat
      BY Zenon
    <3> QED
      BY <3>1, PeriodStartsAreCut, Zenon
  <2>2. Len(starts) = count
    <3>1. starts = [i \in 1..count |-> starts[i]]
      BY <2>1, Zenon DEF IsCut
    <3> QED
      BY <3>1, ValuesOfSequence, Zenon
  <2>3. PICK many \in Nat : many = Len(starts) * n
    <3>1. Len(starts) * n \in Nat
      BY <2>2, SMT
    <3> QED
      BY <3>1, Zenon
  <2>4. ~(range.start >= range.end)
    BY SMT
  <2>5. Intended(persons, period, range) =
           [i \in 1..many |-> Coordinate(persons[((i - 1) % n) + 1], period,
                                         starts[((i - 1) \div n) + 1])]
    BY <1>1, <1>3, <2>1, <2>3, <2>4, Zenon DEF Intended
  <2>6. PICK intended : /\ intended = Intended(persons, period, range)
                        /\ intended = [i \in 1..many |-> intended[i]]
    BY <2>5, Zenon
  <2> QED
    BY <2>6, ValuesOfSequence, Zenon
<1> QED
  BY <1>2, <1>3

\* What is asked of a run is the text of each coordinate of the range that has no
\* row, and of no other, and each is read back as the coordinate it was
\* (evaluation-unevaluated-period-select.ts:147, evaluation-unevaluated-fill-requests.ts:137).
THEOREM RequestsAreTheGaps ==
    ASSUME NEW period \in RefreshPeriods, NEW range,
           range.start \in Int, range.end \in Int, range.start < range.end,
           NEW P, NEW persons \in Seq(P), NEW rows
    PROVE  LET requests == FillRequests(ComposePlan(persons, period, range, rows))
               gaps == ToSet(Intended(persons, period, range)) \ rows
           IN  /\ requests \in Seq(ToSet(requests))
               /\ \A x : x \in ToSet(requests) <=> \E c \in gaps : x = Text(c)
               /\ \A c \in gaps : ToContext(Text(c)) = c
<1>1. PICK intended, T : /\ intended = Intended(persons, period, range)
                         /\ T = ToSet(intended) /\ intended \in Seq(T)
  BY IntendedIsSequence, Zenon
<1> DEFINE places == {i \in DOMAIN intended : intended[i] \notin rows}
<1>2. PICK gaps : /\ gaps = SelectUnevaluated(intended, rows)
                  /\ gaps \in Seq(T) /\ ToSet(gaps) = {intended[i] : i \in places}
  <2>1. places \in SUBSET DOMAIN intended
    BY Zenon
  <2>2. SelectUnevaluated(intended, rows) = EntriesAt(intended, places)
    BY Zenon DEF SelectUnevaluated
  <2> HIDE DEF places
  <2> QED
    BY <1>1, <2>1, <2>2, EntriesAtAre
<1>3. ToSet(gaps) = T \ rows
  <2>1. ASSUME NEW x PROVE x \in ToSet(gaps) <=> x \in T \ rows
    <3>1. x \in T <=> \E i \in DOMAIN intended : x = intended[i]
      BY <1>1, Zenon DEF ToSet
    <3> QED
      BY <1>2, <3>1, Zenon
  <2> QED
    BY <2>1, Zenon
<1>4. PICK requests : /\ requests = FillRequests(ComposePlan(persons, period, range, rows))
                      /\ requests = FillRequests(BatchPlan(gaps))
  BY <1>1, <1>2, Zenon DEF ComposePlan
<1>5. /\ requests \in Seq({Text(c) : c \in T})
      /\ \A x : x \in ToSet(requests) <=> \E c \in T \ rows : x = Text(c)
  BY <1>2, <1>3, <1>4, RequestsOfGaps, Zenon
<1>6. requests \in Seq(ToSet(requests))
  <2>1. requests = [i \in 1..Len(requests) |-> requests[i]] /\ Len(requests) \in Nat
    BY <1>5, SMT
  <2> QED
    BY <2>1, ValuesOfSequence, Zenon
<1>7. ASSUME NEW c \in T PROVE ToContext(Text(c)) = c
  <2>1. PICK k \in DOMAIN persons, t \in range.start..(range.end - 1) :
           c = Coordinate(persons[k], period, RangeOf(period, t).start)
    BY <1>1, <1>7, IntendedAreOfRange
  <2>2. t \in Int
    BY SMT
  <2>3. RangeOf(period, t).start \in Int
    BY <2>2, PeriodFits, Zenon
  <2> QED
    BY <2>1, <2>3, TextsComeBack, Zenon
<1> QED
  BY <1>1, <1>4, <1>5, <1>6, <1>7, Zenon

\* A sequence without doubles has as many places as elements.
LEMMA OnceCounts ==
    ASSUME NEW T, NEW s \in Seq(T), \A j, k \in DOMAIN s : s[j] = s[k] => j = k
    PROVE  IsFiniteSet(ToSet(s)) /\ Cardinality(ToSet(s)) = Len(s)
<1>1. PICK n \in Nat : n = Len(s) /\ DOMAIN s = 1..n
  BY SMT
<1>2. s \in [1..n -> ToSet(s)]
  <2>1. \A i \in 1..n : s[i] \in ToSet(s)
    BY <1>1, Zenon DEF ToSet
  <2>2. PICK U : U = ToSet(s)
    BY Zenon
  <2> QED
    BY <1>1, <2>1, <2>2, SMT
<1>3. \A x \in ToSet(s) : \E i \in 1..n : s[i] = x
  BY <1>1, Zenon DEF ToSet
<1>4. \A j, k \in 1..n : s[j] = s[k] => j = k
  BY <1>1, Zenon
<1>5. s \in Bijection(1..n, ToSet(s))
  BY <1>2, <1>3, <1>4, Zenon DEF Bijection, Injection, Surjection, IsInjective
<1>6. ExistsBijection(1..n, ToSet(s))
  BY <1>5, Zenon DEF ExistsBijection
<1>7. IsFiniteSet(1..n) /\ Cardinality(1..n) = n
  <2>1. n \in Int /\ 1 \in Int
    BY SMT
  <2>2. IsFiniteSet(1..n) /\ Cardinality(1..n) = IF 1 > n THEN 0 ELSE n - 1 + 1
    BY <2>1, FS_Interval, Zenon
  <2> QED
    BY <2>2, SMT
<1> QED
  BY <1>1, <1>6, <1>7, FS_Bijection, Zenon

\* Numbers of outcomes of the three kinds make all of them.
LEMMA KindsAddUp ==
    ASSUME NEW n \in Nat, NEW status,
           \A i \in 1..n : status[i] \in {"evaluated", "skipped", "failed"}
    PROVE  /\ Cardinality({i \in 1..n : status[i] = "evaluated"}) \in Nat
           /\ Cardinality({i \in 1..n : status[i] = "skipped"}) \in Nat
           /\ Cardinality({i \in 1..n : status[i] = "failed"}) \in Nat
           /\ Cardinality({i \in 1..n : status[i] = "evaluated"})
                + Cardinality({i \in 1..n : status[i] = "skipped"})
                + Cardinality({i \in 1..n : status[i] = "failed"}) = n
<1>1. PICK A, B, C : /\ A = {i \in 1..n : status[i] = "evaluated"}
                     /\ B = {i \in 1..n : status[i] = "skipped"}
                     /\ C = {i \in 1..n : status[i] = "failed"}
  BY Zenon
<1>2. IsFiniteSet(1..n) /\ Cardinality(1..n) = n
  <2>1. n \in Int /\ 1 \in Int
    BY SMT
  <2>2. IsFiniteSet(1..n) /\ Cardinality(1..n) = IF 1 > n THEN 0 ELSE n - 1 + 1
    BY <2>1, FS_Interval, Zenon
  <2> QED
    BY <2>2, SMT
<1>3. A \subseteq 1..n /\ B \subseteq 1..n /\ C \subseteq 1..n
  BY <1>1, Zenon
<1>4. A \intersect B = {} /\ (A \union B) \intersect C = {} /\ (A \union B) \union C = 1..n
  <2>1. "evaluated" # "skipped" /\ "evaluated" # "failed" /\ "skipped" # "failed"
    BY SMT
  <2> QED
    BY <1>1, <2>1, SMT
<1>5. /\ IsFiniteSet(A) /\ Cardinality(A) \in Nat /\ IsFiniteSet(B) /\ Cardinality(B) \in Nat
      /\ IsFiniteSet(C) /\ Cardinality(C) \in Nat
  BY <1>2, <1>3, FS_Subset, FS_CardinalityType, Zenon
<1>6. Cardinality({}) = 0
  BY FS_EmptySet, Zenon
<1>7. /\ IsFiniteSet(A \union B)
      /\ Cardinality(A \union B) = Cardinality(A) + Cardinality(B) - 0
  BY <1>4, <1>5, <1>6, FS_Union, Zenon
<1>8. n = Cardinality(A \union B) + Cardinality(C) - 0
  <2>1. PICK D : D = A \union B /\ IsFiniteSet(D) /\ D \intersect C = {} /\ D \union C = 1..n
    BY <1>4, <1>7, Zenon
  <2>2. Cardinality(D \union C) = Cardinality(D) + Cardinality(C) - Cardinality(D \intersect C)
    BY <1>5, <2>1, FS_Union, Zenon
  <2> QED
    BY <1>2, <1>6, <2>1, <2>2, Zenon
<1>9. Cardinality(A) + Cardinality(B) + Cardinality(C) = n
  BY <1>5, <1>7, <1>8, SMT
<1> QED
  BY <1>1, <1>5, <1>9, Zenon

\* A run has one outcome of each request, and its counts add up to them.
LEMMA RunIsOfRequests ==
    ASSUME NEW T, NEW requests \in Seq(T), NEW fates,
           \A q \in ToSet(requests) : fates[q] \in Fates
    PROVE  LET outcomes == RunBatch(requests, fates)
               counts == Aggregate(outcomes)
           IN  /\ \A o : o \in ToSet(outcomes) <=>
                            \E q \in ToSet(requests) : o = OutcomeOf(q, fates[q])
               /\ IsFiniteSet(ToSet(requests))
               /\ counts.totalCount = Cardinality(ToSet(requests))
               /\ counts.evaluatedCount + counts.skippedCount + counts.failedCount
                    = counts.totalCount
<1>1. PICK once : /\ once = FirstSeen(requests) /\ once \in Seq(T)
                  /\ ToSet(once) = ToSet(requests)
                  /\ \A j, k \in DOMAIN once : once[j] = once[k] => j = k
  BY FirstSeenIsOnce
<1>2. IsFiniteSet(ToSet(requests)) /\ Cardinality(ToSet(requests)) = Len(once)
  BY <1>1, OnceCounts, Zenon
<1>3. PICK n \in Nat : n = Len(once) /\ DOMAIN once = 1..n
  <2>1. once \in Seq(T)
    BY <1>1, Zenon
  <2> QED
    BY <2>1, SMT
<1>4. PICK outcomes : /\ outcomes = RunBatch(requests, fates)
                      /\ outcomes = [i \in 1..n |-> OutcomeOf(once[i], fates[once[i]])]
  BY <1>1, <1>3, Zenon DEF RunBatch
<1>5. DOMAIN outcomes = 1..n /\ \A i \in 1..n : outcomes[i] = OutcomeOf(once[i], fates[once[i]])
  BY <1>4, Zenon
<1>6. Len(outcomes) = n
  <2>1. outcomes = [i \in 1..n |-> outcomes[i]]
    BY <1>4, Zenon
  <2> QED
    BY <2>1, ValuesOfSequence, Zenon
<1>7. ASSUME NEW o
      PROVE  o \in ToSet(outcomes) <=> \E q \in ToSet(requests) : o = OutcomeOf(q, fates[q])
  <2>1. o \in ToSet(outcomes) <=> \E q \in ToSet(once) : o = OutcomeOf(q, fates[q])
    <3>1. \A q : q \in ToSet(once) <=> \E i \in 1..n : q = once[i]
      BY <1>3, Zenon DEF ToSet
    <3>2. o \in ToSet(outcomes) <=> \E i \in 1..n : o = outcomes[i]
      BY <1>5, Zenon DEF ToSet
    <3>3. ASSUME NEW q \in ToSet(once), o = OutcomeOf(q, fates[q]) PROVE o \in ToSet(outcomes)
      <4>1. PICK i \in 1..n : q = once[i]
        BY <3>1, Zenon
      <4>2. o = outcomes[i]
        BY <1>5, <3>3, <4>1
      <4> QED
        BY <3>2, <4>2, Zenon
    <3>4. ASSUME NEW i \in 1..n, o = outcomes[i]
          PROVE  \E q \in ToSet(once) : o = OutcomeOf(q, fates[q])
      BY <1>5, <3>1, <3>4
    <3> QED
      BY <3>2, <3>3, <3>4, Zenon
  <2> QED
    BY <1>1, <2>1, Zenon
<1>8. ASSUME NEW i \in 1..n
      PROVE  outcomes[i].status \in {"evaluated", "skipped", "failed"}
  <2>1. fates[once[i]] \in Fates
    <3>1. once[i] \in ToSet(requests)
      BY <1>1, <1>3, Zenon DEF ToSet
    <3> QED
      BY <3>1, Zenon
  <2>2. PICK q, fate : q = once[i] /\ fate = fates[once[i]] /\ fate \in Fates
    BY <2>1, Zenon
  <2>3. OutcomeOf(q, fate).status \in {"evaluated", "skipped", "failed"}
    BY <2>2, SMT DEF OutcomeOf, Fates
  <2> QED
    BY <1>5, <2>2, <2>3, Zenon
<1> DEFINE status == [i \in 1..n |-> outcomes[i].status]
<1>9. \A i \in 1..n : status[i] = outcomes[i].status
  BY Zenon
<1> HIDE DEF status
<1>10. ASSUME NEW kind
       PROVE  CountOf(outcomes, kind) = Cardinality({i \in 1..n : status[i] = kind})
  <2>1. {i \in DOMAIN outcomes : outcomes[i].status = kind} = {i \in 1..n : status[i] = kind}
    BY <1>5, <1>9, Zenon
  <2> QED
    BY <2>1, Zenon DEF CountOf
<1>11. PICK e, s, f : /\ e = CountOf(outcomes, "evaluated") /\ s = CountOf(outcomes, "skipped")
                      /\ f = CountOf(outcomes, "failed") /\ e + s + f = n
  <2>1. \A i \in 1..n : status[i] \in {"evaluated", "skipped", "failed"}
    BY <1>8, <1>9, Zenon
  <2>2. Cardinality({i \in 1..n : status[i] = "evaluated"})
          + Cardinality({i \in 1..n : status[i] = "skipped"})
          + Cardinality({i \in 1..n : status[i] = "failed"}) = n
    BY <2>1, KindsAddUp, Zenon
  <2> QED
    BY <1>10, <2>2, Zenon
<1>12. Aggregate(outcomes) = [totalCount |-> n, evaluatedCount |-> e,
                              skippedCount |-> s, failedCount |-> f]
  BY <1>6, <1>11, Zenon DEF Aggregate
<1>13. /\ Aggregate(outcomes).totalCount = n
       /\ Aggregate(outcomes).evaluatedCount = e
       /\ Aggregate(outcomes).skippedCount = s /\ Aggregate(outcomes).failedCount = f
  BY <1>12, SMT
<1> QED
  BY <1>2, <1>3, <1>4, <1>7, <1>11, <1>13, Zenon

\* What a run leaves: the rows that it stores are of coordinates that had none, and a
\* plan made after it asks for what failed or was left out, and for nothing else, so
\* that running again neither loses a coordinate nor repeats one
\* (run-unevaluated-fill-batch.ts:179).
THEOREM RerunAsksForTheFailed ==
    ASSUME NEW period \in RefreshPeriods, NEW range,
           range.start \in Int, range.end \in Int, range.start < range.end,
           NEW P, NEW persons \in Seq(P), NEW rows, NEW fates
    PROVE  LET requests == FillRequests(ComposePlan(persons, period, range, rows))
               kept == {ToContext(q) : q \in {r \in ToSet(requests) : Stored(fates[r])}}
               again == FillRequests(ComposePlan(persons, period, range, rows \union kept))
           IN  /\ kept \intersect rows = {}
               /\ ToSet(again) = {q \in ToSet(requests) : ~Stored(fates[q])}
<1>1. PICK intended : intended = ToSet(Intended(persons, period, range))
  BY Zenon
<1>2. PICK requests :
         /\ requests = ToSet(FillRequests(ComposePlan(persons, period, range, rows)))
         /\ \A x : x \in requests <=> \E c \in intended \ rows : x = Text(c)
         /\ \A c \in intended \ rows : ToContext(Text(c)) = c
  BY <1>1, RequestsAreTheGaps
<1>3. PICK kept : kept = {ToContext(q) : q \in {r \in requests : Stored(fates[r])}}
  BY Zenon
<1>4. PICK again :
         /\ again = ToSet(FillRequests(ComposePlan(persons, period, range, rows \union kept)))
         /\ \A x : x \in again <=> \E c \in intended \ (rows \union kept) : x = Text(c)
  BY <1>1, RequestsAreTheGaps
<1>5. ASSUME NEW c \in intended \ rows PROVE c \in kept <=> Stored(fates[Text(c)])
  <2>1. ASSUME c \in kept PROVE Stored(fates[Text(c)])
    <3>1. PICK q \in requests : Stored(fates[q]) /\ c = ToContext(q)
      BY <1>3, <2>1, Zenon
    <3>2. PICK d \in intended \ rows : q = Text(d)
      BY <1>2, <3>1, Zenon
    <3>3. c = d
      BY <1>2, <3>1, <3>2, Zenon
    <3> QED
      BY <3>1, <3>2, <3>3, Zenon
  <2>2. ASSUME Stored(fates[Text(c)]) PROVE c \in kept
    <3>1. Text(c) \in requests /\ ToContext(Text(c)) = c
      BY <1>2, Zenon
    <3> QED
      BY <1>3, <2>2, <3>1, Zenon
  <2> QED
    BY <2>1, <2>2
<1>6. kept \subseteq intended \ rows
  <2>1. ASSUME NEW c \in kept PROVE c \in intended \ rows
    <3>1. PICK q \in requests : c = ToContext(q)
      BY <1>3, Zenon
    <3>2. PICK d \in intended \ rows : q = Text(d)
      BY <1>2, <3>1, Zenon
    <3> QED
      BY <1>2, <3>1, <3>2, Zenon
  <2> QED
    BY <2>1
<1>7. ASSUME NEW x PROVE x \in again <=> x \in requests /\ ~Stored(fates[x])
  <2>1. ASSUME x \in again PROVE x \in requests /\ ~Stored(fates[x])
    BY <1>2, <1>4, <1>5, <2>1, Zenon
  <2>2. ASSUME x \in requests, ~Stored(fates[x]) PROVE x \in again
    BY <1>2, <1>4, <1>5, <2>2, Zenon
  <2> QED
    BY <2>1, <2>2
<1>8. kept \intersect rows = {}
  BY <1>6, Zenon
<1>9. again = {q \in requests : ~Stored(fates[q])}
  BY <1>7, Zenon
<1> QED
  BY <1>2, <1>3, <1>4, <1>8, <1>9, Zenon

\* Each instant of a range that has no row yet is collected by one of the requests of
\* a run, for every person asked for, and by one only, though persons are named twice;
\* an instant that has one is not collected again
\* (build-unevaluated-fill-coordinate-runner.ts:147).
THEOREM EachInstantIsCollectedOnce ==
    ASSUME NEW period \in RefreshPeriods, NEW range,
           range.start \in Int, range.end \in Int, range.start < range.end,
           NEW P, NEW persons \in Seq(P), NEW k \in DOMAIN persons, NEW rows,
           NEW t \in range.start..(range.end - 1), NEW requests,
           requests = BridgeRequests(ComposePlan(persons, period, range, rows))
    PROVE  Cardinality({i \in DOMAIN requests : /\ requests[i].person = persons[k]
                                                /\ CollectWindow(requests[i]).since <= t
                                                /\ t < CollectWindow(requests[i]).until})
             = IF Coordinate(persons[k], period, RangeOf(period, t).start) \in rows
               THEN 0 ELSE 1
<1>1. PICK intended : /\ intended = ToSet(Intended(persons, period, range))
                      /\ \A c : c \in intended <=>
                            \E j \in DOMAIN persons, u \in range.start..(range.end - 1) :
                               c = Coordinate(persons[j], period, RangeOf(period, u).start)
  BY IntendedAreOfRange
<1>2. PICK fill : /\ fill = FillRequests(ComposePlan(persons, period, range, rows))
                  /\ fill \in Seq(ToSet(fill))
                  /\ \A x : x \in ToSet(fill) <=> \E c \in intended \ rows : x = Text(c)
  BY <1>1, RequestsAreTheGaps
<1>3. /\ ToSet(requests) = ToSet(fill)
      /\ \A i, j \in DOMAIN requests : requests[i] = requests[j] => i = j
  <2>1. BridgeRequests(ComposePlan(persons, period, range, rows)) = FirstSeen(fill)
    BY <1>2, Zenon DEF BridgeRequests
  <2> QED
    BY <1>2, <2>1, FirstSeenIsOnce
<1>4. PICK mine : /\ mine = Coordinate(persons[k], period, RangeOf(period, t).start)
                  /\ mine \in intended
  BY <1>1, Zenon
<1>5. PICK c \in intended :
         /\ c.person = persons[k] /\ IsCollectedBy(t, c)
         /\ \A d \in intended : d.person = persons[k] /\ IsCollectedBy(t, d) => d = c
  <2>1. \E c \in ToSet(Intended(persons, period, range)) :
           /\ c.person = persons[k] /\ IsCollectedBy(t, c)
           /\ \A d \in ToSet(Intended(persons, period, range)) :
                 d.person = persons[k] /\ IsCollectedBy(t, d) => d = c
    BY EachInstantIsOfOneCoordinate
  <2> QED
    BY <1>1, <2>1, Zenon
<1>6. mine.person = persons[k] /\ IsCollectedBy(t, mine)
  <2>1. t \in Int
    BY SMT
  <2>2. PICK r : /\ r = RangeOf(period, t) /\ r.start \in Int /\ r.start <= t /\ t < r.end
                 /\ RangeOf(period, r.start) = r
    BY <2>1, PeriodFits, Zenon
  <2>3. mine = Coordinate(persons[k], period, r.start)
    BY <1>4, <2>2, Zenon
  <2>4. WindowOf(mine).since = r.start /\ WindowOf(mine).until = RangeOf(period, r.start).end
    BY <2>2, <2>3, WindowOfCoordinate
  <2>5. mine.person = persons[k]
    BY <2>3, SMT DEF Coordinate
  <2> QED
    BY <2>2, <2>4, <2>5, Zenon DEF IsCollectedBy
<1>7. mine = c
  BY <1>4, <1>5, <1>6, Zenon
<1> DEFINE Collects(i) == /\ requests[i].person = persons[k]
                          /\ CollectWindow(requests[i]).since <= t
                          /\ t < CollectWindow(requests[i]).until
           collecting == {i \in DOMAIN requests : Collects(i)}
<1>8. ASSUME NEW i \in DOMAIN requests
      PROVE  Collects(i) <=> requests[i] = Text(mine) /\ mine \notin rows
  <2>1. requests[i] \in ToSet(fill)
    BY <1>3, Zenon DEF ToSet
  <2>2. PICK d \in intended \ rows : requests[i] = Text(d)
    BY <1>2, <2>1, Zenon
  <2>3. Text(d).person = d.person
    BY SMT DEF Text
  <2>4. Collects(i) <=> d.person = persons[k] /\ IsCollectedBy(t, d)
    BY <2>2, <2>3, Zenon DEF IsCollectedBy, WindowOf
  <2>5. ASSUME Collects(i) PROVE requests[i] = Text(mine) /\ mine \notin rows
    <3>1. d = mine
      BY <1>5, <1>7, <2>4, <2>5, Zenon
    <3> QED
      BY <2>2, <3>1, Zenon
  <2>6. ASSUME requests[i] = Text(mine) PROVE Collects(i)
    <3>1. Text(mine).person = mine.person
      BY SMT DEF Text
    <3>2. CollectWindow(requests[i]) = WindowOf(mine)
      BY <2>6, Zenon DEF WindowOf
    <3> QED
      BY <1>6, <2>6, <3>1, <3>2, Zenon DEF IsCollectedBy
  <2> QED
    BY <2>5, <2>6
<1> HIDE DEF Collects
<1>9. CASE mine \in rows
  <2>1. collecting = {}
    BY <1>8, <1>9, Zenon
  <2>2. Cardinality(collecting) = 0
    BY <2>1, FS_EmptySet, Zenon
  <2> QED
    BY <1>3, <1>4, <1>9, <2>2, Zenon DEF Collects
<1>10. CASE mine \notin rows
  <2>1. Text(mine) \in ToSet(requests)
    BY <1>2, <1>3, <1>4, <1>10, Zenon
  <2>2. PICK i \in DOMAIN requests : requests[i] = Text(mine)
    BY <2>1, Zenon DEF ToSet
  <2>3. collecting = {i}
    BY <1>3, <1>8, <1>10, <2>2, Zenon
  <2>4. Cardinality(collecting) = 1
    BY <2>3, FS_Singleton, Zenon
  <2> QED
    BY <1>3, <1>4, <1>10, <2>4, Zenon DEF Collects
<1> QED
  BY <1>9, <1>10

\* The coordinates a refresh plans are of its person's periods, or rows.
LEMMA RefreshForms ==
    ASSUME NEW person, NEW stored, NEW window, NEW now \in Int,
           window.start \in Int, window.end \in Int, window.start < window.end,
           \A c \in stored : c.period \in RefreshPeriods /\ c.start \in Int,
           NEW plan, plan = PlanRecentRefresh(person, stored, window, now)
    PROVE  \A c \in plan.coordinates :
              \/ c \in stored
              \/ \E period \in RefreshPeriods, t \in Int :
                    c = Coordinate(person, period, RangeOf(period, t).start)
<1> DEFINE closed == UNION {{Coordinate(person, period, t) :
                                t \in ClosedStarts(period, window, now)} :
                             period \in RefreshPeriods}
           kept == {c \in stored : c.start \in InWindow(window, {c.start})}
           open == {c \in kept : RangeOf(c.period, c.start).end > now}
<1>1. /\ plan.coordinates = closed \union (kept \ open)
      /\ plan.hadRow = kept \ open /\ plan.openRowCount = Cardinality(open)
  <2>1. PICK a, b, c : /\ a = closed \union (kept \ open)
                       /\ b = kept \ open /\ c = Cardinality(open)
    BY Zenon
  <2>2. PlanRecentRefresh(person, stored, window, now) =
           [coordinates |-> a, hadRow |-> b, openRowCount |-> c]
    BY <2>1, Zenon DEF PlanRecentRefresh
  <2>3. /\ PlanRecentRefresh(person, stored, window, now).coordinates = a
        /\ PlanRecentRefresh(person, stored, window, now).hadRow = b
        /\ PlanRecentRefresh(person, stored, window, now).openRowCount = c
    BY <2>2, SMT
  <2> QED
    BY <2>1, <2>3, Zenon
<1>2. ASSUME NEW c \in closed
      PROVE  \E period \in RefreshPeriods, t \in Int :
                c = Coordinate(person, period, RangeOf(period, t).start)
  <2>1. PICK period \in RefreshPeriods :
           \E t \in ClosedStarts(period, window, now) : c = Coordinate(person, period, t)
    BY <1>2, Zenon
  <2>2. PICK t \in ClosedStarts(period, window, now) : c = Coordinate(person, period, t)
    BY <2>1, Zenon
  <2>3. PICK cursor \in {window.start} \union ToSet(PeriodStarts(period, window)) :
           t = RangeOf(period, cursor).start
    BY <2>2, Zenon DEF ClosedStarts
  <2>4. cursor \in Int
    <3>1. CASE cursor = window.start
      BY <3>1, Zenon
    <3>2. CASE cursor \in ToSet(PeriodStarts(period, window))
      <4>1. PICK u \in window.start..(window.end - 1) : cursor = RangeOf(period, u).start
        <5>1. ToSet(PeriodStarts(period, window)) =
                 {RangeOf(period, u).start : u \in window.start..(window.end - 1)}
          BY StartsAreOfRange, Zenon
        <5> QED
          BY <3>2, <5>1, Zenon
      <4>2. u \in Int
        BY SMT
      <4> QED
        BY <4>1, <4>2, PeriodFits, Zenon
    <3> QED
      BY <2>3, <3>1, <3>2, Zenon
  <2> QED
    BY <2>2, <2>3, <2>4, Zenon
<1> HIDE DEF closed, open
<1>3. ASSUME NEW c \in plan.coordinates
      PROVE  \/ c \in stored
             \/ \E period \in RefreshPeriods, t \in Int :
                   c = Coordinate(person, period, RangeOf(period, t).start)
  <2>1. c \in closed \/ c \in kept
    BY <1>1, Zenon
  <2> QED
    BY <1>2, <2>1, Zenon
<1> QED
  BY <1>3, Zenon

\* And it tells the rows of the window apart, those that are over and those that are not.
LEMMA RefreshParts ==
    ASSUME NEW person, NEW stored, NEW window, NEW now \in Int,
           window.start \in Int, window.end \in Int, window.start < window.end,
           \A c \in stored : c.period \in RefreshPeriods /\ c.start \in Int,
           NEW plan, plan = PlanRecentRefresh(person, stored, window, now),
           NEW within,
           \A c : c \in within <=> c \in stored /\ window.start <= c.start /\ c.start < window.end
    PROVE  /\ \A c : c \in plan.hadRow <=> c \in within /\ IsPeriodEvaluable(c.period, c.start, now)
           /\ plan.openRowCount = Cardinality(within \ plan.hadRow)
<1> DEFINE closed == UNION {{Coordinate(person, period, t) :
                                t \in ClosedStarts(period, window, now)} :
                             period \in RefreshPeriods}
           kept == {c \in stored : c.start \in InWindow(window, {c.start})}
           open == {c \in kept : RangeOf(c.period, c.start).end > now}
<1>1. /\ plan.coordinates = closed \union (kept \ open)
      /\ plan.hadRow = kept \ open /\ plan.openRowCount = Cardinality(open)
  <2>1. PICK a, b, c : /\ a = closed \union (kept \ open)
                       /\ b = kept \ open /\ c = Cardinality(open)
    BY Zenon
  <2>2. PlanRecentRefresh(person, stored, window, now) =
           [coordinates |-> a, hadRow |-> b, openRowCount |-> c]
    BY <2>1, Zenon DEF PlanRecentRefresh
  <2>3. /\ PlanRecentRefresh(person, stored, window, now).coordinates = a
        /\ PlanRecentRefresh(person, stored, window, now).hadRow = b
        /\ PlanRecentRefresh(person, stored, window, now).openRowCount = c
    BY <2>2, SMT
  <2> QED
    BY <2>1, <2>3, Zenon
<1>2. within = kept
  BY Zenon DEF InWindow
<1>3. ASSUME NEW c \in within
      PROVE  c \in open <=> ~IsPeriodEvaluable(c.period, c.start, now)
  <2>1. RangeOf(c.period, c.start).end \in Int
    BY <1>2, PeriodFits, Zenon
  <2> QED
    BY <1>2, <2>1, SMT DEF IsPeriodEvaluable
<1>4. open \subseteq within
  BY <1>2, Zenon
<1> HIDE DEF closed, open
<1>5. plan.hadRow = {c \in within : IsPeriodEvaluable(c.period, c.start, now)}
  BY <1>1, <1>2, <1>3, Zenon
<1>6. open = within \ plan.hadRow
  BY <1>3, <1>4, <1>5, Zenon
<1> QED
  BY <1>1, <1>2, <1>5, <1>6, Zenon

\* The rows of the window are those that the refresh evaluates again and those it
\* counts as running, and of the rows it evaluates only the first
\* (recent-deletion-coordinates.ts:83).
THEOREM RefreshSplitsRows ==
    ASSUME NEW person, NEW stored, NEW window, NEW now \in Int, IsFiniteSet(stored),
           window.start \in Int, window.end \in Int, window.start < window.end,
           \A c \in stored : c.period \in RefreshPeriods /\ c.start \in Int,
           NEW plan, plan = PlanRecentRefresh(person, stored, window, now),
           NEW within,
           \A c : c \in within <=> c \in stored /\ window.start <= c.start /\ c.start < window.end
    PROVE  /\ Cardinality(within) = Cardinality(plan.hadRow) + plan.openRowCount
           /\ within \intersect plan.coordinates = plan.hadRow
<1>1. PICK over, open : over = plan.hadRow /\ open = within \ plan.hadRow
  BY Zenon
<1>2. /\ \A c : c \in over <=> c \in within /\ IsPeriodEvaluable(c.period, c.start, now)
      /\ plan.openRowCount = Cardinality(open)
  <2>1. /\ \A c : c \in plan.hadRow <=> c \in within /\ IsPeriodEvaluable(c.period, c.start, now)
        /\ plan.openRowCount = Cardinality(within \ plan.hadRow)
    BY RefreshParts
  <2> QED
    BY <1>1, <2>1, Zenon
<1>3. over \union open = within /\ over \intersect open = {} /\ within \subseteq stored
  BY <1>1, <1>2, Zenon
<1>4. IsFiniteSet(over) /\ IsFiniteSet(open)
  BY <1>1, <1>3, FS_Subset, Zenon
<1>5. Cardinality(over) \in Nat /\ Cardinality(open) \in Nat
  BY <1>4, FS_CardinalityType, Zenon
<1>6. Cardinality(within) = Cardinality(over) + Cardinality(open)
  <2>1. Cardinality(over \union open) =
           Cardinality(over) + Cardinality(open) - Cardinality(over \intersect open)
    BY <1>4, FS_Union, Zenon
  <2>2. Cardinality(over \intersect open) = 0
    BY <1>3, FS_EmptySet, Zenon
  <2>3. PICK a \in Nat, b \in Nat : a = Cardinality(over) /\ b = Cardinality(open)
    BY <1>5, Zenon
  <2>4. Cardinality(within) = a + b - 0
    BY <1>3, <2>1, <2>2, <2>3, Zenon
  <2>5. a + b - 0 = a + b
    BY SMT
  <2> QED
    BY <2>3, <2>4, <2>5, Zenon
<1>7. /\ \A c \in plan.coordinates : IsPeriodEvaluable(c.period, c.start, now)
      /\ \A c \in stored : /\ window.start <= c.start /\ c.start < window.end
                           /\ IsPeriodEvaluable(c.period, c.start, now)
                           => c \in plan.coordinates
  BY RefreshIsOfClosed
<1>8. within \intersect plan.coordinates = over
  BY <1>2, <1>7, Zenon
<1> QED
  BY <1>1, <1>2, <1>6, <1>8, Zenon

------------------------------------------------------------------------------
(* Units: what is evaluated of activities, and what is stored of it. *)

\* The entries at some places do not depend on what else a sequence holds.
LEMMA EntriesOfPrefix ==
    ASSUME NEW T, NEW s \in Seq(T), NEW t \in Seq(T), Len(s) <= Len(t),
           NEW places \in SUBSET DOMAIN s, \A i \in places : s[i] = t[i]
    PROVE  EntriesAt(t, places) = EntriesAt(s, places)
<1>1. PICK l \in Nat, m \in Nat : l = Len(s) /\ m = Len(t) /\ l <= m
                                  /\ DOMAIN s = 1..l
  BY SMT
<1>2. PICK a : a = (CHOOSE k : IsKept(s, places, l, k)) /\ IsKept(s, places, l, a)
  BY KeptExists, Zenon
<1>3. PICK b : b = (CHOOSE k : IsKept(t, places, m, k)) /\ IsKept(t, places, m, b)
  BY KeptExists, Zenon
<1>4. EntriesAt(s, places) = a[l] /\ EntriesAt(t, places) = b[m]
  BY <1>1, <1>2, <1>3, Zenon DEF EntriesAt, IsKept
<1>5. \A n \in 0..l : a[n] = IF n = 0 THEN <<>>
                             ELSE IF n \in places THEN Append(a[n - 1], s[n]) ELSE a[n - 1]
  BY <1>2, Zenon DEF IsKept
<1>6. \A n \in 0..m : b[n] = IF n = 0 THEN <<>>
                             ELSE IF n \in places THEN Append(b[n - 1], t[n]) ELSE b[n - 1]
  BY <1>3, Zenon DEF IsKept
<1> DEFINE Short(n) == IF n <= l THEN n ELSE l
           S == {n \in 0..m : b[n] # a[Short(n)]}
<1>7. ASSUME S # {} PROVE FALSE
  <2>1. PICK n \in S : \A k \in S : n <= k
    <3>1. S \in SUBSET Nat
      BY SMT
    <3> HIDE DEF S
    <3> QED
      BY <1>7, <3>1, LeastOfSet, Zenon
  <2>2. n # 0
    <3>1. 0 \in 0..m /\ 0 \in 0..l /\ Short(0) = 0
      BY <1>1, SMT
    <3>2. b[0] = <<>> /\ a[0] = <<>>
      BY <1>5, <1>6, <3>1, Zenon
    <3> QED
      BY <2>1, <3>1, <3>2, Zenon
  <2>3. n \in 0..m /\ n - 1 \in 0..m /\ ~(n <= n - 1)
    BY <1>1, <2>1, <2>2, SMT
  <2>4. b[n - 1] = a[Short(n - 1)]
    BY <2>1, <2>3, Zenon
  <2>5. b[n] = IF n \in places THEN Append(b[n - 1], t[n]) ELSE b[n - 1]
    BY <1>6, <2>2, <2>3, Zenon
  <2>6. CASE n <= l
    <3>1. n \in 0..l /\ Short(n) = n /\ Short(n - 1) = n - 1
      BY <1>1, <2>3, <2>6, SMT
    <3>2. a[n] = IF n \in places THEN Append(a[n - 1], s[n]) ELSE a[n - 1]
      BY <1>5, <2>2, <3>1, Zenon
    <3>3. b[n] = a[Short(n)]
      BY <2>4, <2>5, <3>1, <3>2, Zenon
    <3> QED
      BY <2>1, <3>3, Zenon
  <2>7. CASE ~(n <= l)
    <3>1. n \notin places /\ Short(n) = l /\ Short(n - 1) = l
      BY <1>1, <2>3, <2>7, SMT
    <3>2. b[n] = a[Short(n)]
      BY <2>4, <2>5, <3>1, Zenon
    <3> QED
      BY <2>1, <3>2, Zenon
  <2> QED
    BY <2>6, <2>7
<1>8. m \in 0..m /\ Short(m) = l
  BY <1>1, SMT
<1> QED
  BY <1>4, <1>7, <1>8, Zenon

\* All entries are the sequence.
LEMMA EntriesAtAll ==
    ASSUME NEW T, NEW seq \in Seq(T)
    PROVE  EntriesAt(seq, DOMAIN seq) = seq
<1>1. PICK l \in Nat : l = Len(seq) /\ DOMAIN seq = 1..l
  BY SMT
<1>2. PICK kept : /\ kept = (CHOOSE k : IsKept(seq, DOMAIN seq, l, k))
                  /\ IsKept(seq, DOMAIN seq, l, kept)
  BY KeptExists, Zenon
<1>3. EntriesAt(seq, DOMAIN seq) = kept[l]
  BY <1>1, <1>2, Zenon DEF EntriesAt, IsKept
<1>4. \A n \in 0..l : kept[n] = IF n = 0 THEN <<>>
                                ELSE IF n \in DOMAIN seq THEN Append(kept[n - 1], seq[n])
                                ELSE kept[n - 1]
  BY <1>2, Zenon DEF IsKept
<1> DEFINE Fits(n) == kept[n] \in Seq(T) /\ Len(kept[n]) = n
                      /\ \A k \in 1..n : kept[n][k] = seq[k]
           S == {n \in 0..l : ~Fits(n)}
<1>5. ASSUME S # {} PROVE FALSE
  <2>1. PICK n \in S : \A k \in S : n <= k
    <3>1. S \in SUBSET Nat
      BY SMT
    <3> HIDE DEF S
    <3> QED
      BY <1>5, <3>1, LeastOfSet, Zenon
  <2>2. n # 0
    <3>1. kept[0] = <<>>
      BY <1>1, <1>4, SMT
    <3>2. Fits(0)
      BY <3>1, SMT
    <3> QED
      BY <2>1, <3>2, Zenon
  <2>3. PICK k \in 0..l : k = n - 1 /\ k \notin S /\ n \in 1..l
    <3>1. n - 1 \in 0..l /\ ~(n <= n - 1) /\ n \in 1..l
      BY <2>1, <2>2, SMT
    <3> QED
      BY <2>1, <3>1, Zenon
  <2>4. kept[n] = Append(kept[k], seq[n])
    BY <1>1, <1>4, <2>1, <2>2, <2>3, Zenon
  <2>5. Fits(k)
    BY <2>3, Zenon
  <2>6. seq[n] \in T
    BY <1>1, <2>3, SMT
  <2>7. PICK before : before = kept[k] /\ before \in Seq(T) /\ Len(before) = k
                      /\ \A j \in 1..k : before[j] = seq[j]
    BY <2>5, Zenon
  <2>8. /\ Append(before, seq[n]) \in Seq(T) /\ Len(Append(before, seq[n])) = n
        /\ \A j \in 1..n : Append(before, seq[n])[j] = seq[j]
    BY <2>3, <2>6, <2>7, SMT
  <2>9. Fits(n)
    BY <2>4, <2>7, <2>8, Zenon
  <2> QED
    BY <2>1, <2>9, Zenon
<1>6. Fits(l)
  <2>1. l \in 0..l
    BY <1>1, SMT
  <2> QED
    BY <1>5, <2>1, Zenon
<1>7. PICK all : all = kept[l] /\ all \in Seq(T) /\ Len(all) = l /\ \A k \in 1..l : all[k] = seq[k]
  BY <1>6, Zenon
<1>8. all = seq
  BY <1>1, <1>7, SMT
<1> QED
  BY <1>3, <1>7, <1>8, Zenon

\* The least of some numbers is what is less than all others.
LEMMA MinIs ==
    ASSUME NEW S \in SUBSET Int, NEW m \in S, \A n \in S : m <= n
    PROVE  Min(S) = m
<1>1. PICK k \in S : k = Min(S) /\ \A n \in S : k <= n
  <2>1. \E k \in S : \A n \in S : k <= n
    BY Zenon
  <2> QED
    BY <2>1, Zenon DEF Min
<1> QED
  BY <1>1, SMT

\* The one of those with a key that is kept: g tells from which place each is.
IsDeduped(units, inputs, keys, g) ==
    /\ g \in [DOMAIN units -> DOMAIN inputs]
    /\ \A n \in DOMAIN units : units[n] = inputs[g[n]]
    /\ \A n \in DOMAIN units, j \in DOMAIN inputs :
          keys[j] = keys[g[n]] => inputs[g[n]].at <= inputs[j].at
    /\ \A i \in DOMAIN inputs : \E n \in DOMAIN units : keys[g[n]] = keys[i]
    /\ \A m, n \in DOMAIN units : keys[g[m]] = keys[g[n]] => m = n

SameKey(keys, inputs, i) == {j \in DOMAIN inputs : keys[j] = keys[i]}
EarliestOf(keys, inputs, i) ==
    {j \in SameKey(keys, inputs, i) :
        \A k \in SameKey(keys, inputs, i) : inputs[k].at >= inputs[j].at}
FirstsOf(keys, inputs) == {i \in DOMAIN inputs : \A j \in SameKey(keys, inputs, i) : i <= j}
Winners(keys, inputs) == [i \in DOMAIN inputs |-> inputs[Min(EarliestOf(keys, inputs, i))]]

\* A least number of a sequence's place exists.
LEMMA LeastPlace ==
    ASSUME NEW T, NEW seq \in Seq(T), NEW S \in SUBSET DOMAIN seq, S # {}
    PROVE  \E m \in S : \A n \in S : m <= n
<1>1. S \in SUBSET Nat
  BY SMT
<1> QED
  BY <1>1, LeastOfSet, Zenon

\* There is an earliest with each key.
LEMMA EarliestExists ==
    ASSUME NEW T, NEW inputs \in Seq(T), \A i \in DOMAIN inputs : inputs[i].at \in Nat,
           NEW keys, NEW i \in DOMAIN inputs
    PROVE  \E j \in EarliestOf(keys, inputs, i) :
              /\ Min(EarliestOf(keys, inputs, i)) = j
              /\ \A k \in EarliestOf(keys, inputs, i) : j <= k
<1> DEFINE same == SameKey(keys, inputs, i)
           times == {inputs[j].at : j \in same}
<1>1. i \in same /\ same \in SUBSET DOMAIN inputs
  BY Zenon DEF SameKey
<1> HIDE DEF same
<1>2. PICK j \in same : \A k \in same : inputs[j].at <= inputs[k].at
  <2>1. times \in SUBSET Nat /\ times # {}
    BY <1>1, Zenon
  <2>2. PICK m \in times : \A n \in times : m <= n
    BY <2>1, LeastOfSet, Zenon
  <2> QED
    BY <2>2, Zenon
<1>3. j \in EarliestOf(keys, inputs, i)
  <2>1. \A k \in same : inputs[k].at >= inputs[j].at
    BY <1>1, <1>2, SMT
  <2> QED
    BY <1>2, <2>1, Zenon DEF EarliestOf, same
<1>4. EarliestOf(keys, inputs, i) \in SUBSET DOMAIN inputs
  BY <1>1, Zenon DEF EarliestOf, same
<1>5. PICK m \in EarliestOf(keys, inputs, i) : \A n \in EarliestOf(keys, inputs, i) : m <= n
  BY <1>3, <1>4, LeastPlace, Zenon
<1>6. EarliestOf(keys, inputs, i) \in SUBSET Int
  <2>1. DOMAIN inputs \in SUBSET Int
    BY SMT
  <2> QED
    BY <1>4, <2>1, Zenon
<1> QED
  BY <1>5, <1>6, MinIs, Zenon

\* What is left of each key, in terms of these.
LEMMA DedupIsOfWinners ==
    ASSUME NEW inputs, NEW keys
    PROVE  DedupByEarliest(inputs, keys) = EntriesAt(Winners(keys, inputs), FirstsOf(keys, inputs))
BY Zenon DEF DedupByEarliest, Winners, FirstsOf, EarliestOf, SameKey

\* The earliest are as many.
LEMMA WinnersFit ==
    ASSUME NEW T, NEW inputs \in Seq(T), \A i \in DOMAIN inputs : inputs[i].at \in Nat, NEW keys
    PROVE  /\ Winners(keys, inputs) \in Seq(T) /\ DOMAIN Winners(keys, inputs) = DOMAIN inputs
           /\ Len(Winners(keys, inputs)) = Len(inputs)
<1> DEFINE w == Winners(keys, inputs)
<1>1. PICK l \in Nat : l = Len(inputs) /\ DOMAIN inputs = 1..l
  BY SMT
<1>2. ASSUME NEW i \in DOMAIN inputs PROVE w[i] \in T
  <2>1. PICK j \in EarliestOf(keys, inputs, i) : Min(EarliestOf(keys, inputs, i)) = j
    BY EarliestExists, Zenon
  <2>2. j \in DOMAIN inputs /\ w[i] = inputs[j]
    BY <2>1, Zenon DEF Winners, EarliestOf, SameKey
  <2> QED
    BY <2>2, SMT
<1>3. w = [i \in 1..l |-> w[i]] /\ DOMAIN w = DOMAIN inputs
  BY <1>1, Zenon DEF Winners
<1> HIDE DEF w
<1>4. w \in Seq(T) /\ Len(w) = l
  BY <1>1, <1>2, <1>3, SMT
<1> QED
  BY <1>1, <1>3, <1>4, Zenon DEF w

\* So what is left is the earliest of each key, once.
LEMMA DedupedAre ==
    ASSUME NEW T, NEW inputs \in Seq(T), \A i \in DOMAIN inputs : inputs[i].at \in Nat, NEW keys,
           NEW units, units = DedupByEarliest(inputs, keys)
    PROVE  units \in Seq(T) /\ \E g : IsDeduped(units, inputs, keys, g)
<1> DEFINE w == Winners(keys, inputs)
           places == FirstsOf(keys, inputs)
           e(i) == Min(EarliestOf(keys, inputs, i))
<1>1. w \in Seq(T) /\ DOMAIN w = DOMAIN inputs /\ places \in SUBSET DOMAIN inputs
  BY WinnersFit, Zenon DEF FirstsOf
<1>2. \A i \in DOMAIN inputs : w[i] = inputs[e(i)]
  BY Zenon DEF Winners
<1>3. ASSUME NEW i \in DOMAIN inputs
      PROVE  /\ e(i) \in DOMAIN inputs /\ keys[e(i)] = keys[i]
             /\ \A j \in DOMAIN inputs : keys[j] = keys[i] => inputs[e(i)].at <= inputs[j].at
  <2>1. PICK m \in EarliestOf(keys, inputs, i) : e(i) = m
    BY EarliestExists, Zenon
  <2>2. m \in DOMAIN inputs /\ keys[m] = keys[i]
    BY <2>1, Zenon DEF EarliestOf, SameKey
  <2>3. \A j \in DOMAIN inputs : keys[j] = keys[i] => inputs[j].at >= inputs[m].at
    BY <2>1, Zenon DEF EarliestOf, SameKey
  <2>4. \A j \in DOMAIN inputs : keys[j] = keys[i] => inputs[m].at <= inputs[j].at
    BY <2>2, <2>3, SMT
  <2> QED
    BY <2>1, <2>2, <2>4, Zenon
<1>4. ASSUME NEW i \in DOMAIN inputs PROVE \E p \in places : keys[p] = keys[i]
  <2>1. i \in SameKey(keys, inputs, i) /\ SameKey(keys, inputs, i) \in SUBSET DOMAIN inputs
    BY Zenon DEF SameKey
  <2>2. PICK p \in SameKey(keys, inputs, i) : \A n \in SameKey(keys, inputs, i) : p <= n
    BY <2>1, LeastPlace, Zenon
  <2>3. /\ p \in DOMAIN inputs /\ keys[p] = keys[i]
        /\ SameKey(keys, inputs, p) = SameKey(keys, inputs, i)
    BY <2>2, Zenon DEF SameKey
  <2> QED
    BY <2>2, <2>3, Zenon DEF FirstsOf
<1>5. ASSUME NEW p \in places, NEW q \in places, keys[p] = keys[q] PROVE p = q
  <2>1. p <= q /\ q <= p /\ p \in DOMAIN inputs /\ q \in DOMAIN inputs
    BY <1>5, Zenon DEF FirstsOf, SameKey
  <2> QED
    BY <2>1, SMT
<1> HIDE DEF e, places, w
<1>6. units = EntriesAt(w, places)
  BY DedupIsOfWinners, Zenon DEF w, places
<1>7. PICK f : units \in Seq(T) /\ Takes(units, w, places, f)
  BY <1>1, <1>6, EntriesAreTaken, Zenon
<1>8. DOMAIN units = 1..Len(units) /\ Len(units) \in Nat
  BY <1>7, SMT
<1> DEFINE g == [n \in DOMAIN units |-> e(f[n])]
<1>9. ASSUME NEW n \in DOMAIN units
      PROVE  /\ f[n] \in places /\ f[n] \in DOMAIN inputs /\ g[n] = e(f[n])
             /\ units[n] = inputs[g[n]] /\ g[n] \in DOMAIN inputs /\ keys[g[n]] = keys[f[n]]
             /\ \A j \in DOMAIN inputs : keys[j] = keys[g[n]] => inputs[g[n]].at <= inputs[j].at
  <2>1. f[n] \in places /\ f[n] \in DOMAIN inputs /\ units[n] = w[f[n]] /\ g[n] = e(f[n])
    BY <1>1, <1>7, <1>8, Zenon DEF Takes
  <2> HIDE DEF g
  <2>2. PICK i \in DOMAIN inputs : i = f[n]
    BY <2>1, Zenon
  <2>3. PICK k : k = e(i) /\ k = g[n]
    BY <2>1, <2>2, Zenon
  <2>4. w[i] = inputs[k]
    BY <1>2, <2>2, <2>3, Zenon
  <2>5. /\ k \in DOMAIN inputs /\ keys[k] = keys[i]
        /\ \A j \in DOMAIN inputs : keys[j] = keys[i] => inputs[k].at <= inputs[j].at
    BY <1>3, <2>2, <2>3, Zenon
  <2> QED
    BY <2>1, <2>2, <2>3, <2>4, <2>5, Zenon
<1>10. g \in [DOMAIN units -> DOMAIN inputs]
  BY <1>9, Zenon
<1> HIDE DEF g
<1>11. ASSUME NEW i \in DOMAIN inputs PROVE \E n \in DOMAIN units : keys[g[n]] = keys[i]
  <2>1. PICK p \in places : keys[p] = keys[i]
    BY <1>4, Zenon
  <2>2. PICK n \in DOMAIN units : f[n] = p
    BY <1>7, <1>8, <2>1, Zenon DEF Takes
  <2> QED
    BY <1>9, <2>1, <2>2, Zenon
<1>12. ASSUME NEW m \in DOMAIN units, NEW n \in DOMAIN units, keys[g[m]] = keys[g[n]]
       PROVE  m = n
  <2>1. f[m] = f[n]
    <3>1. /\ f[m] \in places /\ f[n] \in places
          /\ keys[g[m]] = keys[f[m]] /\ keys[g[n]] = keys[f[n]]
      BY <1>9, Zenon
    <3>2. keys[f[m]] = keys[f[n]]
      BY <1>12, <3>1, Zenon
    <3> QED
      BY <1>5, <3>1, <3>2, Zenon
  <2>2. f[m] \in Int /\ f[n] \in Int
    BY <1>9, SMT
  <2>3. (m < n => f[m] < f[n]) /\ (n < m => f[n] < f[m])
    BY <1>7, <1>8, Zenon DEF Takes
  <2> QED
    BY <1>8, <2>1, <2>2, <2>3, SMT
<1>13. IsDeduped(units, inputs, keys, g)
  BY <1>9, <1>10, <1>11, <1>12, Zenon DEF IsDeduped
<1> QED
  BY <1>7, <1>13, Zenon

\* Where all keys differ, all is left.
LEMMA NothingDeduped ==
    ASSUME NEW T, NEW inputs \in Seq(T), \A i \in DOMAIN inputs : inputs[i].at \in Nat, NEW keys,
           \A i, j \in DOMAIN inputs : keys[i] = keys[j] => i = j
    PROVE  DedupByEarliest(inputs, keys) = inputs
<1>1. ASSUME NEW i \in DOMAIN inputs
      PROVE  SameKey(keys, inputs, i) = {i} /\ i <= i
  <2>1. i <= i
    BY SMT
  <2> QED
    BY <2>1, Zenon DEF SameKey
<1>2. FirstsOf(keys, inputs) = DOMAIN inputs
  BY <1>1, Zenon DEF FirstsOf
<1>3. ASSUME NEW i \in DOMAIN inputs PROVE Winners(keys, inputs)[i] = inputs[i]
  <2>1. PICK j \in EarliestOf(keys, inputs, i) :
            /\ Min(EarliestOf(keys, inputs, i)) = j
            /\ \A k \in EarliestOf(keys, inputs, i) : j <= k
    BY EarliestExists, Zenon
  <2>2. j = i
    BY <1>1, <2>1, Zenon DEF EarliestOf
  <2> QED
    BY <2>1, <2>2, Zenon DEF Winners
<1>4. PICK w : w = Winners(keys, inputs) /\ w \in Seq(T) /\ Len(w) = Len(inputs)
               /\ DOMAIN w = DOMAIN inputs
  BY WinnersFit, Zenon
<1>5. w = inputs
  BY <1>3, <1>4, SMT
<1> QED
  BY <1>2, <1>4, <1>5, DedupIsOfWinners, EntriesAtAll, Zenon

\* Each unit is the earliest of its activities, and each activity is of one: g tells
\* which activity a unit is.
IsUnits(units, acts, g) ==
    /\ g \in [DOMAIN units -> DOMAIN acts]
    /\ \A n \in DOMAIN units : units[n] = Input(acts[g[n]])
    /\ \A n \in DOMAIN units, j \in DOMAIN acts :
          Unit(acts[j]) = Unit(acts[g[n]]) => acts[g[n]].at <= acts[j].at
    /\ \A i \in DOMAIN acts : \E n \in DOMAIN units : Unit(acts[g[n]]) = Unit(acts[i])
    /\ \A m, n \in DOMAIN units : Unit(acts[g[m]]) = Unit(acts[g[n]]) => m = n

\* What an input keeps of its activity.
LEMMA InputFields ==
    ASSUME NEW a
    PROVE  /\ Input(a).unit = Unit(a) /\ Input(a).author = a.author /\ Input(a).at = a.at
           /\ Input(a).titleLength = a.titleLength /\ Input(a).updates = 0
BY SMT DEF Input

\* The inputs are those of the activities, in their order.
LEMMA InputsAre ==
    ASSUME NEW T, NEW acts \in Seq(T), \A a \in T : a.at \in Nat
    PROVE  LET inputs == Every(acts, Input)
           IN  /\ inputs \in Seq({Input(a) : a \in T}) /\ DOMAIN inputs = DOMAIN acts
               /\ Len(inputs) = Len(acts)
               /\ \A i \in DOMAIN acts : /\ acts[i] \in T /\ inputs[i] = Input(acts[i])
                                         /\ inputs[i].at = acts[i].at /\ inputs[i].at \in Nat
                                         /\ inputs[i].unit = Unit(acts[i])
<1> DEFINE inputs == Every(acts, Input)
           I == {Input(a) : a \in T}
<1>1. PICK l \in Nat : l = Len(acts) /\ DOMAIN acts = 1..l
  BY SMT
<1>2. inputs = [i \in DOMAIN acts |-> Input(acts[i])]
  BY Zenon DEF Every
<1>3. DOMAIN inputs = DOMAIN acts /\ \A i \in DOMAIN acts : inputs[i] = Input(acts[i])
  BY <1>2, Zenon
<1>4. \A i \in DOMAIN acts : acts[i] \in T
  BY <1>1, SMT
<1>5. inputs = [i \in 1..l |-> inputs[i]] /\ \A i \in 1..l : inputs[i] \in I
  <2>1. inputs = [i \in 1..l |-> inputs[i]]
    BY <1>1, <1>2, Zenon
  <2>2. \A i \in 1..l : inputs[i] \in I
    BY <1>1, <1>3, <1>4, Zenon
  <2> QED
    BY <2>1, <2>2, Zenon
<1> HIDE DEF inputs, I
<1>6. inputs \in Seq(I) /\ Len(inputs) = l
  BY <1>1, <1>5, SMT
<1>7. \A i \in DOMAIN acts : inputs[i].at = acts[i].at /\ inputs[i].unit = Unit(acts[i])
  BY <1>3, InputFields, Zenon
<1> QED
  BY <1>1, <1>3, <1>4, <1>6, <1>7, Zenon DEF inputs, I

\* Tuples of one and of two are never the same.
LEMMA TuplesDiffer ==
    ASSUME NEW x, NEW y, NEW z
    PROVE  <<x>> # <<y, z>> /\ <<y, z>> # <<x>>
<1>1. Len(<<x>>) = 1 /\ Len(<<y, z>>) = 2
  BY SMT
<1> QED
  BY <1>1, SMT

\* What is evaluated of activities.
LEMMA UnitsAre ==
    ASSUME NEW T, NEW acts \in Seq(T), \A a \in T : a.at \in Nat,
           NEW units, units = DedupTemporal(Every(acts, Input))
    PROVE  /\ ExcludeSelfFollowUps(units) = units
           /\ units \in Seq({Input(a) : a \in T})
           /\ \E g : IsUnits(units, acts, g)
<1> DEFINE I == {Input(a) : a \in T}
<1>1. PICK inputs \in Seq(I) :
          /\ inputs = Every(acts, Input) /\ DOMAIN inputs = DOMAIN acts
          /\ \A i \in DOMAIN acts : /\ acts[i] \in T /\ inputs[i] = Input(acts[i])
                                    /\ inputs[i].at = acts[i].at /\ inputs[i].at \in Nat
                                    /\ inputs[i].unit = Unit(acts[i])
  BY InputsAre, Zenon
<1> HIDE DEF I
<1> DEFINE keys == Every(inputs, LAMBDA x : x.unit)
<1>2. \A i \in DOMAIN inputs : keys[i] = inputs[i].unit
  BY Zenon DEF Every
<1>3. units = DedupByEarliest(inputs, keys)
  BY <1>1, Zenon DEF DedupTemporal
<1> HIDE DEF keys
<1>4. units \in Seq(I) /\ \E g : IsDeduped(units, inputs, keys, g)
  BY <1>1, <1>3, DedupedAre, Zenon
<1>5. PICK g : IsDeduped(units, inputs, keys, g)
  BY <1>4, Zenon
<1>6. \A i \in DOMAIN inputs : keys[i] = Unit(acts[i])
  BY <1>1, <1>2, Zenon
<1>7. \A n \in DOMAIN units : g[n] \in DOMAIN acts /\ g[n] \in DOMAIN inputs
  BY <1>1, <1>5, Zenon DEF IsDeduped
<1>8. IsUnits(units, acts, g)
  <2>1. g \in [DOMAIN units -> DOMAIN acts] /\ \A n \in DOMAIN units : units[n] = Input(acts[g[n]])
    <3>1. g \in [DOMAIN units -> DOMAIN acts]
      BY <1>1, <1>5, Zenon DEF IsDeduped
    <3>2. ASSUME NEW n \in DOMAIN units PROVE units[n] = Input(acts[g[n]])
      <4>1. units[n] = inputs[g[n]]
        BY <1>5, Zenon DEF IsDeduped
      <4>2. inputs[g[n]] = Input(acts[g[n]])
        BY <1>1, <1>7, Zenon
      <4> QED
        BY <4>1, <4>2, Zenon
    <3> QED
      BY <3>1, <3>2, Zenon
  <2>2. ASSUME NEW n \in DOMAIN units, NEW j \in DOMAIN acts, Unit(acts[j]) = Unit(acts[g[n]])
        PROVE  acts[g[n]].at <= acts[j].at
    <3>1. keys[j] = keys[g[n]]
      BY <1>1, <1>6, <1>7, <2>2, Zenon
    <3>2. inputs[g[n]].at <= inputs[j].at
      BY <1>1, <1>5, <3>1, Zenon DEF IsDeduped
    <3> QED
      BY <1>1, <1>7, <3>2, Zenon
  <2>3. ASSUME NEW i \in DOMAIN acts PROVE \E n \in DOMAIN units : Unit(acts[g[n]]) = Unit(acts[i])
    <3>1. PICK n \in DOMAIN units : keys[g[n]] = keys[i]
      BY <1>1, <1>5, Zenon DEF IsDeduped
    <3>2. i \in DOMAIN inputs /\ g[n] \in DOMAIN inputs
      BY <1>1, <1>7, Zenon
    <3>3. keys[i] = Unit(acts[i]) /\ keys[g[n]] = Unit(acts[g[n]])
      BY <1>6, <3>2, Zenon
    <3>4. Unit(acts[g[n]]) = Unit(acts[i])
      BY <3>1, <3>3, Zenon
    <3> QED
      BY <3>4, Zenon
  <2>4. ASSUME NEW m \in DOMAIN units, NEW n \in DOMAIN units,
               Unit(acts[g[m]]) = Unit(acts[g[n]])
        PROVE  m = n
    <3>1. keys[g[m]] = keys[g[n]]
      BY <1>6, <1>7, <2>4, Zenon
    <3> QED
      BY <1>5, <3>1, Zenon DEF IsDeduped
  <2> QED
    BY <2>1, <2>2, <2>3, <2>4, Zenon DEF IsUnits
<1>9. ExcludeSelfFollowUps(units) = units
  <2> DEFINE ids == [i \in DOMAIN units |->
                        IF units[i].kind = "document" THEN <<units[i].unit, units[i].author>>
                        ELSE <<i>>]
  <2>1. ExcludeSelfFollowUps(units) = DedupByEarliest(units, ids)
    BY Zenon DEF ExcludeSelfFollowUps
  <2>2. \A i \in DOMAIN units : ids[i] =
            IF units[i].kind = "document" THEN <<units[i].unit, units[i].author>> ELSE <<i>>
    BY Zenon
  <2> HIDE DEF ids
  <2>3. ASSUME NEW i \in DOMAIN units PROVE units[i].at \in Nat
    BY <1>1, <1>5, <1>7, Zenon DEF IsDeduped
  <2>4. ASSUME NEW i \in DOMAIN units, NEW j \in DOMAIN units, ids[i] = ids[j] PROVE i = j
    <3>1. CASE units[i].kind # "document" \/ units[j].kind # "document"
      <4>1. /\ ids[i] = <<i>> \/ ids[i] = <<units[i].unit, units[i].author>>
            /\ ids[j] = <<j>> \/ ids[j] = <<units[j].unit, units[j].author>>
            /\ ids[i] = <<i>> \/ ids[j] = <<j>>
        BY <2>2, <3>1, Zenon
      <4>2. <<i>> # <<units[j].unit, units[j].author>> /\ <<units[i].unit, units[i].author>> # <<j>>
        BY TuplesDiffer
      <4>3. <<i>> = <<j>>
        BY <2>4, <4>1, <4>2, Zenon
      <4> QED
        BY <4>3, SMT
    <3>2. CASE units[i].kind = "document" /\ units[j].kind = "document"
      <4>1. <<units[i].unit, units[i].author>> = <<units[j].unit, units[j].author>>
        BY <2>2, <2>4, <3>2, Zenon
      <4>2. units[i].unit = units[j].unit
        BY <4>1, SMT
      <4>3. units[i].unit = Unit(acts[g[i]]) /\ units[j].unit = Unit(acts[g[j]])
        BY <1>7, <1>8, InputFields, Zenon DEF IsUnits
      <4>4. Unit(acts[g[i]]) = Unit(acts[g[j]])
        BY <4>2, <4>3, Zenon
      <4> QED
        BY <1>8, <4>4, Zenon DEF IsUnits
    <3> QED
      BY <3>1, <3>2, Zenon
  <2>5. DedupByEarliest(units, ids) = units
    <3>1. \A i, j \in DOMAIN units : ids[i] = ids[j] => i = j
      BY <2>4, Zenon
    <3> QED
      BY <1>4, <2>3, <3>1, NothingDeduped, Zenon
  <2> QED
    BY <2>1, <2>5, Zenon
<1> QED
  BY <1>4, <1>8, <1>9, Zenon DEF I

\* The units that are evaluated.
Evaluable(acts) == ExcludeSelfFollowUps(DedupTemporal(Every(acts, Input)))

\* Activities that are there already change no unit.
LEMMA CopiesAreNoUnits ==
    ASSUME NEW T, NEW s \in Seq(T), NEW t \in Seq(T), \A a \in T : a.at \in Nat,
           \A j \in DOMAIN t : \E i \in DOMAIN s : t[j] = s[i]
    PROVE  DedupTemporal(Every(s \o t, Input)) = DedupTemporal(Every(s, Input))
<1> DEFINE I == {Input(a) : a \in T}
           all == s \o t
<1>1. PICK l \in Nat, m \in Nat :
          /\ l = Len(s) /\ m = Len(t) /\ DOMAIN s = 1..l /\ DOMAIN t = 1..m
          /\ all \in Seq(T) /\ Len(all) = l + m /\ DOMAIN all = 1..(l + m)
          /\ \A i \in 1..l : all[i] = s[i]
          /\ \A i \in (l + 1)..(l + m) : all[i] = t[i - l] /\ i - l \in 1..m
  BY SMT
<1> HIDE DEF all
<1> DEFINE a == Every(s, Input)
           b == Every(all, Input)
<1>2. /\ a \in Seq(I) /\ DOMAIN a = DOMAIN s /\ Len(a) = Len(s)
      /\ \A i \in DOMAIN s : a[i] = Input(s[i]) /\ a[i].at \in Nat
  BY InputsAre, Zenon
<1>3. /\ b \in Seq(I) /\ DOMAIN b = DOMAIN all /\ Len(b) = Len(all)
      /\ \A i \in DOMAIN all : b[i] = Input(all[i]) /\ b[i].at \in Nat
  BY <1>1, InputsAre, Zenon
<1> HIDE DEF I, a, b
<1>4. DOMAIN a \subseteq DOMAIN b /\ DOMAIN a = 1..l /\ DOMAIN b = 1..(l + m)
      /\ \A i \in DOMAIN a : b[i] = a[i]
  <2>1. 1..l \subseteq 1..(l + m)
    BY <1>1, SMT
  <2>2. DOMAIN a = 1..l /\ DOMAIN b = 1..(l + m)
    BY <1>1, <1>2, <1>3, Zenon
  <2>3. ASSUME NEW i \in 1..l PROVE b[i] = a[i]
    BY <1>1, <1>2, <1>3, <2>1, Zenon
  <2> QED
    BY <2>1, <2>2, <2>3, Zenon
<1>5. ASSUME NEW i \in DOMAIN b PROVE \E j \in DOMAIN a : b[i] = a[j] /\ j <= i
  <2>1. CASE i \in 1..l
    <3>1. i <= i
      BY <2>1, SMT
    <3> QED
      BY <1>4, <2>1, <3>1, Zenon
  <2>2. CASE i \notin 1..l
    <3>1. i \in (l + 1)..(l + m)
      BY <1>4, <2>2, SMT
    <3>2. PICK k \in DOMAIN t : all[i] = t[k]
      BY <1>1, <3>1, Zenon
    <3>3. PICK j \in DOMAIN s : t[k] = s[j]
      BY Zenon
    <3>4. b[i] = a[j]
      <4>1. all[i] = s[j] /\ i \in DOMAIN all
        BY <1>3, <3>2, <3>3, Zenon
      <4> QED
        BY <1>2, <1>3, <4>1, Zenon
    <3>5. j <= i
      BY <1>1, <3>1, SMT
    <3> QED
      BY <1>2, <3>4, <3>5, Zenon
  <2> QED
    BY <2>1, <2>2, Zenon
<1> DEFINE ka == Every(a, LAMBDA x : x.unit)
           kb == Every(b, LAMBDA x : x.unit)
           firsts == FirstsOf(ka, a)
<1>6. /\ \A i \in DOMAIN a : ka[i] = a[i].unit
      /\ \A i \in DOMAIN b : kb[i] = b[i].unit
  BY Zenon DEF Every
<1> HIDE DEF ka, kb
<1>7. \A i \in DOMAIN a : kb[i] = ka[i]
  BY <1>4, <1>6, Zenon
<1>8. ASSUME NEW i \in DOMAIN b
      PROVE \E j \in DOMAIN a : kb[i] = ka[j] /\ b[i].at = a[j].at /\ j <= i
  BY <1>5, <1>6, Zenon
<1>9. FirstsOf(kb, b) = firsts
  <2>1. ASSUME NEW i \in FirstsOf(kb, b) PROVE i \in firsts
    <3>1. i \in DOMAIN b /\ \A j \in DOMAIN b : kb[j] = kb[i] => i <= j
      BY <2>1, Zenon DEF FirstsOf, SameKey
    <3>2. PICK j \in DOMAIN a : kb[i] = ka[j] /\ j <= i
      BY <1>8, <3>1, Zenon
    <3>3. i <= j
      BY <1>4, <1>7, <3>1, <3>2, Zenon
    <3>4. i = j
      BY <1>4, <3>1, <3>2, <3>3, SMT
    <3>5. \A k \in DOMAIN a : ka[k] = ka[i] => i <= k
      BY <1>4, <1>7, <3>1, <3>2, <3>4, Zenon
    <3> QED
      BY <3>2, <3>4, <3>5, Zenon DEF FirstsOf, SameKey
  <2>2. ASSUME NEW i \in firsts PROVE i \in FirstsOf(kb, b)
    <3>1. i \in DOMAIN a /\ i \in DOMAIN b /\ \A j \in DOMAIN a : ka[j] = ka[i] => i <= j
      BY <1>4, <2>2, Zenon DEF FirstsOf, SameKey
    <3>2. ASSUME NEW j \in DOMAIN b, kb[j] = kb[i] PROVE i <= j
      <4>1. PICK k \in DOMAIN a : kb[j] = ka[k] /\ k <= j
        BY <1>8, Zenon
      <4>2. i <= k
        BY <1>7, <3>1, <3>2, <4>1, Zenon
      <4> QED
        BY <1>4, <3>1, <4>1, <4>2, SMT
    <3> QED
      BY <3>1, <3>2, Zenon DEF FirstsOf, SameKey
  <2> HIDE DEF firsts
  <2> QED
    BY <2>1, <2>2, Zenon
<1>10. ASSUME NEW i \in DOMAIN a PROVE Winners(kb, b)[i] = Winners(ka, a)[i]
  <2>1. PICK j \in EarliestOf(ka, a, i) : /\ Min(EarliestOf(ka, a, i)) = j
                                         /\ \A k \in EarliestOf(ka, a, i) : j <= k
    BY <1>2, EarliestExists, Zenon
  <2>2. /\ j \in DOMAIN a /\ j \in DOMAIN b /\ ka[j] = ka[i]
        /\ \A k \in DOMAIN a : ka[k] = ka[i] => a[k].at >= a[j].at
    BY <1>4, <2>1, Zenon DEF EarliestOf, SameKey
  <2>3. j \in EarliestOf(kb, b, i)
    <3>1. ASSUME NEW k \in DOMAIN b, kb[k] = kb[i] PROVE b[k].at >= b[j].at
      <4>1. PICK n \in DOMAIN a : kb[k] = ka[n] /\ b[k].at = a[n].at
        BY <1>8, Zenon
      <4>2. a[n].at >= a[j].at
        BY <1>7, <2>2, <3>1, <4>1, Zenon
      <4> QED
        BY <1>4, <2>2, <4>1, <4>2, Zenon
    <3> QED
      BY <1>4, <1>7, <2>2, <3>1, Zenon DEF EarliestOf, SameKey
  <2>4. ASSUME NEW k \in EarliestOf(kb, b, i) PROVE j <= k
    <3>1. k \in DOMAIN b /\ kb[k] = kb[i] /\ \A n \in DOMAIN b : kb[n] = kb[i] => b[n].at >= b[k].at
      BY <2>4, Zenon DEF EarliestOf, SameKey
    <3>2. PICK n \in DOMAIN a : kb[k] = ka[n] /\ b[k].at = a[n].at /\ n <= k
      BY <1>8, <3>1, Zenon
    <3>3. n \in EarliestOf(ka, a, i)
      <4>1. ka[n] = ka[i]
        BY <1>7, <3>1, <3>2, Zenon
      <4>2. ASSUME NEW o \in DOMAIN a, ka[o] = ka[i] PROVE a[o].at >= a[n].at
        BY <1>4, <1>7, <3>1, <3>2, <4>2, Zenon
      <4> QED
        BY <4>1, <4>2, Zenon DEF EarliestOf, SameKey
    <3>4. j <= n
      BY <2>1, <3>3, Zenon
    <3> QED
      BY <1>4, <2>2, <3>1, <3>2, <3>4, SMT
  <2>5. Min(EarliestOf(kb, b, i)) = j
    <3>1. EarliestOf(kb, b, i) \in SUBSET Int
      <4>1. EarliestOf(kb, b, i) \subseteq DOMAIN b /\ DOMAIN b \subseteq Int
        <5>1. DOMAIN b \subseteq Int
          BY <1>4, SMT
        <5> QED
          BY <5>1, Zenon DEF EarliestOf, SameKey
      <4> QED
        BY <4>1, Zenon
    <3> QED
      BY <2>3, <2>4, <3>1, MinIs, Zenon
  <2>6. i \in DOMAIN b /\ Winners(kb, b)[i] = b[j] /\ Winners(ka, a)[i] = a[j]
    BY <1>4, <2>1, <2>5, Zenon DEF Winners
  <2> QED
    BY <1>4, <2>2, <2>6, Zenon
<1>11. PICK v \in Seq(I) : v = Winners(ka, a) /\ Len(v) = Len(a) /\ DOMAIN v = DOMAIN a
  BY <1>2, WinnersFit, Zenon
<1>12. PICK w \in Seq(I) : w = Winners(kb, b) /\ Len(w) = Len(b) /\ DOMAIN w = DOMAIN b
  BY <1>3, WinnersFit, Zenon
<1>13. /\ Len(v) <= Len(w) /\ firsts \in SUBSET DOMAIN v
       /\ \A i \in firsts : v[i] = w[i]
  <2>1. Len(v) <= Len(w)
    BY <1>1, <1>2, <1>3, <1>11, <1>12, SMT
  <2>2. firsts \in SUBSET DOMAIN a
    BY Zenon DEF FirstsOf
  <2> HIDE DEF firsts
  <2> QED
    BY <1>10, <1>11, <1>12, <2>1, <2>2, Zenon
<1>14. EntriesAt(w, firsts) = EntriesAt(v, firsts)
  BY <1>13, EntriesOfPrefix, Zenon
<1>15. DedupByEarliest(b, kb) = DedupByEarliest(a, ka)
  BY <1>9, <1>11, <1>12, <1>14, DedupIsOfWinners, Zenon
<1> QED
  BY <1>15, Zenon DEF DedupTemporal, ka, kb, all, a, b

\* Activities that are collected again change neither a score nor a mark
\* (evaluation-dedup.ts:118).
THEOREM CopiesChangeNothing ==
    ASSUME NEW T, NEW s \in Seq(T), NEW t \in Seq(T), \A a \in T : a.at \in Nat,
           \A j \in DOMAIN t : \E i \in DOMAIN s : t[j] = s[i],
           NEW routing, NEW generate
    PROVE  EvaluateActivities(s \o t, routing, generate) = EvaluateActivities(s, routing, generate)
BY CopiesAreNoUnits, Zenon DEF EvaluateActivities

\* The units of two sequences are the same: p tells where each of one is in the other.
Match(U, V, p) == /\ p \in Bijection(DOMAIN U, DOMAIN V)
                  /\ \A n \in DOMAIN U : V[p[n]] = U[n]

\* What that means of each.
LEMMA MatchFits ==
    ASSUME NEW U, NEW V, NEW p, Match(U, V, p)
    PROVE  /\ \A n \in DOMAIN U : p[n] \in DOMAIN V /\ V[p[n]] = U[n]
           /\ \A m \in DOMAIN V : \E n \in DOMAIN U : m = p[n]
           /\ \A m, n \in DOMAIN U : p[m] = p[n] => m = n
<1>1. p \in [DOMAIN U -> DOMAIN V]
  BY Zenon DEF Match, Bijection, Injection
<1>2. \A m \in DOMAIN V : \E n \in DOMAIN U : m = p[n]
  BY Zenon DEF Match, Bijection, Surjection
<1>3. \A m, n \in DOMAIN U : p[m] = p[n] => m = n
  BY <1>1, Zenon DEF Match, Bijection, Injection, IsInjective
<1> QED
  BY <1>1, <1>2, <1>3, Zenon DEF Match

\* Sets that match are as many.
LEMMA MatchCounts ==
    ASSUME NEW U, NEW V, NEW p, Match(U, V, p), NEW S \in SUBSET DOMAIN U, IsFiniteSet(S),
           NEW T \in SUBSET DOMAIN V, \A n \in DOMAIN U : n \in S <=> p[n] \in T
    PROVE  Cardinality(T) = Cardinality(S)
<1> DEFINE f == [n \in S |-> p[n]]
<1>1. f \in [S -> T]
  BY Zenon
<1>2. \A n \in S : f[n] = p[n]
  BY Zenon
<1> HIDE DEF f
<1>3. f \in Injection(S, T)
  BY <1>1, <1>2, MatchFits DEF Injection, IsInjective
<1>4. ASSUME NEW t \in T PROVE \E n \in S : f[n] = t
  BY <1>2, MatchFits
<1>5. f \in Bijection(S, T)
  BY <1>1, <1>3, <1>4, Zenon DEF Bijection, Surjection
<1> QED
  BY <1>5, FS_Bijection, Zenon DEF ExistsBijection

\* The places in a sequence are finitely many.
LEMMA PlacesAreFinite ==
    ASSUME NEW T, NEW s \in Seq(T), NEW S \in SUBSET DOMAIN s
    PROVE  IsFiniteSet(S)
<1>1. PICK l \in Nat : DOMAIN s = 1..l
  BY SMT
<1>2. 1 \in Int /\ l \in Int
  BY SMT
<1> QED
  BY <1>1, <1>2, FS_Interval, FS_Subset, Zenon

\* In the signal of abuse.
Repeats(inputs, i) ==
    \E j \in Of(inputs, inputs[i].author) \ {i} :
        \/ inputs[j].unit = inputs[i].unit
        \/ /\ inputs[j].kind = inputs[i].kind
           /\ Volume(inputs[j]) = Volume(inputs[i])
Lows(inputs, a) ==
    {i \in Of(inputs, a) : Volume(inputs[i]) < LOW_VOLUME_THRESHOLD /\ Repeats(inputs, i)}
AbuseOf(count, lows) ==
    [count |-> count, repeated |-> lows, suspected |-> count >= 2 /\ 2 * lows >= count]

\* The signal in terms of these.
LEMMA AbuseForm ==
    ASSUME NEW inputs
    PROVE  AbuseSignal(inputs) =
              [a \in Authors(inputs) |->
                  AbuseOf(Cardinality(Of(inputs, a)), Cardinality(Lows(inputs, a)))]
BY Zenon DEF AbuseSignal, AbuseOf, Lows, Repeats

\* Units that are the same show the same of their authors.
LEMMA MatchSignals ==
    ASSUME NEW T, NEW U \in Seq(T), NEW V \in Seq(T), NEW p, Match(U, V, p)
    PROVE  Signals(V) = Signals(U)
<1>1. \A n \in DOMAIN U : p[n] \in DOMAIN V /\ V[p[n]] = U[n]
  BY MatchFits
<1>2. \A m \in DOMAIN V : \E n \in DOMAIN U : m = p[n] /\ V[m] = U[n]
  BY MatchFits
<1>3. Authors(V) = Authors(U)
  <2>1. Authors(V) \subseteq Authors(U)
    BY <1>2 DEF Authors
  <2>2. Authors(U) \subseteq Authors(V)
    BY <1>1 DEF Authors
  <2> QED
    BY <2>1, <2>2, Zenon
<1>4. \A a : \A n \in DOMAIN U : n \in Of(U, a) <=> p[n] \in Of(V, a)
  BY <1>1, Zenon DEF Of
<1>5. \A a : Of(U, a) \in SUBSET DOMAIN U /\ Of(V, a) \in SUBSET DOMAIN V
  BY Zenon DEF Of
<1>6. ASSUME NEW a PROVE \A m \in Of(V, a) : \E n \in Of(U, a) : V[m] = U[n]
  BY <1>2, <1>4, <1>5, Zenon
<1>7. ASSUME NEW a PROVE \A n \in Of(U, a) : \E m \in Of(V, a) : V[m] = U[n]
  BY <1>1, <1>4, <1>5, Zenon
<1>8. ASSUME NEW a PROVE Cardinality(Of(V, a)) = Cardinality(Of(U, a))
  <2>1. IsFiniteSet(Of(U, a))
    BY <1>5, PlacesAreFinite, Zenon
  <2> QED
    BY <1>4, <1>5, <2>1, MatchCounts
<1>9. AbuseSignal(V) = AbuseSignal(U)
  <2>1. ASSUME NEW i \in DOMAIN U PROVE Repeats(U, i) <=> Repeats(V, p[i])
    <3>1. V[p[i]] = U[i] /\ p[i] \in DOMAIN V
      BY <1>1, Zenon
    <3>2. ASSUME Repeats(U, i) PROVE Repeats(V, p[i])
      <4>1. PICK j \in Of(U, U[i].author) \ {i} :
                \/ U[j].unit = U[i].unit
                \/ U[j].kind = U[i].kind /\ Volume(U[j]) = Volume(U[i])
        BY <3>2, Zenon DEF Repeats
      <4>2. j \in DOMAIN U /\ p[j] \in Of(V, V[p[i]].author) /\ V[p[j]] = U[j]
        BY <1>1, <1>4, <1>5, <3>1, <4>1, Zenon
      <4>3. p[j] # p[i]
        BY <4>1, <4>2, MatchFits
      <4> QED
        BY <3>1, <4>1, <4>2, <4>3, Zenon DEF Repeats
    <3>3. ASSUME Repeats(V, p[i]) PROVE Repeats(U, i)
      <4>1. PICK k \in Of(V, V[p[i]].author) \ {p[i]} :
                \/ V[k].unit = V[p[i]].unit
                \/ V[k].kind = V[p[i]].kind /\ Volume(V[k]) = Volume(V[p[i]])
        BY <3>3, Zenon DEF Repeats
      <4>2. k \in DOMAIN V
        BY <1>5, <4>1, Zenon
      <4>3. PICK j \in DOMAIN U : k = p[j] /\ V[k] = U[j]
        BY <1>2, <4>2, Zenon
      <4>4. j \in Of(U, U[i].author)
        BY <1>4, <3>1, <4>1, <4>3, Zenon
      <4>5. j # i
        BY <4>1, <4>3, Zenon
      <4> QED
        BY <3>1, <4>1, <4>3, <4>4, <4>5, Zenon DEF Repeats
    <3> QED
      BY <3>2, <3>3, Zenon
  <2>2. ASSUME NEW a PROVE Cardinality(Lows(V, a)) = Cardinality(Lows(U, a))
    <3>1. Lows(U, a) \in SUBSET DOMAIN U /\ Lows(V, a) \in SUBSET DOMAIN V
      BY <1>5, Zenon DEF Lows
    <3>2. ASSUME NEW n \in DOMAIN U PROVE n \in Lows(U, a) <=> p[n] \in Lows(V, a)
      <4>1. V[p[n]] = U[n] /\ (n \in Of(U, a) <=> p[n] \in Of(V, a))
            /\ (Repeats(U, n) <=> Repeats(V, p[n]))
        BY <1>1, <1>4, <2>1, Zenon
      <4> QED
        BY <4>1, Zenon DEF Lows
    <3>3. IsFiniteSet(Lows(U, a))
      BY <3>1, PlacesAreFinite, Zenon
    <3> QED
      BY <3>1, <3>2, <3>3, MatchCounts
  <2>3. \A a \in Authors(U) : AbuseOf(Cardinality(Of(V, a)), Cardinality(Lows(V, a)))
                              = AbuseOf(Cardinality(Of(U, a)), Cardinality(Lows(U, a)))
    BY <1>8, <2>2, Zenon
  <2> QED
    BY <1>3, <2>3, AbuseForm, Zenon
<1>10. UpdateCountNeutral(V) = UpdateCountNeutral(U)
  <2> DEFINE N(W, a) == UnitsWhere(W, a, LAMBDA x :
                 x.kind = "document" /\ x.updates >= UPDATE_COUNT_NEUTRAL_THRESHOLD)
  <2>1. ASSUME NEW a PROVE N(V, a) = N(U, a)
    <3>1. N(V, a) \subseteq N(U, a)
      BY <1>6 DEF UnitsWhere
    <3>2. N(U, a) \subseteq N(V, a)
      BY <1>7 DEF UnitsWhere
    <3> HIDE DEF N
    <3> QED
      BY <3>1, <3>2, Zenon
  <2>2. /\ UpdateCountNeutral(V) = [a \in Authors(V) |-> N(V, a)]
        /\ UpdateCountNeutral(U) = [a \in Authors(U) |-> N(U, a)]
    BY Zenon DEF UpdateCountNeutral
  <2> HIDE DEF N
  <2> QED
    BY <1>3, <2>1, <2>2, Zenon
<1>11. QualitySignal(V) = QualitySignal(U)
  <2> DEFINE N(W, a) == UnitsWhere(W, a, LAMBDA x : x.titleLength <= TITLE_FLOOR)
  <2>1. ASSUME NEW a PROVE N(V, a) = N(U, a)
    <3>1. N(V, a) \subseteq N(U, a)
      BY <1>6 DEF UnitsWhere
    <3>2. N(U, a) \subseteq N(V, a)
      BY <1>7 DEF UnitsWhere
    <3> HIDE DEF N
    <3> QED
      BY <3>1, <3>2, Zenon
  <2>2. /\ QualitySignal(V) = [a \in Authors(V) |-> N(V, a)]
        /\ QualitySignal(U) = [a \in Authors(U) |-> N(U, a)]
    BY Zenon DEF QualitySignal
  <2> HIDE DEF N
  <2> QED
    BY <1>3, <2>1, <2>2, Zenon
<1>12. ASSUME NEW kind PROVE Counts(V, kind) = Counts(U, kind)
  <2> DEFINE K(W, a) == {i \in Of(W, a) : W[i].kind = kind}
  <2>1. ASSUME NEW a PROVE Cardinality(K(V, a)) = Cardinality(K(U, a))
    <3>1. K(U, a) \in SUBSET DOMAIN U /\ K(V, a) \in SUBSET DOMAIN V
      BY <1>5, Zenon
    <3>2. ASSUME NEW n \in DOMAIN U PROVE n \in K(U, a) <=> p[n] \in K(V, a)
      BY <1>1, <1>4, Zenon
    <3>3. IsFiniteSet(K(U, a))
      BY <3>1, PlacesAreFinite, Zenon
    <3> HIDE DEF K
    <3> QED
      BY <3>1, <3>2, <3>3, MatchCounts
  <2>2. /\ Counts(V, kind) = [a \in Authors(V) |-> Cardinality(K(V, a))]
        /\ Counts(U, kind) = [a \in Authors(U) |-> Cardinality(K(U, a))]
    BY Zenon DEF Counts
  <2> HIDE DEF K
  <2> QED
    BY <1>3, <2>1, <2>2, Zenon
<1>13. UnderPerformer(V) = UnderPerformer(U)
  <2> DEFINE M(counts) == [a \in Authors(U) |->
                 Comparable(counts) /\ 2 * Cardinality(DOMAIN counts) * counts[a] < Sum(counts)]
  <2>1. UnderPerformer(U) = M(Counts(U, "code")) /\ UnderPerformer(V) = M(Counts(V, "code"))
    BY <1>3, Zenon DEF UnderPerformer
  <2> HIDE DEF M
  <2> QED
    BY <1>12, <2>1, Zenon
<1>14. NotableContribution(V) = NotableContribution(U)
  <2> DEFINE M(counts) == [a \in Authors(U) |->
                 Comparable(counts) /\ 2 * Cardinality(DOMAIN counts) * counts[a] > 3 * Sum(counts)]
  <2>1. /\ NotableContribution(U) = M(Counts(U, "code"))
        /\ NotableContribution(V) = M(Counts(V, "code"))
    BY <1>3, Zenon DEF NotableContribution
  <2> HIDE DEF M
  <2> QED
    BY <1>12, <2>1, Zenon
<1>15. DocumentContribution(V) = DocumentContribution(U)
  <2> DEFINE M(counts) == [a \in Authors(U) |->
                 Comparable(counts) /\ 2 * Cardinality(DOMAIN counts) * counts[a] > 3 * Sum(counts)]
  <2>1. /\ DocumentContribution(U) = M(Counts(U, "document"))
        /\ DocumentContribution(V) = M(Counts(V, "document"))
    BY <1>3, Zenon DEF DocumentContribution
  <2> HIDE DEF M
  <2> QED
    BY <1>12, <2>1, Zenon
<1>16. AlgorithmResearch(V) = AlgorithmResearch(U)
  <2> DEFINE R(W, a) == \E i \in Of(W, a) : W[i].kind = "document" /\ W[i].hits >= UPLIFT_MIN_HITS
  <2>1. ASSUME NEW a PROVE R(V, a) = R(U, a)
    <3>1. R(V, a) <=> R(U, a)
      BY <1>6, <1>7
    <3> QED
      BY <3>1, Zenon
  <2>2. /\ AlgorithmResearch(V) = [a \in Authors(V) |-> R(V, a)]
        /\ AlgorithmResearch(U) = [a \in Authors(U) |-> R(U, a)]
    BY Zenon DEF AlgorithmResearch
  <2> HIDE DEF R
  <2> QED
    BY <1>3, <2>1, <2>2, Zenon
<1> QED
  BY <1>9, <1>10, <1>11, <1>13, <1>14, <1>15, <1>16, Zenon DEF Signals

\* Activities are the same in whatever order, and no two of one unit are of one time.
SameActivities(s, t) ==
    /\ \A i \in DOMAIN s : \E j \in DOMAIN t : t[j] = s[i]
    /\ \A j \in DOMAIN t : \E i \in DOMAIN s : s[i] = t[j]
NoTies(s) ==
    \A i, j \in DOMAIN s : Unit(s[i]) = Unit(s[j]) /\ s[i].at = s[j].at => s[i] = s[j]

\* So each unit of the one is a unit of the other.
LEMMA UnitsCome ==
    ASSUME NEW T, NEW s \in Seq(T), NEW t \in Seq(T), \A a \in T : a.at \in Nat,
           SameActivities(s, t), NoTies(s), NEW U, NEW g, IsUnits(U, s, g),
           NEW V, NEW h, IsUnits(V, t, h), NEW n \in DOMAIN U
    PROVE  \E m \in DOMAIN V : V[m] = U[n]
<1>1. PICK i \in DOMAIN s : i = g[n]
  BY Zenon DEF IsUnits
<1>2. PICK j \in DOMAIN t : t[j] = s[i]
  BY Zenon DEF SameActivities
<1>3. PICK m \in DOMAIN V : Unit(t[h[m]]) = Unit(t[j])
  BY Zenon DEF IsUnits
<1>4. PICK k \in DOMAIN t : k = h[m]
  BY Zenon DEF IsUnits
<1>5. PICK o \in DOMAIN s : s[o] = t[k]
  BY Zenon DEF SameActivities
<1>6. Unit(s[o]) = Unit(s[i]) /\ Unit(t[j]) = Unit(t[k])
  BY <1>2, <1>3, <1>4, <1>5, Zenon
<1>7. s[i].at <= s[o].at
  BY <1>1, <1>6, Zenon DEF IsUnits
<1>8. t[k].at <= t[j].at
  BY <1>4, <1>6, Zenon DEF IsUnits
<1>9. s[i] \in T /\ s[o] \in T
  BY SMT
<1>10. s[o].at <= s[i].at /\ s[i].at \in Nat /\ s[o].at \in Nat
  BY <1>2, <1>5, <1>8, <1>9, Zenon
<1>11. s[i].at = s[o].at
  BY <1>7, <1>10, SMT
<1>12. s[i] = s[o]
  BY <1>6, <1>11, Zenon DEF NoTies
<1>13. U[n] = Input(s[i]) /\ V[m] = Input(t[k])
  BY <1>1, <1>4, Zenon DEF IsUnits
<1> QED
  BY <1>5, <1>12, <1>13, Zenon

\* Both ways.
LEMMA TiesAreOfBoth ==
    ASSUME NEW s, NEW t, SameActivities(s, t), NoTies(s)
    PROVE  SameActivities(t, s) /\ NoTies(t)
<1>1. SameActivities(t, s)
  BY Zenon DEF SameActivities
<1>2. ASSUME NEW i \in DOMAIN t, NEW j \in DOMAIN t,
             Unit(t[i]) = Unit(t[j]), t[i].at = t[j].at
      PROVE  t[i] = t[j]
  <2>1. PICK k \in DOMAIN s : s[k] = t[i]
    BY Zenon DEF SameActivities
  <2>2. PICK l \in DOMAIN s : s[l] = t[j]
    BY Zenon DEF SameActivities
  <2>3. Unit(s[k]) = Unit(s[l]) /\ s[k].at = s[l].at
    BY <1>2, <2>1, <2>2, Zenon
  <2>4. s[k] = s[l]
    BY <2>3, Zenon DEF NoTies
  <2> QED
    BY <2>1, <2>2, <2>4, Zenon
<1> QED
  BY <1>1, <1>2, Zenon DEF NoTies

\* So the units of both are the same.
LEMMA UnitsMatch ==
    ASSUME NEW T, NEW s \in Seq(T), NEW t \in Seq(T), \A a \in T : a.at \in Nat,
           SameActivities(s, t), NoTies(s), NEW U, NEW g, IsUnits(U, s, g),
           NEW V, NEW h, IsUnits(V, t, h)
    PROVE  \E p : Match(U, V, p)
<1> DEFINE p == [n \in DOMAIN U |-> CHOOSE m \in DOMAIN V : V[m] = U[n]]
<1>1. ASSUME NEW n \in DOMAIN U PROVE p[n] \in DOMAIN V /\ V[p[n]] = U[n]
  <2>1. \E m \in DOMAIN V : V[m] = U[n]
    BY UnitsCome
  <2> QED
    BY <2>1, Zenon
<1>2. p \in [DOMAIN U -> DOMAIN V]
  BY <1>1, Zenon
<1> HIDE DEF p
<1>3. ASSUME NEW W, NEW acts, NEW f, IsUnits(W, acts, f), NEW m \in DOMAIN W, NEW n \in DOMAIN W,
             W[m] = W[n]
      PROVE  m = n
  <2>1. W[m].unit = Unit(acts[f[m]]) /\ W[n].unit = Unit(acts[f[n]])
    BY <1>3, InputFields DEF IsUnits
  <2>2. Unit(acts[f[m]]) = Unit(acts[f[n]])
    BY <1>3, <2>1, Zenon
  <2> QED
    BY <1>3, <2>2, Zenon DEF IsUnits
<1>4. ASSUME NEW m \in DOMAIN U, NEW n \in DOMAIN U, p[m] = p[n] PROVE m = n
  <2>1. U[m] = U[n]
    BY <1>1, <1>4, Zenon
  <2> QED
    BY <1>3, <2>1, Zenon
<1>5. ASSUME NEW m \in DOMAIN V PROVE \E n \in DOMAIN U : p[n] = m
  <2>1. SameActivities(t, s) /\ NoTies(t)
    BY TiesAreOfBoth, Zenon
  <2>2. PICK n \in DOMAIN U : U[n] = V[m]
    BY <2>1, UnitsCome
  <2>3. p[n] \in DOMAIN V /\ V[p[n]] = V[m]
    BY <1>1, <2>2, Zenon
  <2>4. p[n] = m
    BY <1>3, <2>3, Zenon
  <2> QED
    BY <2>4, Zenon
<1>6. p \in Injection(DOMAIN U, DOMAIN V)
  BY <1>2, <1>4, Zenon DEF Injection, IsInjective
<1>7. p \in Surjection(DOMAIN U, DOMAIN V)
  BY <1>2, <1>5, Zenon DEF Surjection
<1>8. Match(U, V, p)
  BY <1>1, <1>6, <1>7, Zenon DEF Match, Bijection
<1> QED
  BY <1>8, Zenon

\* An adjustment looks at nothing but the entry and the signals.
LEMMA AdjustedAlike ==
    ASSUME NEW E, NEW F, NEW n \in DOMAIN E, NEW m \in DOMAIN F, F[m] = E[n], NEW signal
    PROVE  /\ ApplyAbuse(F, signal)[m] = ApplyAbuse(E, signal)[n]
           /\ ApplyUpdateCount(F, signal)[m] = ApplyUpdateCount(E, signal)[n]
           /\ ApplyQualityFloor(F, signal)[m] = ApplyQualityFloor(E, signal)[n]
           /\ Uplift(F, signal)[m] = Uplift(E, signal)[n]
<1>1. ApplyAbuse(F, signal)[m] = ApplyAbuse(E, signal)[n]
  BY Zenon DEF ApplyAbuse, Adjust, Every
<1>2. ApplyUpdateCount(F, signal)[m] = ApplyUpdateCount(E, signal)[n]
  BY Zenon DEF ApplyUpdateCount, Adjust, Every
<1>3. ApplyQualityFloor(F, signal)[m] = ApplyQualityFloor(E, signal)[n]
  BY Zenon DEF ApplyQualityFloor, Adjust, Every
<1>4. Uplift(F, signal)[m] = Uplift(E, signal)[n]
  BY Zenon DEF Uplift, Adjust, Every
<1> QED
  BY <1>1, <1>2, <1>3, <1>4, Zenon

\* Nor does a mark.
LEMMA MarkedAlike ==
    ASSUME NEW E, NEW F, NEW n \in DOMAIN E, NEW m \in DOMAIN F, F[m] = E[n], NEW signal, NEW mark
    PROVE  Annotate(F, mark, signal)[m] = Annotate(E, mark, signal)[n]
BY Zenon DEF Annotate, Adjust, Every

\* An adjustment keeps the places.
LEMMA AdjustedPlaces ==
    ASSUME NEW E, NEW signal
    PROVE  /\ DOMAIN ApplyAbuse(E, signal) = DOMAIN E
           /\ DOMAIN ApplyUpdateCount(E, signal) = DOMAIN E
           /\ DOMAIN ApplyQualityFloor(E, signal) = DOMAIN E
           /\ DOMAIN Uplift(E, signal) = DOMAIN E
BY Zenon DEF ApplyAbuse, ApplyUpdateCount, ApplyQualityFloor, Uplift, Adjust, Every

\* And so does a mark.
LEMMA MarkedPlaces ==
    ASSUME NEW E, NEW signal, NEW mark
    PROVE  DOMAIN Annotate(E, mark, signal) = DOMAIN E
BY Zenon DEF Annotate, Adjust, Every

\* The entries after each of the adjustments.
Volumes(E, signals) == ApplyUpdateCount(ApplyAbuse(E, signals.abuse), signals.updateCount)
Floors(E, signals) == Annotate(ApplyQualityFloor(E, signals.quality), "under", signals.under)
Notables(E, signals) == Uplift(Annotate(E, "notable", signals.notable), signals.notable)
Documents(E, signals) == Annotate(Uplift(E, signals.document), "document", signals.document)
Adjusted(E, signals) ==
    Uplift(Documents(Notables(Floors(Volumes(E, signals), signals), signals), signals),
           signals.research)

\* They are all the adjustments.
LEMMA AdjustmentsForm ==
    ASSUME NEW E, NEW signals
    PROVE  ApplyAdjustments(E, signals) = Every(Adjusted(E, signals), LAMBDA e : e.result)
BY Zenon DEF ApplyAdjustments, Adjusted, Documents, Notables, Floors, Volumes, ApplyResearchUplift,
             ApplyDocumentAnnotation, ApplyDocumentUplift, ApplyNotableUplift,
             ApplyNotableAnnotation, ApplyUnderPerformerAnnotation

\* None of them leaves an entry out.
LEMMA AdjustedDomain ==
    ASSUME NEW E, NEW signals PROVE DOMAIN Adjusted(E, signals) = DOMAIN E
<1>1. ASSUME NEW e PROVE DOMAIN Volumes(e, signals) = DOMAIN e
  BY AdjustedPlaces DEF Volumes
<1>2. ASSUME NEW e PROVE DOMAIN Floors(e, signals) = DOMAIN e
  BY AdjustedPlaces, MarkedPlaces DEF Floors
<1>3. ASSUME NEW e PROVE DOMAIN Notables(e, signals) = DOMAIN e
  BY AdjustedPlaces, MarkedPlaces DEF Notables
<1>4. ASSUME NEW e PROVE DOMAIN Documents(e, signals) = DOMAIN e
  BY AdjustedPlaces, MarkedPlaces DEF Documents
<1>5. ASSUME NEW e PROVE DOMAIN Uplift(e, signals.research) = DOMAIN e
  BY AdjustedPlaces
<1> QED
  BY <1>1, <1>2, <1>3, <1>4, <1>5 DEF Adjusted

\* All adjustments together.
LEMMA AllAdjustedAlike ==
    ASSUME NEW E, NEW F, NEW n \in DOMAIN E, NEW m \in DOMAIN F, F[m] = E[n], NEW signals
    PROVE  /\ DOMAIN Adjusted(E, signals) = DOMAIN E
           /\ Adjusted(F, signals)[m] = Adjusted(E, signals)[n]
<1> DEFINE e1 == Volumes(E, signals)
           f1 == Volumes(F, signals)
           e2 == Floors(e1, signals)
           f2 == Floors(f1, signals)
           e3 == Notables(e2, signals)
           f3 == Notables(f2, signals)
           e4 == Documents(e3, signals)
           f4 == Documents(f3, signals)
<1>1. DOMAIN e1 = DOMAIN E /\ DOMAIN f1 = DOMAIN F /\ f1[m] = e1[n]
  BY AdjustedAlike, AdjustedPlaces DEF Volumes
<1> HIDE DEF e1, f1
<1>2. DOMAIN e2 = DOMAIN E /\ DOMAIN f2 = DOMAIN F /\ f2[m] = e2[n]
  <2> DEFINE e == ApplyQualityFloor(e1, signals.quality)
             f == ApplyQualityFloor(f1, signals.quality)
  <2>1. DOMAIN e = DOMAIN E /\ DOMAIN f = DOMAIN F /\ f[m] = e[n]
    BY <1>1, AdjustedAlike, AdjustedPlaces
  <2>2. e2 = Annotate(e, "under", signals.under) /\ f2 = Annotate(f, "under", signals.under)
    BY Zenon DEF Floors
  <2> HIDE DEF e, f, e2, f2
  <2> QED
    BY <2>1, <2>2, MarkedAlike, MarkedPlaces
<1> HIDE DEF e2, f2
<1>3. DOMAIN e3 = DOMAIN E /\ DOMAIN f3 = DOMAIN F /\ f3[m] = e3[n]
  <2> DEFINE e == Annotate(e2, "notable", signals.notable)
             f == Annotate(f2, "notable", signals.notable)
  <2>1. DOMAIN e = DOMAIN E /\ DOMAIN f = DOMAIN F /\ f[m] = e[n]
    BY <1>2, MarkedAlike, MarkedPlaces
  <2>2. e3 = Uplift(e, signals.notable) /\ f3 = Uplift(f, signals.notable)
    BY Zenon DEF Notables
  <2> HIDE DEF e, f, e3, f3
  <2> QED
    BY <2>1, <2>2, AdjustedAlike, AdjustedPlaces
<1> HIDE DEF e3, f3
<1>4. DOMAIN e4 = DOMAIN E /\ DOMAIN f4 = DOMAIN F /\ f4[m] = e4[n]
  <2> DEFINE e == Uplift(e3, signals.document)
             f == Uplift(f3, signals.document)
  <2>1. DOMAIN e = DOMAIN E /\ DOMAIN f = DOMAIN F /\ f[m] = e[n]
    BY <1>3, AdjustedAlike, AdjustedPlaces
  <2>2. e4 = Annotate(e, "document", signals.document)
        /\ f4 = Annotate(f, "document", signals.document)
    BY Zenon DEF Documents
  <2> HIDE DEF e, f, e4, f4
  <2> QED
    BY <2>1, <2>2, MarkedAlike, MarkedPlaces
<1> HIDE DEF e4, f4
<1>5. /\ DOMAIN Uplift(e4, signals.research) = DOMAIN E
      /\ Uplift(f4, signals.research)[m] = Uplift(e4, signals.research)[n]
  BY <1>4, AdjustedAlike, AdjustedPlaces
<1> QED
  BY <1>5, Zenon DEF Adjusted, e1, e2, e3, e4, f1, f2, f3, f4

\* The results of units.
EntriesFor(units, routing, generate) ==
    Every(units, LAMBDA x : [author |-> x.author, result |-> ScoreUnit(x, routing, generate)])
ResultsOf(units, routing, generate) ==
    ApplyAdjustments(EntriesFor(units, routing, generate), Signals(units))

\* Each unit has a result.
LEMMA ResultsArePlaced ==
    ASSUME NEW U, NEW routing, NEW generate
    PROVE  DOMAIN ResultsOf(U, routing, generate) = DOMAIN U
<1>1. PICK signals, E : /\ ResultsOf(U, routing, generate) = ApplyAdjustments(E, signals)
                        /\ E = EntriesFor(U, routing, generate)
  BY Zenon DEF ResultsOf
<1>2. DOMAIN E = DOMAIN U
  BY <1>1, Zenon DEF EntriesFor, Every
<1>3. ResultsOf(U, routing, generate) = Every(Adjusted(E, signals), LAMBDA e : e.result)
  BY <1>1, AdjustmentsForm, Zenon
<1>4. DOMAIN ResultsOf(U, routing, generate) = DOMAIN Adjusted(E, signals)
  BY <1>3, Zenon DEF Every
<1> QED
  BY <1>2, <1>4, AdjustedDomain

\* Units that are the same have the same results.
LEMMA ResultsMatch ==
    ASSUME NEW T, NEW U \in Seq(T), NEW V \in Seq(T), NEW p, Match(U, V, p),
           NEW routing, NEW generate
    PROVE  /\ DOMAIN ResultsOf(U, routing, generate) = DOMAIN U
           /\ DOMAIN ResultsOf(V, routing, generate) = DOMAIN V
           /\ Match(ResultsOf(U, routing, generate), ResultsOf(V, routing, generate), p)
<1> DEFINE E == EntriesFor(U, routing, generate)
           F == EntriesFor(V, routing, generate)
           Q == ResultsOf(U, routing, generate)
           R == ResultsOf(V, routing, generate)
<1>1. PICK signals : signals = Signals(U) /\ signals = Signals(V)
  BY MatchSignals
<1>2. DOMAIN E = DOMAIN U /\ DOMAIN F = DOMAIN V
  BY Zenon DEF EntriesFor, Every
<1>3. ASSUME NEW n \in DOMAIN U PROVE F[p[n]] = E[n] /\ p[n] \in DOMAIN V
  <2>1. p[n] \in DOMAIN V /\ V[p[n]] = U[n]
    BY MatchFits
  <2> QED
    BY <2>1, Zenon DEF EntriesFor, Every
<1> HIDE DEF E, F
<1>4. /\ Q = Every(Adjusted(E, signals), LAMBDA e : e.result)
      /\ R = Every(Adjusted(F, signals), LAMBDA e : e.result)
  BY <1>1, AdjustmentsForm, Zenon DEF ResultsOf, E, F
<1> HIDE DEF Q, R
<1>5. ASSUME NEW W PROVE DOMAIN Adjusted(W, signals) = DOMAIN W
  BY AdjustedDomain
<1>6. DOMAIN Q = DOMAIN U /\ DOMAIN R = DOMAIN V
  BY <1>2, <1>4, <1>5, Zenon DEF Every
<1>7. ASSUME NEW n \in DOMAIN U PROVE R[p[n]] = Q[n]
  <2>1. Adjusted(F, signals)[p[n]] = Adjusted(E, signals)[n]
    BY <1>2, <1>3, AllAdjustedAlike
  <2>2. n \in DOMAIN Adjusted(E, signals) /\ p[n] \in DOMAIN Adjusted(F, signals)
    BY <1>2, <1>3, <1>5, Zenon
  <2> QED
    BY <1>4, <2>1, <2>2, Zenon DEF Every
<1> QED
  BY <1>6, <1>7, Zenon DEF Match, Q, R

------------------------------------------------------------------------------
\* The sums of the first numbers of a sequence.
IsTotalled(seq, longest, totals) ==
    totals = [n \in 0..longest |-> IF n = 0 THEN 0 ELSE totals[n - 1] + seq[n]]

\* They exist, however many.
LEMMA TotalsExist ==
    ASSUME NEW seq, NEW longest \in Nat
    PROVE  \E totals : IsTotalled(seq, longest, totals)
<1> DEFINE next(n, before) == before + seq[n]
           S == {n \in Nat : ~\E totals : IsTotalled(seq, n, totals)}
<1>1. SUFFICES ASSUME S # {} PROVE FALSE
  OBVIOUS
<1>2. PICK m \in S : \A n \in S : m <= n
  BY <1>1, LeastOfSet
<1>3. m # 0
  <2>1. IsTotalled(seq, 0, [n \in 0..0 |-> 0])
    BY SMT DEF IsTotalled
  <2> QED
    BY <2>1, <1>2
<1>4. m - 1 \in Nat /\ m - 1 \notin S
  BY <1>2, <1>3, SMT
<1>5. PICK a : IsTotalled(seq, m - 1, a)
  BY <1>4
<1> DEFINE b == [n \in 0..m |-> IF n = m THEN next(m, a[m - 1]) ELSE a[n]]
<1>6. IsTotalled(seq, m, b)
  <2>1. ASSUME NEW n \in 0..m
        PROVE  b[n] = IF n = 0 THEN 0 ELSE next(n, b[n - 1])
    <3> HIDE DEF next
    <3>1. CASE n = m
      BY <3>1, <1>2, <1>3, SMT
    <3>2. CASE n # m
      <4>1. n \in 0..(m - 1) /\ b[n] = a[n] /\ (n # 0 => b[n - 1] = a[n - 1])
        BY <3>2, <1>2, <1>3, SMT
      <4>2. a[n] = IF n = 0 THEN 0 ELSE next(n, a[n - 1])
        BY <4>1, <1>5, Zenon DEF IsTotalled, next
      <4> QED
        BY <4>1, <4>2
    <3> QED
      BY <3>1, <3>2
  <2>2. b = [n \in 0..m |-> b[n]]
    BY Zenon
  <2> HIDE DEF b
  <2> QED
    BY <2>1, <2>2, Zenon DEF IsTotalled
<1> QED
  BY <1>2, <1>6

\* As many as a sequence of numbers adds up to.
Cells(seq, n) == {c \in (1..n) \X Nat : c[2] \in 1..seq[c[1]]}

LEMMA TotalCounts ==
    ASSUME NEW seq \in Seq(Nat)
    PROVE  IsFiniteSet(Cells(seq, Len(seq))) /\ Total(seq) = Cardinality(Cells(seq, Len(seq)))
<1>1. PICK l \in Nat : l = Len(seq) /\ DOMAIN seq = 1..l
  BY SMT
<1>2. PICK totals : /\ totals = (CHOOSE k : IsTotalled(seq, l, k))
                    /\ IsTotalled(seq, l, totals)
  BY TotalsExist, Zenon
<1>3. Total(seq) = totals[l]
  BY <1>1, <1>2, Zenon DEF Total, IsTotalled
<1>4. \A n \in 0..l : totals[n] = IF n = 0 THEN 0 ELSE totals[n - 1] + seq[n]
  BY <1>2, Zenon DEF IsTotalled
<1> DEFINE Fits(n) == IsFiniteSet(Cells(seq, n)) /\ totals[n] = Cardinality(Cells(seq, n))
           S == {n \in 0..l : ~Fits(n)}
<1>5. ASSUME S # {} PROVE FALSE
  <2>1. PICK m \in S : \A k \in S : m <= k
    <3>1. S \in SUBSET Nat
      BY SMT
    <3> HIDE DEF S
    <3> QED
      BY <1>5, <3>1, LeastOfSet, Zenon
  <2>2. m # 0
    <3>1. totals[0] = 0
      BY <1>1, <1>4, SMT
    <3>2. Cells(seq, 0) = {}
      BY SMT DEF Cells
    <3>3. Fits(0)
      BY <3>1, <3>2, FS_EmptySet, Zenon
    <3> QED
      BY <2>1, <3>3, Zenon
  <2>3. PICK k \in 0..l : k = m - 1 /\ k \notin S /\ m \in 1..l
    <3>1. m - 1 \in 0..l /\ ~(m <= m - 1) /\ m \in 1..l
      BY <2>1, <2>2, SMT
    <3> QED
      BY <2>1, <3>1, Zenon
  <2>4. totals[m] = totals[k] + seq[m]
    BY <1>4, <2>1, <2>2, <2>3, Zenon
  <2>5. Fits(k)
    BY <2>3, Zenon
  <2>6. PICK v \in Nat : v = seq[m]
    BY <1>1, <2>3, SMT
  <2> DEFINE row == {m} \X (1..v)
  <2>7. IsFiniteSet(row) /\ Cardinality(row) = v
    <3>1. 1 \in Int /\ v \in Int /\ (IF 1 > v THEN 0 ELSE v - 1 + 1) = v
      BY SMT
    <3>2. IsFiniteSet(1..v) /\ Cardinality(1..v) = v
      BY <3>1, FS_Interval, Zenon
    <3>3. IsFiniteSet({m}) /\ Cardinality({m}) = 1
      BY FS_Singleton, Zenon
    <3>4. IsFiniteSet(row) /\ Cardinality(row) = 1 * v
      BY <3>2, <3>3, FS_Product, Zenon
    <3> QED
      BY <3>4, SMT
  <2>8. Cells(seq, m) = Cells(seq, k) \union row /\ Cells(seq, k) \intersect row = {}
    BY <2>3, <2>6, SMT DEF Cells
  <2> HIDE DEF row
  <2>9. /\ IsFiniteSet(Cells(seq, m))
        /\ Cardinality(Cells(seq, m)) = Cardinality(Cells(seq, k)) + v - Cardinality({})
    <3>1. PICK cells, added : cells = Cells(seq, k) /\ added = row
      BY Zenon
    <3>2. IsFiniteSet(cells) /\ IsFiniteSet(added)
      BY <2>5, <2>7, <3>1, Zenon
    <3>3. /\ IsFiniteSet(cells \union added)
          /\ Cardinality(cells \union added)
               = Cardinality(cells) + Cardinality(added) - Cardinality(cells \intersect added)
      BY ONLY <3>2, FS_Union, Zenon
    <3> QED
      BY <2>7, <2>8, <3>1, <3>3, Zenon
  <2>10. Cardinality({}) = 0 /\ Cardinality(Cells(seq, k)) \in Nat
    BY <2>5, FS_EmptySet, FS_CardinalityType, Zenon
  <2>11. totals[m] = Cardinality(Cells(seq, m))
    <3>1. totals[k] = Cardinality(Cells(seq, k))
      BY <2>5, Zenon
    <3> QED
      BY <2>4, <2>6, <2>9, <2>10, <3>1, SMT
  <2> QED
    BY <2>1, <2>9, <2>11, Zenon
<1>6. Fits(l)
  <2>1. l \in 0..l
    BY <1>1, SMT
  <2> QED
    BY <1>5, <2>1, Zenon
<1> QED
  BY <1>1, <1>3, <1>6, Zenon

\* Numbers that are the same add up to the same.
LEMMA MatchTotals ==
    ASSUME NEW s \in Seq(Nat), NEW t \in Seq(Nat), NEW p, Match(s, t, p)
    PROVE  Total(t) = Total(s)
<1>1. PICK l \in Nat, m \in Nat : l = Len(s) /\ m = Len(t) /\ DOMAIN s = 1..l /\ DOMAIN t = 1..m
  BY SMT
<1>2. /\ \A n \in 1..l : p[n] \in 1..m /\ t[p[n]] = s[n]
      /\ \A j \in 1..m : \E n \in 1..l : j = p[n]
      /\ \A i, n \in 1..l : p[i] = p[n] => i = n
  <2>1. /\ \A n \in DOMAIN s : p[n] \in DOMAIN t /\ t[p[n]] = s[n]
        /\ \A j \in DOMAIN t : \E n \in DOMAIN s : j = p[n]
        /\ \A i, n \in DOMAIN s : p[i] = p[n] => i = n
    BY MatchFits
  <2> QED
    BY <1>1, <2>1, Zenon
<1> DEFINE A == Cells(s, l)
           B == Cells(t, m)
           f == [c \in A |-> <<p[c[1]], c[2]>>]
<1>3. /\ \A c \in A : c[1] \in 1..l /\ c[2] \in Nat /\ c[2] \in 1..s[c[1]] /\ c = <<c[1], c[2]>>
      /\ \A c \in B : c[1] \in 1..m /\ c[2] \in Nat /\ c[2] \in 1..t[c[1]] /\ c = <<c[1], c[2]>>
  BY SMT DEF Cells
<1>4. /\ \A i \in 1..l, k \in Nat : k \in 1..s[i] => <<i, k>> \in A
      /\ \A i \in 1..m, k \in Nat : k \in 1..t[i] => <<i, k>> \in B
  BY SMT DEF Cells
<1> HIDE DEF A, B
<1>5. ASSUME NEW c \in A PROVE f[c] = <<p[c[1]], c[2]>> /\ f[c] \in B
  <2>1. f[c] = <<p[c[1]], c[2]>>
    BY Zenon
  <2>2. p[c[1]] \in 1..m /\ t[p[c[1]]] = s[c[1]] /\ c[2] \in Nat /\ c[2] \in 1..s[c[1]]
    BY <1>2, <1>3, Zenon
  <2>3. <<p[c[1]], c[2]>> \in B
    BY <1>4, <2>2, Zenon
  <2> QED
    BY <2>1, <2>3, Zenon
<1>6. f \in [A -> B]
  BY <1>5, Zenon
<1> HIDE DEF f
<1>7. ASSUME NEW c \in A, NEW d \in A, f[c] = f[d] PROVE c = d
  <2>1. p[c[1]] = p[d[1]] /\ c[2] = d[2]
    BY <1>5, <1>7, SMT
  <2>2. c[1] = d[1]
    BY <1>2, <1>3, <2>1
  <2> QED
    BY <1>3, <2>1, <2>2, Zenon
<1>8. ASSUME NEW d \in B PROVE \E c \in A : f[c] = d
  <2>1. PICK n \in 1..l : p[n] = d[1]
    BY <1>2, <1>3
  <2>2. d[2] \in Nat /\ d[2] \in 1..s[n] /\ d = <<d[1], d[2]>>
    BY <1>2, <1>3, <2>1, Zenon
  <2>3. PICK c \in A : c = <<n, d[2]>>
    BY <1>4, <2>2, Zenon
  <2>4. c[1] = n /\ c[2] = d[2]
    BY <2>3, SMT
  <2>5. f[c] = d
    BY <1>5, <2>1, <2>2, <2>4, Zenon
  <2> QED
    BY <2>5, Zenon
<1>9. f \in Bijection(A, B)
  BY <1>6, <1>7, <1>8, Zenon DEF Bijection, Injection, Surjection, IsInjective
<1>10. Cardinality(B) = Cardinality(A)
  <2>1. IsFiniteSet(A)
    BY <1>1, TotalCounts, Zenon DEF A
  <2> QED
    BY <1>9, <2>1, FS_Bijection, Zenon DEF ExistsBijection
<1>11. Total(s) = Cardinality(A) /\ Total(t) = Cardinality(B)
  BY <1>1, TotalCounts, Zenon DEF A, B
<1> QED
  BY <1>10, <1>11, Zenon

\* An entry whose volume is a number.
IsSound(e, a) == \E u, n, d, c : \E v \in Nat : e = EntryOf(a, u, n, d, c, v)

\* Any entry with such a volume is one.
LEMMA SoundForm ==
    ASSUME NEW a, NEW u, NEW n, NEW d, NEW c, NEW v \in Nat
    PROVE  IsSound(EntryOf(a, u, n, d, c, v), a)
BY Zenon DEF IsSound

\* What such an entry is of.
LEMMA SoundFields ==
    ASSUME NEW e, NEW a, IsSound(e, a)
    PROVE  e.author = a /\ e.result.volume \in Nat
<1>1. PICK u, n, d, c : \E v \in Nat : e = EntryOf(a, u, n, d, c, v)
  BY Zenon DEF IsSound
<1>2. PICK v \in Nat : e = EntryOf(a, u, n, d, c, v)
  BY <1>1, Zenon
<1>3. e.author = a /\ e.result.volume = v
  BY <1>2, SMT DEF EntryOf
<1> QED
  BY <1>3, Zenon

\* It stays one with another narrative, level or volume.
LEMMA SoundStays ==
    ASSUME NEW e, NEW a, IsSound(e, a), NEW w
    PROVE  /\ IsSound([e EXCEPT !.result["narrative"] = w], a)
           /\ IsSound([e EXCEPT !.result["contribution"] = w], a)
           /\ w \in Nat => IsSound([e EXCEPT !.result["volume"] = w], a)
<1>1. PICK u, n, d, c : \E v \in Nat : e = EntryOf(a, u, n, d, c, v)
  BY Zenon DEF IsSound
<1>2. PICK v \in Nat : e = EntryOf(a, u, n, d, c, v)
  BY <1>1, Zenon
<1>3. [e EXCEPT !.result["narrative"] = w] = EntryOf(a, u, w, d, c, v)
  BY <1>2, SMT DEF EntryOf
<1>4. [e EXCEPT !.result["contribution"] = w] = EntryOf(a, u, n, d, w, v)
  BY <1>2, SMT DEF EntryOf
<1>5. [e EXCEPT !.result["volume"] = w] = EntryOf(a, u, n, d, c, w)
  BY <1>2, SMT DEF EntryOf
<1>6. /\ IsSound(EntryOf(a, u, w, d, c, v), a) /\ IsSound(EntryOf(a, u, n, d, w, v), a)
      /\ w \in Nat => IsSound(EntryOf(a, u, n, d, c, w), a)
  BY SoundForm, Zenon
<1> QED
  BY <1>3, <1>4, <1>5, <1>6, Zenon

\* A mark leaves it one.
LEMMA MarkedIsSound ==
    ASSUME NEW E, NEW i \in DOMAIN E, NEW a, IsSound(E[i], a), NEW signal, NEW mark
    PROVE  DOMAIN Annotate(E, mark, signal) = DOMAIN E /\ IsSound(Annotate(E, mark, signal)[i], a)
<1>1. Annotate(E, mark, signal)[i] = E[i]
      \/ \E w : Annotate(E, mark, signal)[i] = [E[i] EXCEPT !.result["narrative"] = w]
  BY Zenon DEF Annotate, Adjust, Every
<1>2. ASSUME NEW w PROVE IsSound([E[i] EXCEPT !.result["narrative"] = w], a)
  BY SoundStays, Zenon
<1>3. DOMAIN Annotate(E, mark, signal) = DOMAIN E
  BY MarkedPlaces, Zenon
<1> QED
  BY <1>1, <1>2, <1>3, Zenon

\* A lift and the floor leave it one.
LEMMA LeveledIsSound ==
    ASSUME NEW E, NEW i \in DOMAIN E, NEW a, IsSound(E[i], a), NEW signal
    PROVE  IsSound(Uplift(E, signal)[i], a) /\ IsSound(ApplyQualityFloor(E, signal)[i], a)
<1>1. Uplift(E, signal)[i] = E[i]
      \/ \E w : Uplift(E, signal)[i] = [E[i] EXCEPT !.result["contribution"] = w]
  BY Zenon DEF Uplift, Adjust, Every
<1>2. ApplyQualityFloor(E, signal)[i] = E[i]
      \/ \E w : ApplyQualityFloor(E, signal)[i] = [E[i] EXCEPT !.result["contribution"] = w]
  BY Zenon DEF ApplyQualityFloor, Adjust, Every
<1>3. ASSUME NEW w PROVE IsSound([E[i] EXCEPT !.result["contribution"] = w], a)
  BY SoundStays, Zenon
<1> QED
  BY <1>1, <1>2, <1>3, Zenon

\* The neutralisation of update counts leaves it one.
LEMMA NeutralIsSound ==
    ASSUME NEW E, NEW i \in DOMAIN E, NEW a, IsSound(E[i], a), NEW signal
    PROVE  IsSound(ApplyUpdateCount(E, signal)[i], a)
<1>1. PICK v \in Nat : v = E[i].result.volume
  BY SoundFields, Zenon
<1>2. Max({0, v}) = v
  <2>1. Max({0, v}) \in {0, v} /\ \A y \in {0, v} : Max({0, v}) >= y
    <3>1. \E x \in {0, v} : \A y \in {0, v} : x >= y
      BY SMT
    <3> QED
      BY <3>1, Zenon DEF Max
  <2> QED
    BY <2>1, SMT
<1>3. ApplyUpdateCount(E, signal)[i] = E[i]
      \/ ApplyUpdateCount(E, signal)[i] = [E[i] EXCEPT !.result["volume"] = Max({0, v})]
  BY <1>1, Zenon DEF ApplyUpdateCount, Adjust, Every
<1>4. IsSound([E[i] EXCEPT !.result["volume"] = v], a)
  BY SoundStays, Zenon
<1> QED
  BY <1>2, <1>3, <1>4, Zenon

\* A penalty for abuse leaves it one.
LEMMA PenaltyIsSound ==
    ASSUME NEW E, NEW i \in DOMAIN E, NEW a, IsSound(E[i], a), NEW signal,
           NEW count \in Nat, NEW lows \in Nat, count > 0, lows <= count,
           signal[a] = AbuseOf(count, lows)
    PROVE  IsSound(ApplyAbuse(E, signal)[i], a)
<1>1. PICK v \in Nat : v = E[i].result.volume /\ E[i].author = a
  BY SoundFields, Zenon
<1>2. signal[a].count = count /\ signal[a].repeated = lows
  BY SMT DEF AbuseOf
<1>3. PICK w \in Nat : w = (v * (count - lows)) \div count
  <2>1. count - lows \in Nat
    BY SMT
  <2>2. v * (count - lows) \in Nat
    BY <2>1, SMT
  <2> QED
    BY <2>2, DivFits, Zenon
<1>4. ApplyAbuse(E, signal)[i] = E[i]
      \/ ApplyAbuse(E, signal)[i] = [E[i] EXCEPT !.result["volume"] = w]
  <2>1. (E[i].result.volume * (signal[E[i].author].count - signal[E[i].author].repeated))
           \div signal[E[i].author].count = w
    BY <1>1, <1>2, <1>3, Zenon
  <2> QED
    BY <2>1, Zenon DEF ApplyAbuse, Adjust, Every
<1>5. IsSound([E[i] EXCEPT !.result["volume"] = w], a)
  BY SoundStays, Zenon
<1> QED
  BY <1>4, <1>5, Zenon

\* The volume of a result is a number.
LEMMA VolumesFit ==
    ASSUME NEW T, NEW units \in Seq(T), \A x \in T : x.titleLength \in Nat,
           NEW i \in DOMAIN units, NEW routing, NEW generate
    PROVE  ResultsOf(units, routing, generate)[i].volume \in Nat
<1> DEFINE E == EntriesFor(units, routing, generate)
           a == units[i].author
           signals == Signals(units)
<1>1. DOMAIN E = DOMAIN units /\ IsSound(E[i], a)
  <2>1. DOMAIN E = DOMAIN units
        /\ E[i] = [author |-> a, result |-> ScoreUnit(units[i], routing, generate)]
    BY Zenon DEF EntriesFor, Every
  <2>2. units[i].titleLength \in Nat
    <3>1. units[i] \in T
      BY SMT
    <3> QED
      BY <3>1, Zenon
  <2>3. \E u, n, d, c : ScoreUnit(units[i], routing, generate) =
            [unit |-> u, narrative |-> n, difficulty |-> d, contribution |-> c,
             volume |-> units[i].titleLength]
    BY Zenon DEF ScoreUnit, Volume
  <2> HIDE DEF E
  <2> QED
    BY <2>1, <2>2, <2>3, Zenon DEF IsSound, EntryOf
<1>2. PICK count \in Nat, lows \in Nat :
          count > 0 /\ lows <= count /\ signals.abuse[a] = AbuseOf(count, lows)
  <2>1. i \in Of(units, a) /\ Of(units, a) \in SUBSET DOMAIN units
    BY Zenon DEF Of
  <2>2. Lows(units, a) \in SUBSET Of(units, a) /\ IsFiniteSet(Of(units, a))
    BY <2>1, PlacesAreFinite, Zenon DEF Lows
  <2>3. /\ Cardinality(Of(units, a)) \in Nat /\ Cardinality(Lows(units, a)) \in Nat
        /\ Cardinality(Lows(units, a)) <= Cardinality(Of(units, a))
    BY <2>2, FS_Subset, FS_CardinalityType, Zenon
  <2>4. Cardinality(Of(units, a)) # 0
    BY <2>1, <2>2, FS_EmptySet, Zenon
  <2>5. Cardinality(Of(units, a)) > 0
    BY <2>3, <2>4, SMT
  <2>6. signals.abuse = AbuseSignal(units)
    BY SMT DEF Signals
  <2>7. a \in Authors(units)
    BY Zenon DEF Authors
  <2>8. signals.abuse[a] = AbuseOf(Cardinality(Of(units, a)), Cardinality(Lows(units, a)))
    BY <2>6, <2>7, AbuseForm, Zenon
  <2> QED
    BY <2>3, <2>5, <2>8, Zenon
<1> HIDE DEF E, a, signals
<1> DEFINE e1 == Volumes(E, signals)
           e2 == Floors(e1, signals)
           e3 == Notables(e2, signals)
           e4 == Documents(e3, signals)
           e5 == Uplift(e4, signals.research)
<1>3. DOMAIN e1 = DOMAIN E /\ IsSound(e1[i], a)
  <2>1. DOMAIN ApplyAbuse(E, signals.abuse) = DOMAIN E
        /\ IsSound(ApplyAbuse(E, signals.abuse)[i], a)
    BY <1>1, <1>2, PenaltyIsSound, AdjustedPlaces
  <2> QED
    BY <1>1, <2>1, NeutralIsSound, AdjustedPlaces DEF Volumes
<1> HIDE DEF e1
<1>4. DOMAIN e2 = DOMAIN E /\ IsSound(e2[i], a)
  <2> DEFINE e == ApplyQualityFloor(e1, signals.quality)
  <2>1. DOMAIN e = DOMAIN E /\ IsSound(e[i], a)
    BY <1>1, <1>3, LeveledIsSound, AdjustedPlaces
  <2>2. e2 = Annotate(e, "under", signals.under)
    BY Zenon DEF Floors
  <2> HIDE DEF e, e2
  <2> QED
    BY <1>1, <2>1, <2>2, MarkedIsSound
<1> HIDE DEF e2
<1>5. DOMAIN e3 = DOMAIN E /\ IsSound(e3[i], a)
  <2> DEFINE e == Annotate(e2, "notable", signals.notable)
  <2>1. DOMAIN e = DOMAIN E /\ IsSound(e[i], a)
    BY <1>1, <1>4, MarkedIsSound
  <2>2. e3 = Uplift(e, signals.notable)
    BY Zenon DEF Notables
  <2> HIDE DEF e, e3
  <2> QED
    BY <1>1, <2>1, <2>2, LeveledIsSound, AdjustedPlaces
<1> HIDE DEF e3
<1>6. DOMAIN e4 = DOMAIN E /\ IsSound(e4[i], a)
  <2> DEFINE e == Uplift(e3, signals.document)
  <2>1. DOMAIN e = DOMAIN E /\ IsSound(e[i], a)
    BY <1>1, <1>5, LeveledIsSound, AdjustedPlaces
  <2>2. e4 = Annotate(e, "document", signals.document)
    BY Zenon DEF Documents
  <2> HIDE DEF e, e4
  <2> QED
    BY <1>1, <2>1, <2>2, MarkedIsSound
<1> HIDE DEF e4
<1>7. DOMAIN e5 = DOMAIN E /\ IsSound(e5[i], a)
  BY <1>1, <1>6, LeveledIsSound, AdjustedPlaces
<1>8. Adjusted(E, signals) = e5
  BY Zenon DEF Adjusted, e1, e2, e3, e4
<1> HIDE DEF e5
<1>9. ResultsOf(units, routing, generate) = Every(e5, LAMBDA e : e.result)
  BY <1>8, AdjustmentsForm, Zenon DEF ResultsOf, E, signals
<1>10. ResultsOf(units, routing, generate)[i] = e5[i].result
  BY <1>1, <1>7, <1>9, Zenon DEF Every
<1> QED
  BY <1>7, <1>10, SoundFields, Zenon

Levels == {"zero", "low", "medium", "high"}

\* The level of a result is one of the four.
LEMMA LevelsFit ==
    ASSUME NEW activities, NEW routing, NEW generate, NEW units,
           units = ExcludeSelfFollowUps(DedupTemporal(Every(activities, Input))),
           NEW i \in DOMAIN units
    PROVE  LET results == EvaluateActivities(activities, routing, generate)
           IN  DOMAIN results = DOMAIN units /\ results[i].contribution \in Levels
<1>1. PICK results : results = EvaluateActivities(activities, routing, generate)
  BY Zenon
<1>2. DOMAIN results = DOMAIN units /\ LevelStands(units, routing, generate, results, i)
  BY <1>1, TrivialUnitsStayAtZero, Zenon
<1>3. ScoreUnit(units[i], routing, generate).contribution \in Levels
  <2>1. \E answer : ScoreUnit(units[i], routing, generate).contribution
                       = Classify(answer).contribution
    BY SMT DEF ScoreUnit
  <2>2. ASSUME NEW answer PROVE Classify(answer).contribution \in Levels
    BY SMT DEF Classify, Levels
  <2> QED
    BY <2>1, <2>2, Zenon
<1>4. results[i].contribution \in Levels
  BY <1>2, <1>3, Zenon DEF LevelStands, Levels
<1> QED
  BY <1>1, <1>2, <1>4, Zenon

\* The scores of the levels are numbers.
LEMMA ScoresAreNumbers ==
    ASSUME NEW level \in Levels
    PROVE  Score(level) \in Nat
BY SMT DEF Score, Levels

\* What is stored, in whatever order.
Unordered(stored) ==
    [stored EXCEPT !.contributions = ToSet(@), !.narrative = ToSet(@)]
Contribution(r) ==
    [sourceType |-> SourceType(r.unit), sourceRef |-> r.unit, difficulty |-> r.difficulty,
     contributionScore |-> Score(r.contribution), volume |-> r.volume]
StoredOf(contributions, difficulty, scoreSum, count, volume, narrative) ==
    [contributions |-> contributions, difficulty |-> difficulty, scoreSum |-> scoreSum,
     count |-> count, volume |-> volume, narrative |-> narrative]

\* What is stored, field by field.
LEMMA UnorderedForm ==
    ASSUME NEW results
    PROVE  Unordered(MapResultsToAssessment(results)) =
              StoredOf({Contribution(results[i]) : i \in DOMAIN results},
                       Hardest({results[i].difficulty : i \in DOMAIN results}),
                       Total(Every(results, LAMBDA r : Score(r.contribution))),
                       Len(results),
                       Total(Every(results, LAMBDA r : r.volume)),
                       {results[i].narrative : i \in DOMAIN results})
<1> DEFINE c == Every(results, Contribution)
           n == Every(results, LAMBDA r : r.narrative)
           d == Hardest({results[i].difficulty : i \in DOMAIN results})
           s == Total(Every(results, LAMBDA r : Score(r.contribution)))
           v == Total(Every(results, LAMBDA r : r.volume))
<1>1. MapResultsToAssessment(results) = StoredOf(c, d, s, Len(results), v, n)
  BY Zenon DEF MapResultsToAssessment, StoredOf, Contribution, Every
<1>2. ToSet(c) = {Contribution(results[i]) : i \in DOMAIN results}
      /\ ToSet(n) = {results[i].narrative : i \in DOMAIN results}
  <2>1. DOMAIN c = DOMAIN results /\ \A i \in DOMAIN results : c[i] = Contribution(results[i])
    BY Zenon DEF Every
  <2>2. DOMAIN n = DOMAIN results /\ \A i \in DOMAIN results : n[i] = results[i].narrative
    BY Zenon DEF Every
  <2> HIDE DEF c, n
  <2>3. ToSet(c) = {Contribution(results[i]) : i \in DOMAIN results}
    BY <2>1 DEF ToSet
  <2>4. ToSet(n) = {results[i].narrative : i \in DOMAIN results}
    BY <2>2 DEF ToSet
  <2> QED
    BY <2>3, <2>4, Zenon
<1> HIDE DEF c, n, d, s, v
<1>3. ASSUME NEW a, NEW b, NEW e, NEW f, NEW g, NEW h
      PROVE  Unordered(StoredOf(a, b, e, f, g, h)) = StoredOf(ToSet(a), b, e, f, g, ToSet(h))
  <2>1. StoredOf(a, b, e, f, g, h).contributions = a /\ StoredOf(a, b, e, f, g, h).narrative = h
    BY SMT DEF StoredOf
  <2>2. ASSUME NEW x, NEW y
        PROVE  [StoredOf(a, b, e, f, g, h) EXCEPT !.contributions = x, !.narrative = y]
                  = StoredOf(x, b, e, f, g, y)
    <3>1. PICK r, q : r = StoredOf(a, b, e, f, g, h) /\ q = StoredOf(x, b, e, f, g, h)
      BY Zenon
    <3>2. [r EXCEPT !.contributions = x] = q
      BY <3>1, SMT DEF StoredOf
    <3>3. [q EXCEPT !.narrative = y] = StoredOf(x, b, e, f, g, y)
      BY <3>1, SMT DEF StoredOf
    <3>4. [r EXCEPT !.contributions = x, !.narrative = y]
             = [[r EXCEPT !.contributions = x] EXCEPT !.narrative = y]
      BY ONLY SMT
    <3> QED
      BY <3>1, <3>2, <3>3, <3>4, Zenon
  <2> QED
    BY <2>1, <2>2, Zenon DEF Unordered
<1>4. Unordered(MapResultsToAssessment(results))
         = StoredOf(ToSet(c), d, s, Len(results), v, ToSet(n))
  <2>1. PICK count : count = Len(results)
    BY Zenon
  <2>2. Unordered(StoredOf(c, d, s, count, v, n)) = StoredOf(ToSet(c), d, s, count, v, ToSet(n))
    BY <1>3
  <2> QED
    BY <1>1, <2>1, <2>2, Zenon
<1> QED
  BY <1>2, <1>4, Zenon DEF d, s, v

\* A function of the first numbers is a sequence.
LEMMA SequenceOf ==
    ASSUME NEW T, NEW l \in Nat, NEW a, a = [i \in 1..l |-> a[i]], \A i \in 1..l : a[i] \in T
    PROVE  a \in Seq(T) /\ Len(a) = l
BY SMT

\* Results that are the same are stored as the same.
LEMMA MatchStored ==
    ASSUME NEW l \in Nat, NEW m \in Nat, NEW Q, DOMAIN Q = 1..l, Len(Q) = l,
           NEW R, DOMAIN R = 1..m, Len(R) = m, NEW p, Match(Q, R, p),
           \A i \in DOMAIN Q : Q[i].volume \in Nat /\ Q[i].contribution \in Levels
    PROVE  Unordered(MapResultsToAssessment(R)) = Unordered(MapResultsToAssessment(Q))
<1>1. /\ \A n \in DOMAIN Q : p[n] \in DOMAIN R /\ R[p[n]] = Q[n]
      /\ \A i \in DOMAIN R : \E n \in DOMAIN Q : i = p[n]
  <2>1. Match(Q, R, p)
    OBVIOUS
  <2> QED
    BY ONLY <2>1, MatchFits
<1>2. ASSUME NEW i \in DOMAIN R PROVE \E n \in DOMAIN Q : R[i] = Q[n]
  <2>1. PICK n \in DOMAIN Q : i = p[n]
    BY <1>1, Zenon
  <2> QED
    BY <1>1, <2>1, Zenon
<1>3. {Contribution(R[i]) : i \in DOMAIN R} = {Contribution(Q[i]) : i \in DOMAIN Q}
  <2>1. {Contribution(R[i]) : i \in DOMAIN R} \subseteq {Contribution(Q[i]) : i \in DOMAIN Q}
    BY <1>2
  <2>2. {Contribution(Q[i]) : i \in DOMAIN Q} \subseteq {Contribution(R[i]) : i \in DOMAIN R}
    BY <1>1
  <2> QED
    BY <2>1, <2>2, Zenon
<1>4. {R[i].difficulty : i \in DOMAIN R} = {Q[i].difficulty : i \in DOMAIN Q}
  <2>1. {R[i].difficulty : i \in DOMAIN R} \subseteq {Q[i].difficulty : i \in DOMAIN Q}
    BY <1>2
  <2>2. {Q[i].difficulty : i \in DOMAIN Q} \subseteq {R[i].difficulty : i \in DOMAIN R}
    BY <1>1
  <2> QED
    BY <2>1, <2>2, Zenon
<1>5. {R[i].narrative : i \in DOMAIN R} = {Q[i].narrative : i \in DOMAIN Q}
  <2>1. {R[i].narrative : i \in DOMAIN R} \subseteq {Q[i].narrative : i \in DOMAIN Q}
    BY <1>2
  <2>2. {Q[i].narrative : i \in DOMAIN Q} \subseteq {R[i].narrative : i \in DOMAIN R}
    BY <1>1
  <2> QED
    BY <2>1, <2>2, Zenon
<1>6. m = l
  <2>1. IsFiniteSet(1..l) /\ Cardinality(1..l) = l /\ Cardinality(1..m) = m
    <3>1. /\ 1 \in Int /\ l \in Int /\ m \in Int
          /\ (IF 1 > l THEN 0 ELSE l - 1 + 1) = l /\ (IF 1 > m THEN 0 ELSE m - 1 + 1) = m
      BY SMT
    <3> QED
      BY <3>1, FS_Interval, Zenon
  <2>2. p \in Bijection(1..l, 1..m)
    BY Zenon DEF Match
  <2> QED
    BY <2>1, <2>2, FS_Bijection, Zenon DEF ExistsBijection
<1>7. ASSUME NEW a, NEW b, DOMAIN a = DOMAIN Q, DOMAIN b = DOMAIN R, a = [i \in DOMAIN Q |-> a[i]],
             b = [i \in DOMAIN R |-> b[i]], \A i \in DOMAIN Q : a[i] \in Nat,
             \A i \in DOMAIN R : b[i] \in Nat, \A n \in DOMAIN Q : b[p[n]] = a[n]
      PROVE  Total(b) = Total(a)
  <2>1. a \in Seq(Nat) /\ b \in Seq(Nat)
    BY <1>7, SequenceOf, Zenon
  <2>2. Match(a, b, p)
    BY <1>7, Zenon DEF Match
  <2> QED
    BY <2>1, <2>2, MatchTotals, Zenon
<1>8. \A i \in DOMAIN R : R[i].volume \in Nat /\ R[i].contribution \in Levels
  BY <1>2, Zenon
<1>9. Total(Every(R, LAMBDA r : r.volume)) = Total(Every(Q, LAMBDA r : r.volume))
  <2> DEFINE a == Every(Q, LAMBDA r : r.volume)
             b == Every(R, LAMBDA r : r.volume)
  <2>1. /\ DOMAIN a = DOMAIN Q /\ DOMAIN b = DOMAIN R
        /\ \A i \in DOMAIN Q : a[i] = Q[i].volume
        /\ \A i \in DOMAIN R : b[i] = R[i].volume
        /\ a = [i \in DOMAIN Q |-> a[i]] /\ b = [i \in DOMAIN R |-> b[i]]
    BY Zenon DEF Every
  <2> HIDE DEF a, b
  <2>2. /\ \A i \in DOMAIN Q : a[i] \in Nat
        /\ \A i \in DOMAIN R : b[i] \in Nat
        /\ \A n \in DOMAIN Q : b[p[n]] = a[n]
    <3>1. ASSUME NEW n \in DOMAIN Q PROVE b[p[n]] = a[n]
      <4>1. PICK k \in DOMAIN R : k = p[n] /\ R[k] = Q[n]
        BY <1>1, Zenon
      <4> QED
        BY <2>1, <4>1, Zenon
    <3>2. \A i \in DOMAIN Q : Q[i].volume \in Nat
      OBVIOUS
    <3> QED
      BY <1>8, <2>1, <3>1, <3>2, Zenon
  <2>3. Total(b) = Total(a)
    BY <1>7, <2>1, <2>2, Zenon
  <2> QED
    BY <2>3, Zenon DEF a, b
<1>10. Total(Every(R, LAMBDA r : Score(r.contribution)))
          = Total(Every(Q, LAMBDA r : Score(r.contribution)))
  <2> DEFINE a == Every(Q, LAMBDA r : Score(r.contribution))
             b == Every(R, LAMBDA r : Score(r.contribution))
  <2>1. /\ DOMAIN a = DOMAIN Q /\ DOMAIN b = DOMAIN R
        /\ \A i \in DOMAIN Q : a[i] = Score(Q[i].contribution)
        /\ \A i \in DOMAIN R : b[i] = Score(R[i].contribution)
        /\ a = [i \in DOMAIN Q |-> a[i]] /\ b = [i \in DOMAIN R |-> b[i]]
    BY Zenon DEF Every
  <2> HIDE DEF a, b
  <2>2. /\ \A i \in DOMAIN Q : a[i] \in Nat
        /\ \A i \in DOMAIN R : b[i] \in Nat
        /\ \A n \in DOMAIN Q : b[p[n]] = a[n]
    <3>1. ASSUME NEW n \in DOMAIN Q PROVE b[p[n]] = a[n]
      <4>1. PICK k \in DOMAIN R : k = p[n] /\ R[k] = Q[n]
        BY <1>1, Zenon
      <4> QED
        BY <2>1, <4>1, Zenon
    <3>2. \A i \in DOMAIN Q : Q[i].contribution \in Levels
      OBVIOUS
    <3> QED
      BY <1>8, <2>1, <3>1, <3>2, ScoresAreNumbers, Zenon
  <2>3. Total(b) = Total(a)
    BY <1>7, <2>1, <2>2, Zenon
  <2> QED
    BY <2>3, Zenon DEF a, b
<1> QED
  BY <1>3, <1>4, <1>5, <1>6, <1>9, <1>10, UnorderedForm, Zenon

\* What is stored of an evaluation does not depend on the order of the activities,
\* but where two of one unit are of one time (evaluation-dedup.ts:84).
THEOREM OrderChangesNothing ==
    ASSUME NEW T, NEW s \in Seq(T), NEW t \in Seq(T),
           \A a \in T : a.at \in Nat /\ a.titleLength \in Nat,
           SameActivities(s, t), NoTies(s), NEW routing, NEW generate
    PROVE  Unordered(MapResultsToAssessment(EvaluateActivities(t, routing, generate)))
              = Unordered(MapResultsToAssessment(EvaluateActivities(s, routing, generate)))
<1> DEFINE I == {Input(a) : a \in T}
<1>1. \A a \in T : a.at \in Nat
  BY Zenon
<1>2. \A x \in I : x.titleLength \in Nat
  BY InputFields
<1>3. PICK U : /\ U = DedupTemporal(Every(s, Input)) /\ ExcludeSelfFollowUps(U) = U
               /\ U \in Seq(I) /\ \E g : IsUnits(U, s, g)
  BY <1>1, UnitsAre, Zenon
<1>4. PICK V : /\ V = DedupTemporal(Every(t, Input)) /\ ExcludeSelfFollowUps(V) = V
               /\ V \in Seq(I) /\ \E g : IsUnits(V, t, g)
  BY <1>1, UnitsAre, Zenon
<1> HIDE DEF I
<1>5. PICK p : Match(U, V, p)
  <2>1. PICK g : IsUnits(U, s, g)
    BY <1>3, Zenon
  <2>2. PICK h : IsUnits(V, t, h)
    BY <1>4, Zenon
  <2> QED
    BY <1>1, <2>1, <2>2, UnitsMatch
<1>6. PICK Q, R : /\ Q = EvaluateActivities(s, routing, generate)
                  /\ R = EvaluateActivities(t, routing, generate)
  BY Zenon
<1>7. Q = ResultsOf(U, routing, generate) /\ R = ResultsOf(V, routing, generate)
  BY <1>3, <1>4, <1>6, Zenon DEF EvaluateActivities, ResultsOf, EntriesFor
<1>8. DOMAIN Q = DOMAIN U /\ DOMAIN R = DOMAIN V /\ Match(Q, R, p)
  BY <1>3, <1>4, <1>5, <1>7, ResultsMatch
<1>9. PICK l \in Nat, m \in Nat : DOMAIN Q = 1..l /\ DOMAIN R = 1..m
  BY <1>3, <1>4, <1>8, SMT
<1>10. Len(Q) = l /\ Len(R) = m
  BY <1>9, SMT
<1>11. ASSUME NEW i \in DOMAIN Q PROVE Q[i].volume \in Nat /\ Q[i].contribution \in Levels
  <2>1. Q[i].volume \in Nat
    BY <1>2, <1>3, <1>7, <1>8, VolumesFit
  <2>2. Q[i].contribution \in Levels
    BY <1>3, <1>6, <1>8, LevelsFit, Zenon
  <2> QED
    BY <2>1, <2>2, Zenon
<1>12. Unordered(MapResultsToAssessment(R)) = Unordered(MapResultsToAssessment(Q))
  <2>1. \A i \in DOMAIN Q : Q[i].volume \in Nat /\ Q[i].contribution \in Levels
    BY <1>11, Zenon
  <2>2. Match(Q, R, p)
    BY <1>8, Zenon
  <2> QED
    BY ONLY <1>9, <1>10, <2>1, <2>2, MatchStored, l \in Nat, m \in Nat
<1> QED
  BY <1>6, <1>12, Zenon

\* A unit is trivial by its own title: no other unit is the same.
LEMMA TrivialByTitle ==
    ASSUME NEW units, NEW acts, NEW g, IsUnits(units, acts, g), NEW i \in DOMAIN units
    PROVE  IsTrivial(units, i) <=> acts[g[i]].titleLength <= TITLE_FLOOR
<1>1. \A n \in DOMAIN units : /\ units[n].unit = Unit(acts[g[n]])
                              /\ units[n].titleLength = acts[g[n]].titleLength
  BY InputFields DEF IsUnits
<1>2. ASSUME NEW j \in DOMAIN units, units[j].unit = units[i].unit PROVE j = i
  <2>1. Unit(acts[g[j]]) = Unit(acts[g[i]])
    BY <1>1, <1>2, Zenon
  <2> QED
    BY <2>1, Zenon DEF IsUnits
<1> QED
  BY <1>1, <1>2, Zenon DEF IsTrivial

\* A result is of the earliest of an activity's unit, and has the level that is due to it.
LevelIsOf(acts, routing, generate, results, i, a) ==
    LET answered == ScoreUnit(Input(a), routing, generate).contribution
        level == results[i].contribution
    IN  /\ results[i].unit = Unit(a)
        /\ \A j \in DOMAIN acts : Unit(acts[j]) = Unit(a) => a.at <= acts[j].at
        /\ a.titleLength <= TITLE_FLOOR => level = "zero"
        /\ a.titleLength > TITLE_FLOOR => level = answered \/ (level = "high" /\ answered # "zero")

\* Each result is of the earliest activity of its unit, and that one's title and what
\* the model answered tell its level (evaluation-quality-adjust.ts:119).
THEOREM LevelsAreOfTheEarliest ==
    ASSUME NEW T, NEW acts \in Seq(T), \A a \in T : a.at \in Nat /\ a.titleLength \in Nat,
           NEW routing, NEW generate
    PROVE  LET results == EvaluateActivities(acts, routing, generate)
           IN  \A i \in DOMAIN results : \E k \in DOMAIN acts :
                   LevelIsOf(acts, routing, generate, results, i, acts[k])
<1> DEFINE results == EvaluateActivities(acts, routing, generate)
<1>1. \A a \in T : a.at \in Nat
  BY Zenon
<1>2. PICK units : /\ units = DedupTemporal(Every(acts, Input))
                   /\ ExcludeSelfFollowUps(units) = units
                   /\ \E h : IsUnits(units, acts, h)
  BY <1>1, UnitsAre, Zenon
<1>3. PICK g : IsUnits(units, acts, g)
  BY <1>2, Zenon
<1>4. units = ExcludeSelfFollowUps(DedupTemporal(Every(acts, Input)))
  BY <1>2, Zenon
<1>5. ASSUME NEW i \in DOMAIN units
      PROVE  DOMAIN results = DOMAIN units /\ LevelStands(units, routing, generate, results, i)
  BY <1>4, TrivialUnitsStayAtZero, Zenon
<1>6. DOMAIN results = DOMAIN units
  <2>1. results = ResultsOf(units, routing, generate)
    BY <1>4, Zenon DEF EvaluateActivities, ResultsOf, EntriesFor
  <2> HIDE DEF results
  <2> QED
    BY <2>1, ResultsArePlaced
<1> HIDE DEF results
<1>7. ASSUME NEW i \in DOMAIN results
      PROVE  \E k \in DOMAIN acts : LevelIsOf(acts, routing, generate, results, i, acts[k])
  <2>1. PICK k \in DOMAIN acts : k = g[i] /\ i \in DOMAIN units /\ units[i] = Input(acts[k])
    BY <1>3, <1>6, Zenon DEF IsUnits
  <2>2. units[i].unit = Unit(acts[k])
    BY <2>1, InputFields, Zenon
  <2>3. \A j \in DOMAIN acts : Unit(acts[j]) = Unit(acts[k]) => acts[k].at <= acts[j].at
    BY <1>3, <2>1, Zenon DEF IsUnits
  <2>4. IsTrivial(units, i) <=> acts[k].titleLength <= TITLE_FLOOR
    BY <1>3, <2>1, TrivialByTitle, Zenon
  <2>5. acts[k].titleLength > TITLE_FLOOR => ~(acts[k].titleLength <= TITLE_FLOOR)
    <3>1. acts[k] \in T
      BY SMT
    <3>2. PICK n \in Nat : n = acts[k].titleLength
      BY <3>1, Zenon
    <3>3. n > TITLE_FLOOR => ~(n <= TITLE_FLOOR)
      BY SMT DEF TITLE_FLOOR
    <3> QED
      BY <3>2, <3>3, Zenon
  <2>6. LevelStands(units, routing, generate, results, i)
    BY <1>5, <2>1, Zenon
  <2>7. LevelIsOf(acts, routing, generate, results, i, acts[k])
    BY <2>1, <2>2, <2>3, <2>4, <2>5, <2>6, Zenon DEF LevelStands, LevelIsOf
  <2> QED
    BY <2>7, Zenon
<1> QED
  BY <1>7, Zenon DEF results

\* Where no instance gave two activities one number, each is evaluated
\* (evaluation-input.mapper.ts:46).
THEOREM UnitsAreShared ==
    ASSUME NEW T, NEW acts \in Seq(T), \A a \in T : a.at \in Nat,
           \A i, j \in DOMAIN acts :
              acts[i].key = acts[j].key /\ acts[i].id = acts[j].id => acts[i] = acts[j],
           NEW routing, NEW generate
    PROVE  Len(EvaluateActivities(acts, routing, generate)) = Cardinality(ToSet(acts))
<1> DEFINE results == EvaluateActivities(acts, routing, generate)
           I == {Input(a) : a \in T}
<1>1. PICK units : /\ units = DedupTemporal(Every(acts, Input))
                   /\ ExcludeSelfFollowUps(units) = units /\ units \in Seq(I)
                   /\ \E h : IsUnits(units, acts, h)
  BY UnitsAre, Zenon
<1>2. PICK g : IsUnits(units, acts, g)
  BY <1>1, Zenon
<1> HIDE DEF I
<1>3. PICK l \in Nat : DOMAIN units = 1..l
  BY <1>1, SMT
<1>4. DOMAIN results = DOMAIN units
  <2>1. results = ResultsOf(units, routing, generate)
    BY <1>1, Zenon DEF EvaluateActivities, ResultsOf, EntriesFor
  <2> HIDE DEF results
  <2> QED
    BY <2>1, ResultsArePlaced
<1> HIDE DEF results
<1>5. Len(results) = l
  BY <1>3, <1>4, SMT
<1> DEFINE f == [n \in 1..l |-> acts[g[n]]]
<1>6. ASSUME NEW n \in 1..l PROVE f[n] = acts[g[n]] /\ g[n] \in DOMAIN acts /\ f[n] \in ToSet(acts)
  <2>1. g[n] \in DOMAIN acts
    BY <1>2, <1>3, Zenon DEF IsUnits
  <2> QED
    BY <2>1, Zenon DEF ToSet
<1>7. f \in [1..l -> ToSet(acts)]
  BY <1>6, Zenon
<1> HIDE DEF f
<1>8. ASSUME NEW i \in 1..l, NEW n \in 1..l, f[i] = f[n] PROVE i = n
  <2>1. Unit(acts[g[i]]) = Unit(acts[g[n]])
    BY <1>6, <1>8, Zenon
  <2> QED
    BY <1>2, <1>3, <2>1, Zenon DEF IsUnits
<1>9. ASSUME NEW a \in ToSet(acts) PROVE \E n \in 1..l : f[n] = a
  <2>1. PICK k \in DOMAIN acts : a = acts[k]
    BY Zenon DEF ToSet
  <2>2. PICK n \in 1..l : Unit(acts[g[n]]) = Unit(acts[k])
    BY <1>2, <1>3, Zenon DEF IsUnits
  <2>3. acts[g[n]].key = acts[k].key /\ acts[g[n]].id = acts[k].id
    BY <2>2, SMT DEF Unit
  <2>4. acts[g[n]] = acts[k]
    BY <1>6, <2>3, Zenon
  <2> QED
    BY <1>6, <2>1, <2>4, Zenon
<1>10. f \in Bijection(1..l, ToSet(acts))
  BY <1>7, <1>8, <1>9, Zenon DEF Bijection, Injection, Surjection, IsInjective
<1>11. IsFiniteSet(1..l) /\ Cardinality(1..l) = l
  <2>1. 1 \in Int /\ l \in Int /\ (IF 1 > l THEN 0 ELSE l - 1 + 1) = l
    BY SMT
  <2> QED
    BY <2>1, FS_Interval, Zenon
<1>12. Cardinality(ToSet(acts)) = l
  BY <1>10, <1>11, FS_Bijection, Zenon DEF ExistsBijection
<1> QED
  BY <1>5, <1>12, Zenon DEF results

------------------------------------------------------------------------------
(* Chunks of a dump. *)

ChunkCount(total, size) == (total + size - 1) \div size

\* The chunks are enough for the dump, and one less is not.
LEMMA CountFits ==
    ASSUME NEW total \in Nat, NEW size \in Nat, size > 0
    PROVE  /\ ChunkCount(total, size) \in Nat
           /\ total <= ChunkCount(total, size) * size
           /\ ChunkCount(total, size) * size < total + size
<1>1. PICK n \in Nat : n = total + size - 1
  BY SMT
<1>2. /\ n \div size \in Nat
      /\ (n \div size) * size <= n /\ n < (n \div size) * size + size
  BY DivFits, SMT
<1>3. PICK p \in Nat : p = (n \div size) * size
  BY <1>2, SMT
<1>4. total <= p /\ p < total + size
  BY <1>1, <1>2, <1>3, SMT
<1> QED
  BY <1>1, <1>2, <1>3, <1>4, SMT DEF ChunkCount

THEOREM ChunksTileDump ==
    ASSUME NEW total \in Nat, NEW size \in Nat, size > 0
    PROVE  LET plan == BuildPlan(total, size)
               count == ChunkCount(total, size)
           IN  /\ DOMAIN plan = 1..count
               /\ count = 0 <=> total = 0
               /\ \A i \in 1..count :
                     /\ plan[i].index = i - 1 /\ (plan[i].last <=> i = count)
                     /\ plan[i].size \in 1..size
                     /\ plan[i].offset = IF i = 1 THEN 0 ELSE plan[i - 1].offset + plan[i - 1].size
                     /\ i = count => plan[i].offset + plan[i].size = total
<1> DEFINE plan == BuildPlan(total, size)
<1>1. PICK count \in Nat : count = ChunkCount(total, size)
  BY CountFits, SMT
<1>2. total <= count * size /\ count * size < total + size /\ count * size \in Nat
  <2>1. /\ total <= ChunkCount(total, size) * size
        /\ ChunkCount(total, size) * size < total + size
    BY CountFits, SMT
  <2>2. count * size \in Nat
    BY SMT
  <2>3. total <= count * size /\ count * size < total + size
    BY <1>1, <2>1, Zenon
  <2> QED
    BY <2>2, <2>3, Zenon
<1>3. plan = [i \in 1..count |->
            [index |-> i - 1,
             offset |-> (i - 1) * size,
             size |-> IF i = count THEN total - (i - 1) * size ELSE size,
             last |-> i = count]]
  BY <1>1, Zenon DEF BuildPlan, ChunkCount
<1> HIDE DEF plan
<1>4. count = 0 <=> total = 0
  <2>1. CASE count = 0
    BY <1>2, <2>1, SMT
  <2>2. CASE count > 0
    <3>1. 0 * size + size <= count * size /\ 0 * size = 0
      BY <2>2, ProductRises, SMT
    <3> QED
      BY <1>2, <2>2, <3>1, SMT
  <2> QED
    BY <2>1, <2>2, SMT
<1>5. ASSUME NEW i \in 1..count
      PROVE  /\ plan[i].index = i - 1 /\ (plan[i].last <=> i = count)
             /\ plan[i].size \in 1..size
             /\ plan[i].offset = IF i = 1 THEN 0 ELSE plan[i - 1].offset + plan[i - 1].size
             /\ i = count => plan[i].offset + plan[i].size = total
  <2>1. PICK j \in Nat : j = i - 1 /\ j < count
    BY SMT
  <2>2. PICK at \in Nat : /\ at = j * size /\ at + size <= count * size
                          /\ (j + 1) * size = at + size
    <3>1. /\ j * size \in Nat /\ j * size + size <= count * size
          /\ (j + 1) * size = j * size + size
      BY <2>1, ProductRises, SMT
    <3> QED
      BY <3>1, SMT
  <2>3. /\ plan[i].index = i - 1 /\ plan[i].offset = at /\ (plan[i].last <=> i = count)
        /\ plan[i].size = IF i = count THEN total - at ELSE size
    <3>1. plan[i] = [index |-> i - 1, offset |-> (i - 1) * size,
                     size |-> IF i = count THEN total - (i - 1) * size ELSE size,
                     last |-> i = count]
      BY <1>3, Zenon
    <3>2. (i - 1) * size = at
      BY <2>1, <2>2, Zenon
    <3>3. plan[i] = [index |-> i - 1, offset |-> at,
                     size |-> IF i = count THEN total - at ELSE size,
                     last |-> i = count]
      BY <3>1, <3>2, Zenon
    <3>4. /\ plan[i].index = i - 1 /\ plan[i].offset = at
          /\ plan[i].size = IF i = count THEN total - at ELSE size
      BY <3>3, SMT
    <3>5. PICK isLast : isLast = (i = count)
      BY Zenon
    <3>6. plan[i] = [index |-> i - 1, offset |-> at,
                     size |-> IF i = count THEN total - at ELSE size,
                     last |-> isLast]
      BY <3>3, <3>5, Zenon
    <3>7. plan[i].last = isLast
      BY <3>6, SMT
    <3> QED
      BY <3>4, <3>5, <3>7, Zenon
  <2>4. i = count => at + size = count * size
    BY <2>1, <2>2, SMT
  <2>5. plan[i].size \in 1..size
    BY <1>2, <2>2, <2>3, <2>4, SMT
  <2>6. i = 1 => at = 0
    BY <2>1, <2>2, SMT
  <2>7. i # 1 => plan[i - 1].offset + plan[i - 1].size = at
    <3>1. ASSUME i # 1 PROVE plan[i - 1].offset + plan[i - 1].size = at
      <4>1. PICK k \in Nat : k = j - 1 /\ i - 1 \in 1..count /\ i - 1 # count /\ (i - 1) - 1 = k
        BY <2>1, <3>1, SMT
      <4>2. plan[i - 1].offset = k * size /\ plan[i - 1].size = size
        BY <1>3, <4>1, SMT
      <4>3. (k + 1) * size = k * size + size /\ k + 1 = j
        BY <2>1, <4>1, ProductRises, SMT
      <4> QED
        BY <2>2, <4>2, <4>3, SMT
    <3> QED
      BY <3>1, SMT
  <2>8. i = count => plan[i].offset + plan[i].size = total
    BY <2>2, <2>3, SMT
  <2> QED
    BY <2>3, <2>5, <2>6, <2>7, <2>8, SMT
<1>6. DOMAIN plan = 1..count
  BY <1>3, SMT
<1> QED
  BY <1>1, <1>4, <1>5, <1>6, Zenon DEF plan

\* Every byte of a dump is in one of its chunks, and in no other
\* (export-chunk-plan.ts:61).
THEOREM EveryByteHasItsChunk ==
    ASSUME NEW total \in Nat, NEW size \in Nat, size > 0, NEW byte \in 0..(total - 1)
    PROVE  LET plan == BuildPlan(total, size)
               Has(i) == /\ ByteRange(plan[i]).first <= byte
                         /\ byte <= ByteRange(plan[i]).last
           IN  /\ \E i \in DOMAIN plan : Has(i)
               /\ \A i, j \in DOMAIN plan : Has(i) /\ Has(j) => i = j
<1> DEFINE plan == BuildPlan(total, size)
           Has(i) == /\ ByteRange(plan[i]).first <= byte
                     /\ byte <= ByteRange(plan[i]).last
<1>1. PICK count \in Nat : count = ChunkCount(total, size)
  BY CountFits, SMT
<1>2. total <= count * size /\ count * size \in Nat
  <2>1. total <= ChunkCount(total, size) * size
    BY CountFits, SMT
  <2>2. count * size \in Nat
    BY SMT
  <2>3. total <= count * size
    BY <1>1, <2>1, Zenon
  <2> QED
    BY <2>2, <2>3, Zenon
<1>3. DOMAIN plan = 1..count
  BY <1>1, ChunksTileDump, Zenon
<1> HIDE DEF plan
<1>4. ASSUME NEW i \in 1..count
      PROVE  Has(i) <=> (i - 1) * size <= byte /\ byte < (i - 1) * size + size
  <2>1. PICK at \in Nat : at = (i - 1) * size
    BY SMT
  <2>2. plan[i].offset = (i - 1) * size
    BY <1>1, SMT DEF plan, BuildPlan, ChunkCount
  <2>3. plan[i].size = IF i = count THEN total - (i - 1) * size ELSE size
    BY <1>1, SMT DEF plan, BuildPlan, ChunkCount
  <2>4. ByteRange(plan[i]).first = at
    BY <2>1, <2>2, SMT DEF ByteRange
  <2>5. ByteRange(plan[i]).last = IF i = count THEN total - 1 ELSE at + size - 1
    BY <2>1, <2>2, <2>3, SMT DEF ByteRange
  <2>6. i = count => at + size = count * size
    <3>1. PICK j \in Nat : j = i - 1
      BY SMT
    <3>2. (j + 1) * size = j * size + size
      BY ProductRises, SMT
    <3> QED
      BY <2>1, <3>1, <3>2, SMT
  <2>7. Has(i) <=> at <= byte /\ byte < at + size
    BY <1>2, <2>1, <2>4, <2>5, <2>6, SMT
  <2> QED
    BY <2>1, <2>7, Zenon
<1> HIDE DEF Has
<1>5. \E i \in 1..count : Has(i)
  <2>1. PICK k \in Nat : k = byte \div size /\ k * size <= byte /\ byte < k * size + size
    BY DivFits, SMT
  <2>2. k < count
    <3>1. count < k => count * size <= k * size
      BY ProductRises, SMT
    <3>2. count = k => count * size = k * size
      BY SMT
    <3>3. k * size \in Nat
      BY SMT
    <3> QED
      BY <1>2, <2>1, <3>1, <3>2, <3>3, SMT
  <2>3. PICK i \in 1..count : i - 1 = k
    BY <2>2, SMT
  <2>4. Has(i)
    BY <1>4, <2>1, <2>3, Zenon
  <2> QED
    BY <2>4, Zenon
<1>6. ASSUME NEW i \in 1..count, NEW j \in 1..count, Has(i), Has(j), i < j PROVE FALSE
  <2>1. PICK h \in Nat, k \in Nat : h = i - 1 /\ k = j - 1 /\ h < k
    BY <1>6, SMT
  <2>2. h * size + size <= k * size /\ h * size \in Nat /\ k * size \in Nat
    BY <2>1, ProductRises, SMT
  <2>3. byte < h * size + size
    BY <1>4, <1>6, <2>1, Zenon
  <2>4. k * size <= byte
    BY <1>4, <1>6, <2>1, Zenon
  <2> QED
    BY <2>2, <2>3, <2>4, SMT
<1>7. \A i, j \in 1..count : Has(i) /\ Has(j) => i = j
  BY <1>6, SMT
<1> QED
  BY <1>3, <1>5, <1>7, Zenon DEF Has, plan

\* The run of missing indexes that one is in has a first.
LEMMA RunBegins ==
    ASSUME NEW missing \in SUBSET Nat, NEW n \in missing
    PROVE  \E a \in Nat : a <= n /\ a - 1 \notin missing /\ \A x \in a..n : x \in missing
<1> DEFINE S == {a \in Nat : a <= n /\ \A x \in a..n : x \in missing}
<1>1. n \in S /\ S \in SUBSET Nat
  BY SMT
<1>2. PICK a \in S : \A m \in S : a <= m
  <2> HIDE DEF S
  <2> QED
    BY <1>1, LeastOfSet, Zenon
<1>3. ASSUME a - 1 \in missing PROVE FALSE
  <2>1. a - 1 \in Nat
    BY <1>3, SMT
  <2>2. ASSUME NEW x \in (a - 1)..n PROVE x \in missing
    <3>1. x = a - 1 \/ x \in a..n
      BY <1>2, <2>1, SMT
    <3> QED
      BY <1>2, <1>3, <3>1, SMT
  <2>3. a - 1 \in S
    BY <1>2, <2>1, <2>2, SMT
  <2> QED
    BY <1>2, <2>1, <2>3, SMT
<1> QED
  BY <1>2, <1>3, SMT

\* And a last.
LEMMA RunEnds ==
    ASSUME NEW count \in Nat, NEW missing \in SUBSET (0..(count - 1)), NEW n \in missing
    PROVE  \E b \in Nat : n <= b /\ b + 1 \notin missing /\ \A x \in n..b : x \in missing
<1> DEFINE S == {b \in Nat : n <= b /\ b + 1 \notin missing}
<1>1. count \in S /\ S \in SUBSET Nat
  BY SMT
<1>2. PICK b \in S : \A m \in S : b <= m
  <2> HIDE DEF S
  <2> QED
    BY <1>1, LeastOfSet, Zenon
<1>3. ASSUME NEW x \in n..b, x \notin missing PROVE FALSE
  <2>1. x - 1 \in Nat /\ n <= x - 1 /\ (x - 1) + 1 = x
    BY <1>3, SMT
  <2>2. x - 1 \in S
    BY <1>3, <2>1, SMT
  <2> QED
    BY <1>2, <1>3, <2>1, <2>2, SMT
<1> QED
  BY <1>2, <1>3, SMT

\* The chunks that are asked for again are the missing ones, each in one run, and
\* no two runs could be one (import-chunk-retransmit-request.ts:165).
THEOREM RunsAreTheMissing ==
    ASSUME NEW arrived, NEW count \in Nat, NEW size
    PROVE  LET runs == Retransmit(arrived, count, size).runs
               missing == (0..(count - 1)) \ Indexes(arrived)
           IN  /\ UNION {r.first .. r.last : r \in runs} = missing
               /\ \A r, q \in runs : r = q \/ r.last + 1 < q.first \/ q.last + 1 < r.first
<1>1. PICK missing \in SUBSET (0..(count - 1)) :
         missing = (0..(count - 1)) \ Indexes(arrived)
  BY Zenon
<1> DEFINE Ends(a, b) == b >= a /\ (a..b) \subseteq missing /\ b + 1 \notin missing
           End(a) == CHOOSE b \in missing : Ends(a, b)
           heads == {n \in missing : n - 1 \notin missing}
           runs == {[first |-> a, last |-> End(a)] : a \in heads}
<1>2. Retransmit(arrived, count, size).runs = runs
  BY <1>1, SMT DEF Retransmit
<1>3. ASSUME NEW n \in missing
      PROVE  \E b \in missing : Ends(n, b)
  <2>1. PICK b \in Nat : n <= b /\ b + 1 \notin missing /\ \A x \in n..b : x \in missing
    BY RunEnds, Zenon
  <2>2. b \in missing /\ Ends(n, b)
    BY <2>1, SMT
  <2> QED
    BY <2>2
<1>4. ASSUME NEW a \in missing PROVE End(a) \in missing /\ Ends(a, End(a))
  BY <1>3, Zenon
<1>5. ASSUME NEW a \in missing, NEW n \in missing, a <= n, \A x \in a..n : x \in missing
      PROVE  n <= End(a)
  <2>1. PICK b \in missing : b = End(a)
    BY <1>4, Zenon
  <2>2. Ends(a, b)
    BY <1>4, <2>1, Zenon
  <2>3. n <= b
    BY <1>5, <2>2, SMT
  <2> QED
    BY <2>1, <2>3, Zenon
<1>6. ASSUME NEW n \in missing PROVE \E r \in runs : n \in r.first .. r.last
  <2>1. PICK a \in Nat : a <= n /\ a - 1 \notin missing /\ \A x \in a..n : x \in missing
    <3>1. missing \in SUBSET Nat
      BY SMT
    <3> QED
      BY <3>1, RunBegins, Zenon
  <2>2. a \in heads
    BY <2>1, SMT
  <2>3. n \in a .. End(a)
    BY <1>4, <1>5, <2>1, <2>2, SMT
  <2>4. PICK r \in runs : r = [first |-> a, last |-> End(a)]
    BY <2>2, Zenon
  <2>5. n \in r.first .. r.last
    BY <2>3, <2>4, SMT
  <2> QED
    BY <2>5, Zenon
<1>7. ASSUME NEW r \in runs
      PROVE  /\ r.first \in missing /\ r.last \in missing /\ r.first - 1 \notin missing
             /\ Ends(r.first, r.last) /\ r = [first |-> r.first, last |-> End(r.first)]
  <2>1. PICK a \in heads : r = [first |-> a, last |-> End(a)]
    BY Zenon
  <2>2. r.first = a /\ r.last = End(a)
    BY <2>1, SMT
  <2> QED
    BY <1>4, <2>1, <2>2, Zenon
<1> HIDE DEF runs
<1>8. ASSUME NEW r \in runs, NEW x \in r.first .. r.last PROVE x \in missing
  BY <1>7, SMT
<1>9. UNION {r.first .. r.last : r \in runs} = missing
  BY <1>6, <1>8, SMT
<1>10. ASSUME NEW r \in runs, NEW q \in runs, r # q, r.first <= q.first
       PROVE  r.last + 1 < q.first
  <2>1. r.first # q.first
    BY <1>7, <1>10, Zenon
  <2>2. q.first - 1 \notin r.first .. r.last
    BY <1>7, <1>8, SMT
  <2> QED
    BY <1>7, <1>10, <2>1, <2>2, SMT
<1>11. ASSUME NEW r \in runs, NEW q \in runs
       PROVE  r = q \/ r.last + 1 < q.first \/ q.last + 1 < r.first
  <2>1. r.first \in Int /\ q.first \in Int
    BY <1>7, SMT
  <2>2. r.first <= q.first \/ q.first <= r.first
    BY <2>1, SMT
  <2> QED
    BY <1>10, <2>2, Zenon
<1> QED
  BY <1>1, <1>2, <1>9, <1>11, Zenon

------------------------------------------------------------------------------
(* Chunks that arrive, in whatever order and however often. *)

\* A plan that tiles a dump, of which chunks arrive.
EndOf(plan, m) == IF m = 0 THEN 0 ELSE plan[m].offset + plan[m].size
IsPlan(plan, total) ==
    /\ plan \in Seq(ToSet(plan))
    /\ \A i \in DOMAIN plan :
          /\ plan[i].index = i - 1 /\ plan[i].size \in Nat /\ plan[i].size > 0
          /\ plan[i].offset \in Nat /\ plan[i].offset = EndOf(plan, i - 1)
          /\ i = Len(plan) => EndOf(plan, i) = total
    /\ \A i, j \in DOMAIN plan : i < j => EndOf(plan, i) <= plan[j].offset

\* The plan of a dump is a plan that tiles it, and its chunks fit the size.
LEMMA PlanFits ==
    ASSUME NEW total \in Nat, NEW size \in Nat, size > 0
    PROVE  LET plan == BuildPlan(total, size)
           IN  /\ IsPlan(plan, total)
               /\ \A i \in DOMAIN plan : plan[i].size <= size
               /\ plan = <<>> <=> total = 0
<1>0. PICK plan : plan = BuildPlan(total, size)
  BY Zenon
<1>1. PICK count \in Nat : count = ChunkCount(total, size) /\ plan = BuildPlan(total, size)
  BY <1>0, CountFits, Zenon
<1>2. /\ DOMAIN plan = 1..count
      /\ count = 0 <=> total = 0
      /\ \A i \in 1..count :
            /\ plan[i].index = i - 1
            /\ plan[i].size \in 1..size
            /\ plan[i].offset = IF i = 1 THEN 0 ELSE plan[i - 1].offset + plan[i - 1].size
            /\ i = count => plan[i].offset + plan[i].size = total
  <2> DEFINE cut == BuildPlan(total, size)
             c == ChunkCount(total, size)
  <2>1. /\ DOMAIN cut = 1..c
        /\ c = 0 <=> total = 0
        /\ \A i \in 1..c :
              /\ cut[i].index = i - 1
              /\ cut[i].size \in 1..size
              /\ cut[i].offset = IF i = 1 THEN 0 ELSE cut[i - 1].offset + cut[i - 1].size
              /\ i = c => cut[i].offset + cut[i].size = total
    BY ChunksTileDump
  <2> QED
    BY <1>1, <2>1, Zenon
<1>3. plan = [i \in 1..count |-> plan[i]]
  <2> DEFINE value(i) == [index |-> i - 1, offset |-> (i - 1) * size,
                          size |-> IF i = count THEN total - (i - 1) * size ELSE size,
                          last |-> i = count]
  <2>1. plan = [i \in 1..count |-> value(i)]
    BY <1>1, Zenon DEF BuildPlan, ChunkCount
  <2> HIDE DEF value
  <2> QED
    BY <2>1, Zenon
<1>4. plan \in Seq(ToSet(plan)) /\ Len(plan) = count
  BY <1>3, ValuesOfSequence, Zenon
<1>5. \A i \in 1..count : plan[i].size \in Nat /\ plan[i].size > 0 /\ plan[i].size <= size
  BY <1>2, SMT
<1> DEFINE Good(j) == /\ plan[j].offset \in Nat
                      /\ \A i \in 1..count : i < j => plan[i].offset + plan[i].size <= plan[j].offset
           Bad == {j \in 1..count : ~Good(j)}
<1>6. Bad = {}
  <2>1. SUFFICES ASSUME Bad # {} PROVE FALSE
    BY Zenon
  <2>2. Bad \in SUBSET Nat
    BY SMT
  <2>3. PICK j \in Bad : \A n \in Bad : j <= n
    <3> HIDE DEF Bad
    <3> QED
      BY <2>1, <2>2, LeastOfSet, Zenon
  <2>4. j \in 1..count /\ ~Good(j)
    BY Zenon
  <2>5. CASE j = 1
    BY <1>2, <2>4, <2>5, SMT
  <2>6. CASE j # 1
    <3>1. j - 1 \in 1..count /\ j - 1 \notin Bad
      <4> HIDE DEF Bad
      <4> QED
        BY <2>3, <2>4, <2>6, SMT
    <3>2. Good(j - 1)
      BY <3>1, Zenon
    <3>3. plan[j].offset = plan[j - 1].offset + plan[j - 1].size
      BY <1>2, <2>4, <2>6, SMT
    <3>4. plan[j].offset \in Nat
      BY <1>5, <3>1, <3>2, <3>3, SMT
    <3>5. ASSUME NEW i \in 1..count, i < j PROVE plan[i].offset + plan[i].size <= plan[j].offset
      <4>1. CASE i = j - 1
        BY <3>3, <3>4, <4>1, SMT
      <4>2. CASE i # j - 1
        <5>1. i < j - 1
          BY <2>4, <3>5, <4>2, SMT
        <5>2. plan[i].offset + plan[i].size <= plan[j - 1].offset
          BY <3>2, <5>1, Zenon
        <5>3. i \notin Bad
          <6> HIDE DEF Bad
          <6> QED
            BY <2>3, <2>4, <3>5, SMT
        <5>4. plan[i].offset \in Nat
          BY <5>3, Zenon
        <5> QED
          BY <1>5, <3>1, <3>2, <3>3, <5>2, <5>4, SMT
      <4> QED
        BY <4>1, <4>2
    <3> QED
      BY <2>4, <3>4, <3>5, Zenon
  <2> QED
    BY <2>5, <2>6
<1>7. \A j \in 1..count : Good(j)
  BY <1>6, Zenon
<1>8. ASSUME NEW i \in 1..count
      PROVE  /\ plan[i].offset = EndOf(plan, i - 1)
             /\ i = count => EndOf(plan, i) = total
             /\ EndOf(plan, i) = plan[i].offset + plan[i].size
  BY <1>2, SMT DEF EndOf
<1>9. plan = <<>> <=> total = 0
  BY <1>2, <1>4, SMT
<1>10. IsPlan(plan, total)
  <2>1. ASSUME NEW i \in 1..count
        PROVE  /\ plan[i].index = i - 1 /\ plan[i].size \in Nat /\ plan[i].size > 0
               /\ plan[i].offset \in Nat /\ plan[i].offset = EndOf(plan, i - 1)
               /\ i = Len(plan) => EndOf(plan, i) = total
    BY <1>2, <1>4, <1>5, <1>7, <1>8, Zenon
  <2>2. ASSUME NEW i \in 1..count, NEW j \in 1..count, i < j
        PROVE  EndOf(plan, i) <= plan[j].offset
    <3>1. plan[i].offset + plan[i].size <= plan[j].offset
      BY <1>7, <2>2, Zenon
    <3> QED
      BY <1>8, <3>1, Zenon
  <2> QED
    BY <1>2, <1>4, <2>1, <2>2, Zenon DEF IsPlan
<1> QED
  BY <1>1, <1>2, <1>5, <1>9, <1>10, Zenon

\* What arrives is a chunk of the plan, and its index says which.
LEMMA ArrivedAre ==
    ASSUME NEW plan, NEW total, IsPlan(plan, total), NEW arrived \in Seq(ToSet(plan)),
           NEW i \in DOMAIN arrived
    PROVE  /\ arrived[i].index \in Nat /\ arrived[i].index + 1 \in DOMAIN plan
           /\ arrived[i] = plan[arrived[i].index + 1]
<1>1. arrived[i] \in ToSet(plan)
  BY SMT
<1>2. PICK k \in DOMAIN plan : arrived[i] = plan[k]
  BY <1>1, Zenon DEF ToSet
<1>3. plan[k].index = k - 1 /\ k \in Nat /\ k >= 1
  BY SMT DEF IsPlan
<1> QED
  BY <1>2, <1>3, SMT

\* The ends of the chunks rise.
LEMMA EndsRise ==
    ASSUME NEW plan, NEW total, IsPlan(plan, total), NEW m \in 0..Len(plan), NEW n \in 0..Len(plan)
    PROVE  /\ EndOf(plan, m) \in Nat /\ (m < n => EndOf(plan, m) < EndOf(plan, n))
           /\ (EndOf(plan, m) = EndOf(plan, n) => m = n)
           /\ (m > 0 => EndOf(plan, m) = EndOf(plan, m - 1) + plan[m].size)
           /\ (plan # <<>> => EndOf(plan, Len(plan)) = total /\ EndOf(plan, m) <= total)
<1>1. PICK l \in Nat : l = Len(plan) /\ DOMAIN plan = 1..l /\ (l = 0 <=> plan = <<>>)
  BY SMT DEF IsPlan
<1>2. ASSUME NEW i \in 1..l
      PROVE  /\ plan[i].size \in Nat /\ plan[i].size > 0 /\ plan[i].offset \in Nat
             /\ EndOf(plan, i) = plan[i].offset + plan[i].size
             /\ plan[i].offset = EndOf(plan, i - 1)
             /\ i = l => EndOf(plan, i) = total
  BY <1>1, SMT DEF IsPlan, EndOf
<1>3. EndOf(plan, 0) = 0
  BY SMT DEF EndOf
<1>4. ASSUME NEW i \in 0..l PROVE EndOf(plan, i) \in Nat
  <2>1. i = 0 \/ i \in 1..l
    BY SMT
  <2>2. CASE i = 0
    <3>1. 0 \in Nat
      BY SMT
    <3> QED
      BY <1>3, <2>2, <3>1, Zenon
  <2>3. CASE i \in 1..l
    <3>1. PICK o \in Nat, z \in Nat : o = plan[i].offset /\ z = plan[i].size
      BY <1>2, <2>3, Zenon
    <3>2. EndOf(plan, i) = o + z
      BY <1>2, <2>3, <3>1, Zenon
    <3>3. o + z \in Nat
      BY SMT
    <3> QED
      BY <3>2, <3>3, Zenon
  <2> QED
    BY <2>1, <2>2, <2>3, Zenon
<1>5. ASSUME NEW i \in 0..l, NEW j \in 0..l, i < j PROVE EndOf(plan, i) < EndOf(plan, j)
  <2>1. j \in 1..l /\ (i = 0 \/ i \in 1..l)
    BY <1>5, SMT
  <2>2. i \in 1..l => EndOf(plan, i) <= plan[j].offset
    BY <1>1, <1>5, <2>1, Zenon DEF IsPlan
  <2>3. EndOf(plan, j) \in Nat /\ EndOf(plan, i) \in Nat
    BY <1>4, SMT
  <2>4. CASE i = 0
    <3>1. PICK o \in Nat, z \in Nat : /\ o = plan[j].offset /\ z = plan[j].size /\ z > 0
                                      /\ EndOf(plan, j) = o + z
      BY <1>2, <2>1, Zenon
    <3>2. 0 < o + z
      BY <3>1, SMT
    <3> QED
      BY <1>3, <2>4, <3>1, <3>2, Zenon
  <2>5. CASE i \in 1..l
    <3>1. EndOf(plan, i) <= plan[j].offset
      BY <2>2, <2>5, Zenon
    <3>2. /\ plan[j].size \in Nat /\ plan[j].size > 0 /\ plan[j].offset \in Nat
          /\ EndOf(plan, j) = plan[j].offset + plan[j].size
      BY <1>2, <2>1, Zenon
    <3> QED
      BY <2>3, <3>1, <3>2, SMT
  <2> QED
    BY <2>1, <2>4, <2>5
<1>6. m \in 0..l /\ n \in 0..l
  BY <1>1, Zenon
<1>7. EndOf(plan, m) = EndOf(plan, n) => m = n
  <2>1. m < n \/ n < m \/ m = n
    BY <1>6, SMT
  <2> QED
    BY <1>4, <1>5, <1>6, <2>1, SMT
<1>8. l # 0 => EndOf(plan, l) = total /\ EndOf(plan, m) <= total
  <2>1. ASSUME l # 0 PROVE EndOf(plan, l) = total /\ EndOf(plan, m) <= total
    <3>1. l \in 1..l /\ l \in 0..l
      BY <2>1, SMT
    <3>2. EndOf(plan, l) = total
      BY <1>2, <3>1, Zenon
    <3>3. m = l \/ m < l
      BY <1>6, SMT
    <3> QED
      BY <1>4, <1>5, <1>6, <3>1, <3>2, <3>3, SMT
  <2> QED
    BY <2>1
<1>9. m > 0 => EndOf(plan, m) = EndOf(plan, m - 1) + plan[m].size
  BY <1>2, <1>6, SMT
<1> QED
  BY <1>1, <1>4, <1>5, <1>6, <1>7, <1>8, <1>9, Zenon

\* No chunk came twice; and each of the first ones came once.
Distinct(arrived) ==
    \A i, j \in DOMAIN arrived : arrived[i].index = arrived[j].index => i = j
IsOnce(arrived, plan, m) ==
    /\ m \in 0..Len(plan) /\ Len(arrived) = m /\ Distinct(arrived)
    /\ Indexes(arrived) = 0..(m - 1)

\* Chunks that came once are as many as their indexes.
LEMMA IndexesCount ==
    ASSUME NEW plan, NEW total, IsPlan(plan, total), NEW arrived \in Seq(ToSet(plan))
    PROVE  /\ Indexes(arrived) \subseteq 0..(Len(plan) - 1)
           /\ IsFiniteSet(Indexes(arrived))
           /\ Distinct(arrived) <=> Cardinality(Indexes(arrived)) = Len(arrived)
<1>1. PICK l \in Nat : l = Len(plan) /\ DOMAIN plan = 1..l
  BY SMT DEF IsPlan
<1>2. PICK n \in Nat : n = Len(arrived) /\ DOMAIN arrived = 1..n
  BY SMT
<1>3. \A i \in 1..n : arrived[i].index \in 0..(l - 1)
  <2>1. ASSUME NEW i \in 1..n PROVE arrived[i].index \in 0..(l - 1)
    <3>1. arrived[i].index \in Nat /\ arrived[i].index + 1 \in 1..l
      BY <1>1, <1>2, ArrivedAre, Zenon
    <3> QED
      BY <3>1, SMT
  <2> QED
    BY <2>1, Zenon
<1> DEFINE f == [i \in 1..n |-> arrived[i].index]
<1>4. PICK S : S = Indexes(arrived)
  BY Zenon
<1>5. S = {arrived[i].index : i \in 1..n}
  BY <1>2, <1>4, Zenon DEF Indexes
<1>6. f \in Surjection(1..n, S)
  <2>1. f \in [1..n -> S]
    BY <1>5, Zenon
  <2>2. \A x \in S : \E i \in 1..n : f[i] = x
    BY <1>5, Zenon
  <2> QED
    BY <2>1, <2>2, Zenon DEF Surjection
<1>7. IsFiniteSet(1..n) /\ Cardinality(1..n) = n
  <2>1. 1 \in Int /\ n \in Int /\ (IF 1 > n THEN 0 ELSE n - 1 + 1) = n
    BY SMT
  <2> QED
    BY <2>1, FS_Interval, Zenon
<1>8. IsFiniteSet(S) /\ (Cardinality(S) = n <=> f \in Injection(1..n, S))
  <2> HIDE DEF f
  <2> QED
    BY <1>6, <1>7, FS_Surjection
<1>9. f \in Injection(1..n, S) <=> Distinct(arrived)
  <2>1. f \in [1..n -> S] /\ \A i \in 1..n : f[i] = arrived[i].index
    BY <1>6, Zenon DEF Surjection
  <2> HIDE DEF f
  <2>2. f \in Injection(1..n, S) <=> \A i, j \in 1..n : f[i] = f[j] => i = j
    BY <2>1, Zenon DEF Injection, IsInjective
  <2>3. ASSUME NEW i \in 1..n, NEW j \in 1..n
        PROVE  f[i] = f[j] <=> arrived[i].index = arrived[j].index
    BY <2>1, Zenon
  <2>4. Distinct(arrived) <=> \A i, j \in 1..n : f[i] = f[j] => i = j
    BY <1>2, <2>3, SMT DEF Distinct
  <2> QED
    BY <2>2, <2>4, Zenon
<1>10. S \subseteq 0..(l - 1)
  BY <1>3, <1>5, Zenon
<1> QED
  BY <1>1, <1>2, <1>4, <1>8, <1>9, <1>10, Zenon

\* With the first m indexes and none twice, the first m chunks arrived, each once.
LEMMA OnceByCover ==
    ASSUME NEW plan, NEW total, IsPlan(plan, total), NEW arrived \in Seq(ToSet(plan)),
           Distinct(arrived), NEW m \in Nat, Indexes(arrived) = 0..(m - 1)
    PROVE  IsOnce(arrived, plan, m)
<1>1. PICK l \in Nat, n \in Nat : l = Len(plan) /\ n = Len(arrived)
  BY SMT DEF IsPlan
<1>2. 0..(m - 1) \subseteq 0..(l - 1) /\ Cardinality(0..(m - 1)) = n
  BY <1>1, IndexesCount, Zenon
<1>3. Cardinality(0..(m - 1)) = m
  <2>1. 0 \in Int /\ m - 1 \in Int /\ (IF 0 > m - 1 THEN 0 ELSE m - 1 - 0 + 1) = m
    BY SMT
  <2> QED
    BY <2>1, FS_Interval, Zenon
<1>4. m <= l
  <2>1. m > 0 => m - 1 \in 0..(m - 1)
    BY SMT
  <2>2. m > 0 => m - 1 \in 0..(l - 1)
    BY <1>2, <2>1, Zenon
  <2> QED
    BY <2>2, SMT
<1>5. m \in 0..l
  BY <1>4, SMT
<1> QED
  BY <1>1, <1>2, <1>3, <1>5, Zenon DEF IsOnce

\* As many chunks as the plan has are each of them, if none came twice or none is missing.
LEMMA OnceByCount ==
    ASSUME NEW plan, NEW total, IsPlan(plan, total), NEW arrived \in Seq(ToSet(plan)),
           Len(arrived) = Len(plan),
           Distinct(arrived) \/ Indexes(arrived) = 0..(Len(plan) - 1)
    PROVE  IsOnce(arrived, plan, Len(plan))
<1>1. PICK l \in Nat : l = Len(plan) /\ l = Len(arrived)
  BY SMT DEF IsPlan
<1>2. IsFiniteSet(0..(l - 1)) /\ Cardinality(0..(l - 1)) = l
  <2>1. 0 \in Int /\ l - 1 \in Int /\ (IF 0 > l - 1 THEN 0 ELSE l - 1 - 0 + 1) = l
    BY SMT
  <2> QED
    BY <2>1, FS_Interval, Zenon
<1>3. /\ Indexes(arrived) \subseteq 0..(l - 1)
      /\ Distinct(arrived) <=> Cardinality(Indexes(arrived)) = l
  BY <1>1, IndexesCount, Zenon
<1>4. Distinct(arrived) => Indexes(arrived) = 0..(l - 1)
  BY <1>2, <1>3, FS_Subset
<1>5. Distinct(arrived) /\ Indexes(arrived) = 0..(l - 1)
  BY <1>1, <1>2, <1>3, <1>4, Zenon
<1>6. l \in 0..l
  BY SMT
<1> QED
  BY <1>1, <1>5, <1>6, Zenon DEF IsOnce

\* What is counted to have come twice.
LEMMA DoubledAre ==
    ASSUME NEW T, NEW arrived \in Seq(T)
    PROVE  {n \in Indexes(arrived) : TimesOf(arrived, n) > 1} = {} <=> Distinct(arrived)
<1> DEFINE Times(n) == {i \in DOMAIN arrived : arrived[i].index = n}
<1>1. ASSUME NEW n PROVE IsFiniteSet(Times(n)) /\ TimesOf(arrived, n) = Cardinality(Times(n))
  <2>1. Times(n) \in SUBSET DOMAIN arrived
    BY Zenon
  <2>2. IsFiniteSet(Times(n))
    <3> HIDE DEF Times
    <3> QED
      BY <2>1, PlacesAreFinite, Zenon
  <2>3. TimesOf(arrived, n) = Cardinality(Times(n))
    BY Zenon DEF TimesOf
  <2> QED
    BY <2>2, <2>3, Zenon
<1>2. ASSUME Distinct(arrived), NEW n \in Indexes(arrived), TimesOf(arrived, n) > 1
      PROVE  FALSE
  <2>1. PICK i \in DOMAIN arrived : n = arrived[i].index
    BY Zenon DEF Indexes
  <2>2. Times(n) = {i}
    BY <1>2, <2>1, Zenon DEF Distinct
  <2>3. Cardinality(Times(n)) = 1
    BY <2>2, FS_Singleton, Zenon
  <2>4. TimesOf(arrived, n) = 1
    BY <1>1, <2>3, Zenon
  <2> QED
    BY <1>2, <2>4, SMT
<1>3. ASSUME NEW i \in DOMAIN arrived, NEW j \in DOMAIN arrived,
             arrived[i].index = arrived[j].index, i # j
      PROVE  \E n \in Indexes(arrived) : TimesOf(arrived, n) > 1
  <2>1. PICK n : n = arrived[i].index
    BY Zenon
  <2>2. n \in Indexes(arrived)
    BY <2>1, Zenon DEF Indexes
  <2>3. i \in Times(n) /\ j \in Times(n)
    BY <1>3, <2>1, Zenon
  <2>4. IsFiniteSet(Times(n)) /\ TimesOf(arrived, n) = Cardinality(Times(n))
    BY <1>1, Zenon
  <2> HIDE DEF Times
  <2>5. IsFiniteSet({i}) /\ Cardinality({i}) = 1 /\ IsFiniteSet({i} \union {j})
        /\ Cardinality({i} \union {j}) = 2
    <3>1. IsFiniteSet({i}) /\ Cardinality({i}) = 1 /\ j \notin {i}
      BY <1>3, FS_Singleton, Zenon
    <3>2. IsFiniteSet({i} \union {j}) /\ Cardinality({i} \union {j}) = Cardinality({i}) + 1
      BY <3>1, FS_AddElement
    <3>3. 1 + 1 = 2
      BY SMT
    <3> QED
      BY <3>1, <3>2, <3>3, Zenon
  <2>6. ({i} \union {j}) \in SUBSET Times(n)
    BY <2>3, Zenon
  <2>7. 2 <= Cardinality(Times(n))
    BY <2>4, <2>5, <2>6, FS_Subset
  <2>8. Cardinality(Times(n)) \in Nat
    BY <2>4, FS_CardinalityType, Zenon
  <2>9. TimesOf(arrived, n) > 1
    BY <2>4, <2>7, <2>8, SMT
  <2> QED
    BY <2>2, <2>9, Zenon
<1> QED
  BY <1>2, <1>3, Zenon DEF Distinct

\* The greatest of some numbers is one of them.
LEMMA GreatestIs ==
    ASSUME NEW S \in SUBSET Nat, NEW top \in Nat, \A n \in S : n <= top, S # {}
    PROVE  /\ Greatest(S) \in S /\ \A n \in S : n <= Greatest(S)
<1> DEFINE D == {top - n : n \in S}
<1>1. D \in SUBSET Nat /\ D # {}
  BY SMT
<1>2. PICK d \in D : \A e \in D : d <= e
  <2> HIDE DEF D
  <2> QED
    BY <1>1, LeastOfSet, Zenon
<1>3. PICK m \in S : d = top - m
  BY Zenon
<1>4. ASSUME NEW n \in S PROVE m >= n
  <2>1. top - m <= top - n
    BY <1>2, <1>3, Zenon
  <2> QED
    BY <2>1, SMT
<1>5. Max(S) \in S /\ \A n \in S : Max(S) >= n
  BY <1>4, Zenon DEF Max
<1>6. Greatest(S) = Max(S)
  BY Zenon DEF Greatest
<1> QED
  BY <1>5, <1>6, SMT

\* What numbers add up to, if what the first ones add up to is known.
LEMMA TotalIs ==
    ASSUME NEW s, NEW l \in Nat, Len(s) = l, NEW e, e[0] = 0, \A n \in 1..l : e[n] = e[n - 1] + s[n]
    PROVE  Total(s) = e[l]
<1>2. PICK totals : /\ totals = (CHOOSE k : IsTotalled(s, l, k))
                    /\ IsTotalled(s, l, totals)
  BY TotalsExist, Zenon
<1>3. Total(s) = totals[l]
  BY <1>2, Zenon DEF Total, IsTotalled
<1>4. \A n \in 0..l : totals[n] = IF n = 0 THEN 0 ELSE totals[n - 1] + s[n]
  BY <1>2, Zenon DEF IsTotalled
<1> DEFINE S == {n \in 0..l : totals[n] # e[n]}
<1>5. ASSUME S # {} PROVE FALSE
  <2>1. PICK m \in S : \A k \in S : m <= k
    <3>1. S \in SUBSET Nat
      BY SMT
    <3> HIDE DEF S
    <3> QED
      BY <1>5, <3>1, LeastOfSet, Zenon
  <2>2. m # 0
    <3>1. totals[0] = 0
      BY <1>4, SMT
    <3> QED
      BY <2>1, <3>1, Zenon
  <2>3. PICK k \in 0..l : k = m - 1 /\ k \notin S /\ m \in 1..l
    <3>1. m - 1 \in 0..l /\ ~(m <= m - 1) /\ m \in 1..l
      BY <2>1, <2>2, SMT
    <3> QED
      BY <2>1, <3>1, Zenon
  <2>4. totals[k] = e[k]
    BY <2>3, Zenon
  <2>5. totals[m] = totals[k] + s[m] /\ e[m] = e[k] + s[m]
    BY <1>4, <2>1, <2>2, <2>3, Zenon
  <2> QED
    BY <2>1, <2>4, <2>5, Zenon
<1>6. l \in 0..l
  BY SMT
<1> QED
  BY <1>3, <1>5, <1>6, Zenon

\* Numbers with a bound add up to that many times the bound at most.
LEMMA TotalAtMost ==
    ASSUME NEW s \in Seq(Nat), NEW b \in Nat, \A n \in DOMAIN s : s[n] <= b
    PROVE  Total(s) \in Nat /\ Total(s) <= Len(s) * b
<1>1. PICK l \in Nat : l = Len(s) /\ DOMAIN s = 1..l
  BY SMT
<1>2. PICK totals : /\ totals = (CHOOSE k : IsTotalled(s, l, k))
                    /\ IsTotalled(s, l, totals)
  BY TotalsExist, Zenon
<1>3. Total(s) = totals[l]
  BY <1>1, <1>2, Zenon DEF Total, IsTotalled
<1>4. \A n \in 0..l : totals[n] = IF n = 0 THEN 0 ELSE totals[n - 1] + s[n]
  BY <1>2, Zenon DEF IsTotalled
<1> DEFINE Fits(n) == totals[n] \in Nat /\ totals[n] <= n * b
           S == {n \in 0..l : ~Fits(n)}
<1>5. ASSUME S # {} PROVE FALSE
  <2>1. PICK m \in S : \A k \in S : m <= k
    <3>1. S \in SUBSET Nat
      BY SMT
    <3> HIDE DEF S
    <3> QED
      BY <1>5, <3>1, LeastOfSet, Zenon
  <2>2. m # 0
    <3>1. totals[0] = 0 /\ 0 * b = 0
      BY <1>4, SMT
    <3>2. Fits(0)
      BY <3>1, SMT
    <3> QED
      BY <2>1, <3>2, Zenon
  <2>3. PICK k \in 0..l : k = m - 1 /\ k \notin S /\ m \in 1..l
    <3>1. m - 1 \in 0..l /\ ~(m <= m - 1) /\ m \in 1..l
      BY <2>1, <2>2, SMT
    <3> QED
      BY <2>1, <3>1, Zenon
  <2>4. Fits(k)
    BY <2>3, Zenon
  <2>5. totals[m] = totals[k] + s[m]
    BY <1>4, <2>1, <2>2, <2>3, Zenon
  <2>6. PICK v \in Nat : v = s[m] /\ v <= b
    BY <1>1, <2>3, SMT
  <2>7. PICK p \in Nat, q \in Nat : p = k * b /\ q = m * b /\ q = p + b
    BY <2>3, SMT
  <2>8. totals[m] \in Nat /\ totals[m] <= q
    BY <2>4, <2>5, <2>6, <2>7, SMT
  <2> QED
    BY <2>1, <2>7, <2>8, Zenon
<1>6. l \in 0..l
  BY <1>1, SMT
<1>7. Fits(l)
  BY <1>5, <1>6, Zenon
<1> QED
  BY <1>1, <1>3, <1>7, Zenon

\* Chunks that came once lie in the order of the plan.
LEMMA OnceSorted ==
    ASSUME NEW plan, NEW total, IsPlan(plan, total), NEW arrived \in Seq(ToSet(plan)),
           NEW m, IsOnce(arrived, plan, m)
    PROVE  ByOffset(arrived) = [k \in 1..m |-> plan[k]]
<1>1. PICK l \in Nat : l = Len(plan) /\ DOMAIN plan = 1..l
  BY SMT DEF IsPlan
<1>2. m \in 0..l /\ m \in Nat /\ DOMAIN arrived = 1..m
  <2>1. m \in 0..l /\ Len(arrived) = m
    BY <1>1, Zenon DEF IsOnce
  <2> QED
    BY <2>1, SMT
<1>3. ASSUME NEW i \in 1..m
      PROVE  /\ arrived[i].index \in 0..(m - 1) /\ arrived[i].index + 1 \in 1..l
             /\ arrived[i].offset = EndOf(plan, arrived[i].index)
             /\ arrived[i] = plan[arrived[i].index + 1]
  <2>1. arrived[i].index \in 0..(m - 1)
    BY <1>2, Zenon DEF IsOnce, Indexes
  <2>2. /\ arrived[i].index + 1 \in 1..l /\ arrived[i] = plan[arrived[i].index + 1]
    BY <1>1, <1>2, ArrivedAre, Zenon
  <2>3. PICK h : h = arrived[i].index + 1
    BY Zenon
  <2>4. plan[h].offset = EndOf(plan, h - 1)
    BY <1>1, <2>2, <2>3, Zenon DEF IsPlan
  <2>5. h - 1 = arrived[i].index
    BY <2>1, <2>3, SMT
  <2> QED
    BY <2>1, <2>2, <2>3, <2>4, <2>5, Zenon
<1>4. ASSUME NEW i \in 1..m, NEW j \in 1..m
      PROVE  /\ arrived[j].offset < arrived[i].offset <=> arrived[j].index < arrived[i].index
             /\ arrived[j].offset = arrived[i].offset <=> i = j
  <2>1. PICK a \in 0..l, b \in 0..l : a = arrived[j].index /\ b = arrived[i].index
    <3>1. 0..(m - 1) \subseteq 0..l
      BY <1>2, SMT
    <3> QED
      BY <1>3, <3>1, Zenon
  <2>2. /\ EndOf(plan, a) \in Nat /\ EndOf(plan, b) \in Nat
        /\ a < b => EndOf(plan, a) < EndOf(plan, b)
        /\ b < a => EndOf(plan, b) < EndOf(plan, a)
    BY <1>1, EndsRise, Zenon
  <2>3. a = b => i = j
    BY <1>2, <2>1, Zenon DEF IsOnce, Distinct
  <2>4. /\ EndOf(plan, a) < EndOf(plan, b) <=> a < b
        /\ EndOf(plan, a) = EndOf(plan, b) <=> a = b
    BY <2>2, SMT
  <2>5. arrived[j].offset = EndOf(plan, a) /\ arrived[i].offset = EndOf(plan, b)
    BY <1>3, <2>1, Zenon
  <2> QED
    BY <2>1, <2>3, <2>4, <2>5, Zenon
<1> DEFINE before(i) == {j \in DOMAIN arrived :
                           \/ arrived[j].offset < arrived[i].offset
                           \/ arrived[j].offset = arrived[i].offset /\ j < i}
<1>5. ASSUME NEW i \in 1..m
      PROVE  before(i) = {j \in 1..m : arrived[j].index < arrived[i].index}
  <2>1. ASSUME NEW j \in 1..m
        PROVE  (\/ arrived[j].offset < arrived[i].offset
                \/ arrived[j].offset = arrived[i].offset /\ j < i)
                 <=> arrived[j].index < arrived[i].index
    <3>1. ~(i < i)
      BY SMT
    <3> QED
      BY <1>4, <3>1, Zenon
  <2> QED
    BY <1>2, <2>1, Zenon
<1> HIDE DEF before
<1>6. ASSUME NEW i \in 1..m
      PROVE  Cardinality(before(i)) = arrived[i].index
  <2>1. PICK v \in 0..(m - 1) : v = arrived[i].index
    BY <1>3, Zenon
  <2>2. PICK S : S = before(i)
    BY Zenon
  <2>3. S = {j \in 1..m : arrived[j].index < v}
    BY <1>5, <2>1, <2>2, Zenon
  <2> DEFINE g == [j \in S |-> arrived[j].index]
  <2>4. \A j \in S : j \in 1..m /\ g[j] = arrived[j].index /\ g[j] \in 0..(v - 1)
    <3>1. ASSUME NEW j \in S PROVE j \in 1..m /\ g[j] = arrived[j].index /\ g[j] \in 0..(v - 1)
      <4>1. j \in 1..m /\ g[j] = arrived[j].index /\ arrived[j].index < v
        BY <2>3, Zenon
      <4>2. arrived[j].index \in 0..(m - 1)
        BY <1>3, <4>1, Zenon
      <4>3. arrived[j].index \in 0..(v - 1)
        BY <4>1, <4>2, SMT
      <4> QED
        BY <4>1, <4>3, Zenon
    <3> QED
      BY <3>1, Zenon
  <2>5. \A x \in 0..(v - 1) : \E j \in S : g[j] = x
    <3>1. ASSUME NEW x \in 0..(v - 1) PROVE \E j \in S : g[j] = x
      <4>1. x \in 0..(m - 1) /\ x < v
        BY <1>2, <2>1, SMT
      <4>2. PICK j \in 1..m : arrived[j].index = x
        BY <1>2, <4>1, Zenon DEF IsOnce, Indexes
      <4>3. j \in S
        BY <2>3, <4>1, <4>2, Zenon
      <4> QED
        BY <2>4, <4>2, <4>3, Zenon
    <3> QED
      BY <3>1, Zenon
  <2>6. g \in [S -> 0..(v - 1)]
    BY <2>4, Zenon
  <2> HIDE DEF g
  <2>7. \A j, k \in S : g[j] = g[k] => j = k
    BY <1>2, <2>4, Zenon DEF IsOnce, Distinct
  <2>8. g \in Bijection(S, 0..(v - 1))
    BY <2>5, <2>6, <2>7, Zenon DEF Bijection, Surjection, Injection, IsInjective
  <2>9. ExistsBijection(S, 0..(v - 1))
    BY <2>8, Zenon DEF ExistsBijection
  <2>10. IsFiniteSet(S)
    <3>1. S \in SUBSET DOMAIN arrived
      BY <1>2, <2>3, Zenon
    <3> QED
      BY <3>1, PlacesAreFinite, Zenon
  <2>11. Cardinality(0..(v - 1)) = v
    <3>1. 0 \in Int /\ v - 1 \in Int /\ (IF 0 > v - 1 THEN 0 ELSE v - 1 - 0 + 1) = v
      BY SMT
    <3> QED
      BY <3>1, FS_Interval, Zenon
  <2>12. Cardinality(S) = Cardinality(0..(v - 1))
    BY <2>9, <2>10, FS_Bijection, Zenon
  <2> QED
    BY <2>1, <2>2, <2>11, <2>12, Zenon
<1> DEFINE Place(k) == CHOOSE i \in DOMAIN arrived : Cardinality(before(i)) = k - 1
<1>7. ASSUME NEW k \in 1..m
      PROVE  arrived[Place(k)] = plan[k]
  <2>1. k - 1 \in 0..(m - 1) /\ (k - 1) + 1 = k
    BY <1>2, SMT
  <2>2. PICK i \in 1..m : arrived[i].index = k - 1
    BY <1>2, <2>1, Zenon DEF IsOnce, Indexes
  <2>3. \A j \in 1..m : Cardinality(before(j)) = arrived[j].index
    BY <1>6, Zenon
  <2>4. Place(k) \in 1..m /\ arrived[Place(k)].index = k - 1
    BY <1>2, <2>2, <2>3, Zenon
  <2>5. arrived[Place(k)] = plan[arrived[Place(k)].index + 1]
    BY <1>3, <2>4, Zenon
  <2> QED
    BY <2>1, <2>4, <2>5, Zenon
<1>8. ByOffset(arrived) = [k \in 1..m |-> arrived[Place(k)]]
  BY <1>2, Zenon DEF ByOffset, before
<1> HIDE DEF Place
<1> QED
  BY <1>7, <1>8, Zenon

\* And they are as large as the first chunks of the plan.
LEMMA OnceSize ==
    ASSUME NEW plan, NEW total, IsPlan(plan, total), NEW arrived \in Seq(ToSet(plan)),
           NEW m, IsOnce(arrived, plan, m)
    PROVE  SizeOf(arrived) = EndOf(plan, m)
<1>1. PICK l \in Nat : l = Len(plan) /\ DOMAIN plan = 1..l
  BY SMT DEF IsPlan
<1>2. m \in 0..l /\ m \in Nat /\ DOMAIN arrived = 1..m
  <2>1. m \in 0..l /\ Len(arrived) = m
    BY <1>1, Zenon DEF IsOnce
  <2> QED
    BY <2>1, SMT
<1> DEFINE s == [i \in 1..m |-> arrived[i].size]
           t == [k \in 1..m |-> plan[k].size]
           p == [i \in 1..m |-> arrived[i].index + 1]
           e == [n \in 0..m |-> EndOf(plan, n)]
<1>3. \A k \in 1..m : t[k] \in Nat
  <2>1. 1..m \subseteq 1..l
    BY <1>2, SMT
  <2> QED
    BY <1>1, <2>1, Zenon DEF IsPlan
<1>4. ASSUME NEW i \in 1..m
      PROVE  p[i] \in 1..m /\ p[i] = arrived[i].index + 1 /\ t[p[i]] = s[i]
             /\ arrived[i].index \in Nat
  <2>1. arrived[i].index \in 0..(m - 1)
    BY <1>2, Zenon DEF IsOnce, Indexes
  <2>2. arrived[i].index + 1 \in 1..m /\ arrived[i].index \in Nat
    BY <1>2, <2>1, SMT
  <2>3. arrived[i] = plan[arrived[i].index + 1]
    BY <1>1, <1>2, ArrivedAre, Zenon
  <2> QED
    BY <2>2, <2>3, Zenon
<1>5. \A k \in 1..m : \E i \in 1..m : p[i] = k
  <2>1. ASSUME NEW k \in 1..m PROVE \E i \in 1..m : p[i] = k
    <3>1. k - 1 \in 0..(m - 1) /\ (k - 1) + 1 = k
      BY <1>2, SMT
    <3>2. PICK i \in 1..m : arrived[i].index = k - 1
      BY <1>2, <3>1, Zenon DEF IsOnce, Indexes
    <3> QED
      BY <3>1, <3>2, Zenon
  <2> QED
    BY <2>1, Zenon
<1>6. \A i, j \in 1..m : p[i] = p[j] => i = j
  <2>1. ASSUME NEW i \in 1..m, NEW j \in 1..m, p[i] = p[j] PROVE i = j
    <3>1. arrived[i].index = arrived[j].index
      <4> HIDE DEF p, s, t
      <4> QED
        BY <1>4, <2>1, SMT
    <3> QED
      BY <1>2, <3>1, Zenon DEF IsOnce, Distinct
  <2> QED
    BY <2>1, Zenon
<1>7. SizeOf(arrived) = Total(s)
  BY <1>2, Zenon DEF SizeOf
<1>8. Total(t) = e[m]
  <2>1. Len(t) = m
    BY <1>2, SMT
  <2>2. e[0] = 0
    <3>1. 0 \in 0..m
      BY <1>2, SMT
    <3> QED
      BY <3>1, Zenon DEF EndOf
  <2>3. ASSUME NEW n \in 1..m PROVE e[n] = e[n - 1] + t[n]
    <3>1. n \in 0..l /\ n \in 0..m /\ n - 1 \in 0..m /\ n > 0
      BY <1>2, SMT
    <3>2. EndOf(plan, n) = EndOf(plan, n - 1) + plan[n].size
      BY <1>1, <3>1, EndsRise, Zenon
    <3> QED
      BY <3>1, <3>2, Zenon
  <2> HIDE DEF e, t
  <2> QED
    BY <1>2, <2>1, <2>2, <2>3, TotalIs
<1>9. s = [i \in 1..m |-> s[i]] /\ t = [i \in 1..m |-> t[i]] /\ p \in [1..m -> 1..m]
  BY <1>4, Zenon
<1>10. \A i \in 1..m : s[i] \in Nat
  BY <1>3, <1>4, Zenon
<1>11. m \in 0..m
  BY <1>2, SMT
<1> HIDE DEF s, t, p
<1>12. s \in Seq(Nat) /\ t \in Seq(Nat) /\ DOMAIN s = 1..m /\ DOMAIN t = 1..m
  <2>1. s \in Seq(Nat) /\ t \in Seq(Nat)
    BY <1>2, <1>3, <1>9, <1>10, SequenceOf
  <2> QED
    BY <1>9, <2>1, Zenon
<1>13. Match(s, t, p)
  <2>1. p \in Bijection(1..m, 1..m)
    BY <1>5, <1>6, <1>9, Zenon DEF Bijection, Surjection, Injection, IsInjective
  <2> QED
    BY <1>4, <1>12, <2>1, Zenon DEF Match
<1>14. Total(t) = Total(s)
  BY <1>12, <1>13, MatchTotals, Zenon
<1> QED
  BY <1>7, <1>8, <1>11, <1>14, Zenon

\* What the order of arrived chunks is made of.
MissingOf(arrived) == (0..Greatest(Indexes(arrived))) \ Indexes(arrived)
DoubledOf(arrived) ==
    {n \in Indexes(arrived) : TimesOf(arrived, n) > 1}
Deltas(sorted) == [k \in 1..Greatest({Len(sorted) - 1, 0}) |->
                      sorted[k + 1].offset - (sorted[k].offset + sorted[k].size)]
GapOf(deltas) == Total([k \in DOMAIN deltas |-> Greatest({deltas[k], 0})])
OverlapOf(deltas) == Total([k \in DOMAIN deltas |-> Greatest({0 - deltas[k], 0})])

\* What the order reports, in the words of this section.
LEMMA OrderFields ==
    ASSUME NEW arrived, NEW total
    PROVE  LET order == ReassemblyOrder(arrived, total)
               sorted == ByOffset(arrived)
           IN  /\ order.complete <=> /\ MissingOf(arrived) = {} /\ DoubledOf(arrived) = {}
                                     /\ GapOf(Deltas(sorted)) = 0
                                     /\ OverlapOf(Deltas(sorted)) = 0
                                     /\ SizeOf(arrived) = total /\ arrived # <<>>
                                     /\ Reach(sorted).chunks = Len(sorted)
               /\ order.missing = IF arrived = <<>> THEN {} ELSE MissingOf(arrived)
               /\ order.doubled = DoubledOf(arrived)
               /\ order.nextOffset = Reach(sorted).bytes
<1> DEFINE sorted == ByOffset(arrived)
           whole == /\ MissingOf(arrived) = {} /\ DoubledOf(arrived) = {}
                    /\ GapOf(Deltas(sorted)) = 0 /\ OverlapOf(Deltas(sorted)) = 0
                    /\ SizeOf(arrived) = total /\ arrived # <<>>
                    /\ Reach(sorted).chunks = Len(sorted)
           late == \E i \in DOMAIN arrived : i > 1 /\ arrived[i].index <= arrived[i - 1].index
           order == ReassemblyOrder(arrived, total)
<1>1. PICK isWhole, isLate : isWhole = whole /\ isLate = late
  <2> HIDE DEF whole, late
  <2> QED
    BY Zenon
<1>2. order = [complete |-> whole,
               missing |-> IF arrived = <<>> THEN {} ELSE MissingOf(arrived),
               doubled |-> DoubledOf(arrived),
               gapBytes |-> GapOf(Deltas(sorted)), overlapBytes |-> OverlapOf(Deltas(sorted)),
               nextOffset |-> Reach(sorted).bytes,
               outOfOrder |-> late]
  BY Zenon DEF ReassemblyOrder, MissingOf, DoubledOf, Deltas, GapOf, OverlapOf
<1>3. order = [complete |-> isWhole,
               missing |-> IF arrived = <<>> THEN {} ELSE MissingOf(arrived),
               doubled |-> DoubledOf(arrived),
               gapBytes |-> GapOf(Deltas(sorted)), overlapBytes |-> OverlapOf(Deltas(sorted)),
               nextOffset |-> Reach(sorted).bytes,
               outOfOrder |-> isLate]
  <2> HIDE DEF whole, late, order, sorted
  <2> QED
    BY <1>1, <1>2, Zenon
<1> HIDE DEF order
<1>4. /\ order.complete = isWhole
      /\ order.missing = IF arrived = <<>> THEN {} ELSE MissingOf(arrived)
      /\ order.doubled = DoubledOf(arrived)
      /\ order.nextOffset = Reach(sorted).bytes
  <2> HIDE DEF sorted, whole, late
  <2> QED
    BY <1>3, SMT
<1> QED
  BY <1>1, <1>4, Zenon DEF order

\* How far chunks reach without a break.
IsSteady(sorted, n) ==
    \A k \in 1..n : sorted[k].offset = IF k = 1 THEN 0 ELSE sorted[k - 1].offset + sorted[k - 1].size

\* How far the chunks reach is the longest steady beginning.
LEMMA ReachIs ==
    ASSUME NEW T, NEW sorted \in Seq(T)
    PROVE  \E n \in 0..Len(sorted) :
              /\ \A k \in 0..Len(sorted) : IsSteady(sorted, k) => k <= n
              /\ Reach(sorted).chunks = n
              /\ Reach(sorted).bytes = EndOf(sorted, n)
<1>1. PICK l \in Nat : l = Len(sorted)
  BY SMT
<1> DEFINE S == {n \in 0..l : IsSteady(sorted, n)}
<1>2. S \in SUBSET Nat /\ (\A n \in S : n <= l) /\ 0 \in S
  <2>1. IsSteady(sorted, 0)
    BY SMT DEF IsSteady
  <2> QED
    BY <2>1, SMT
<1>3. Greatest(S) \in S /\ \A n \in S : n <= Greatest(S)
  <2> HIDE DEF S
  <2> QED
    BY <1>1, <1>2, GreatestIs
<1>4. Greatest(S) = Max(S)
  <2> HIDE DEF S
  <2> QED
    BY <1>2, Zenon DEF Greatest
<1>5. PICK n : n = Max(S)
  BY Zenon
<1>6. Reach(sorted) = [chunks |-> n, bytes |-> EndOf(sorted, n)]
  BY <1>1, <1>5, Zenon DEF Reach, EndOf, IsSteady
<1>7. Reach(sorted).chunks = n /\ Reach(sorted).bytes = EndOf(sorted, n)
  BY <1>6, SMT
<1>8. n \in 0..l /\ \A k \in 0..l : IsSteady(sorted, k) => k <= n
  BY <1>3, <1>4, <1>5, Zenon
<1> QED
  BY <1>1, <1>7, <1>8, Zenon

\* The greater of two numbers.
LEMMA GreaterOfTwo ==
    ASSUME NEW a \in Int
    PROVE  Greatest({a, 0}) = IF a > 0 THEN a ELSE 0
<1>1. \E x \in {a, 0} : \A y \in {a, 0} : x >= y
  BY SMT
<1>2. Max({a, 0}) \in {a, 0} /\ \A y \in {a, 0} : Max({a, 0}) >= y
  BY <1>1, Zenon DEF Max
<1>3. Greatest({a, 0}) = Max({a, 0})
  BY Zenon DEF Greatest
<1>4. PICK x : x = Max({a, 0})
  BY Zenon
<1> QED
  BY <1>2, <1>3, <1>4, SMT

\* Numbers that are all 0 add up to 0.
LEMMA TotalOfNone ==
    ASSUME NEW n \in Nat
    PROVE  Total([k \in 1..n |-> 0]) = 0
<1> DEFINE s == [k \in 1..n |-> 0]
           e == [k \in 0..n |-> 0]
<1>1. Len(s) = n /\ e[0] = 0 /\ (\A k \in 1..n : e[k] = e[k - 1] + s[k]) /\ e[n] = 0
  BY SMT
<1> HIDE DEF s, e
<1>2. Total(s) = 0
  BY <1>1, TotalIs
<1> QED
  BY <1>2, Zenon DEF s

\* Between the chunks of a plan is nothing.
LEMMA NothingBetween ==
    ASSUME NEW plan, NEW total, IsPlan(plan, total), NEW m \in 0..Len(plan)
    PROVE  LET sorted == [k \in 1..m |-> plan[k]]
           IN  /\ GapOf(Deltas(sorted)) = 0 /\ OverlapOf(Deltas(sorted)) = 0
               /\ Len(sorted) = m /\ Reach(sorted).chunks = m
               /\ Reach(sorted).bytes = EndOf(plan, m)
<1>1. PICK l \in Nat : l = Len(plan) /\ DOMAIN plan = 1..l
  BY SMT DEF IsPlan
<1> DEFINE sorted == [k \in 1..m |-> plan[k]]
<1>2. m \in Nat /\ m \in 0..l /\ sorted \in Seq(ToSet(sorted)) /\ Len(sorted) = m
  <2>1. m \in Nat /\ m \in 0..l
    BY <1>1, SMT
  <2>2. sorted = [k \in 1..m |-> sorted[k]]
    BY Zenon
  <2> HIDE DEF sorted
  <2> QED
    BY <2>1, <2>2, ValuesOfSequence
<1>3. \A k \in 1..m : sorted[k] = plan[k]
  BY Zenon
<1> HIDE DEF sorted
<1>4. ASSUME NEW k \in 1..m
      PROVE  /\ sorted[k].offset = EndOf(plan, k - 1)
             /\ EndOf(plan, k) = sorted[k].offset + sorted[k].size
             /\ EndOf(plan, k) \in Nat
  <2>1. k \in 1..l /\ k \in 0..l /\ k # 0
    BY <1>2, SMT
  <2>2. plan[k].offset = EndOf(plan, k - 1)
    BY <1>1, <2>1, Zenon DEF IsPlan
  <2>3. EndOf(plan, k) = plan[k].offset + plan[k].size
    BY <2>1, Zenon DEF EndOf
  <2>4. EndOf(plan, k) \in Nat
    BY <1>1, <2>1, EndsRise, Zenon
  <2> QED
    BY <1>3, <2>2, <2>3, <2>4, Zenon
<1>5. IsSteady(sorted, m)
  <2>1. ASSUME NEW k \in 1..m
        PROVE  sorted[k].offset = IF k = 1 THEN 0 ELSE sorted[k - 1].offset + sorted[k - 1].size
    <3>1. k = 1 => k - 1 = 0
      BY SMT
    <3>2. k # 1 => k - 1 \in 1..m
      BY <1>2, SMT
    <3>3. EndOf(plan, 0) = 0
      BY Zenon DEF EndOf
    <3> QED
      BY <1>4, <3>1, <3>2, <3>3, Zenon
  <2> QED
    BY <2>1, Zenon DEF IsSteady
<1>6. Reach(sorted).chunks = m /\ Reach(sorted).bytes = EndOf(sorted, m)
  <2>1. PICK n \in 0..m : /\ \A k \in 0..m : IsSteady(sorted, k) => k <= n
                          /\ Reach(sorted).chunks = n
                          /\ Reach(sorted).bytes = EndOf(sorted, n)
    BY <1>2, ReachIs, Zenon
  <2>2. m \in 0..m
    BY <1>2, SMT
  <2>3. m <= n
    BY <1>5, <2>1, <2>2, Zenon
  <2>4. m = n
    BY <1>2, <2>3, SMT
  <2> QED
    BY <2>1, <2>4, Zenon
<1>7. EndOf(sorted, m) = EndOf(plan, m)
  <2>1. m = 0 \/ m \in 1..m
    BY <1>2, SMT
  <2> QED
    BY <1>3, <2>1, Zenon DEF EndOf
<1>8. PICK n \in Nat : n = Greatest({m - 1, 0}) /\ \A k \in 1..n : k \in 1..m /\ k + 1 \in 1..m
  <2>1. PICK n : n = Greatest({m - 1, 0})
    BY Zenon
  <2>2. n = IF m - 1 > 0 THEN m - 1 ELSE 0
    <3>1. m - 1 \in Int
      BY <1>2, SMT
    <3> QED
      BY <2>1, <3>1, GreaterOfTwo
  <2>3. n \in Nat /\ \A k \in 1..n : k \in 1..m /\ k + 1 \in 1..m
    BY <1>2, <2>2, SMT
  <2> QED
    BY <2>1, <2>3, Zenon
<1>9. PICK d : d = Deltas(sorted)
  BY Zenon
<1>10. d = [k \in 1..n |-> 0]
  <2>1. d = [k \in 1..n |-> sorted[k + 1].offset - (sorted[k].offset + sorted[k].size)]
    BY <1>2, <1>8, <1>9, Zenon DEF Deltas
  <2>2. ASSUME NEW k \in 1..n
        PROVE  sorted[k + 1].offset - (sorted[k].offset + sorted[k].size) = 0
    <3>1. k \in 1..m /\ k + 1 \in 1..m /\ (k + 1) - 1 = k
      <4>1. k \in 1..m /\ k + 1 \in 1..m
        BY <1>8, Zenon
      <4>2. (k + 1) - 1 = k
        BY SMT
      <4> QED
        BY <4>1, <4>2, Zenon
    <3>2. PICK x \in Nat : x = EndOf(plan, k)
      BY <1>4, <3>1, Zenon
    <3>3. sorted[k + 1].offset = x /\ sorted[k].offset + sorted[k].size = x
      BY <1>4, <3>1, <3>2, Zenon
    <3> QED
      BY <3>3, SMT
  <2> QED
    BY <2>1, <2>2, Zenon
<1>11. GapOf(d) = 0 /\ OverlapOf(d) = 0
  <2>1. DOMAIN d = 1..n /\ \A k \in 1..n : d[k] = 0
    BY <1>10, Zenon
  <2>2. Greatest({0, 0}) = 0 /\ 0 - 0 = 0
    BY GreaterOfTwo, SMT
  <2>3. [k \in DOMAIN d |-> Greatest({d[k], 0})] = [k \in 1..n |-> 0]
    BY <2>1, <2>2, Zenon
  <2>4. [k \in DOMAIN d |-> Greatest({0 - d[k], 0})] = [k \in 1..n |-> 0]
    BY <2>1, <2>2, Zenon
  <2>5. Total([k \in 1..n |-> 0]) = 0
    BY <1>8, TotalOfNone, Zenon
  <2> QED
    BY <2>3, <2>4, <2>5, Zenon DEF GapOf, OverlapOf
<1> QED
  BY <1>2, <1>6, <1>7, <1>9, <1>11, Zenon DEF sorted

\* What is said of chunks that came once.
LEMMA OnceOrder ==
    ASSUME NEW plan, NEW total, IsPlan(plan, total), NEW arrived \in Seq(ToSet(plan)),
           NEW m, IsOnce(arrived, plan, m)
    PROVE  LET order == ReassemblyOrder(arrived, total)
           IN  /\ order.nextOffset = EndOf(plan, m)
               /\ order.complete <=> plan # <<>> /\ m = Len(plan)
<1>1. PICK l \in Nat : l = Len(plan) /\ DOMAIN plan = 1..l /\ (l = 0 <=> plan = <<>>)
  BY SMT DEF IsPlan
<1>2. m \in 0..l /\ m \in Nat /\ DOMAIN arrived = 1..m /\ (arrived = <<>> <=> m = 0) /\ l \in 0..l
  <2>1. m \in 0..l /\ Len(arrived) = m
    BY <1>1, Zenon DEF IsOnce
  <2> QED
    BY <2>1, SMT
<1>3. PICK sorted : sorted = ByOffset(arrived)
  BY Zenon
<1>4. sorted = [k \in 1..m |-> plan[k]]
  BY <1>3, OnceSorted, Zenon
<1>5. /\ GapOf(Deltas(sorted)) = 0 /\ OverlapOf(Deltas(sorted)) = 0
      /\ Len(sorted) = m /\ Reach(sorted).chunks = m
      /\ Reach(sorted).bytes = EndOf(plan, m)
  BY <1>1, <1>2, <1>4, NothingBetween, Zenon
<1>6. SizeOf(arrived) = EndOf(plan, m)
  BY OnceSize, Zenon
<1>7. DoubledOf(arrived) = {}
  BY DoubledAre, Zenon DEF IsOnce, DoubledOf
<1>8. m # 0 => MissingOf(arrived) = {}
  <2>1. ASSUME m # 0 PROVE MissingOf(arrived) = {}
    <3>1. PICK S : S = Indexes(arrived) /\ S = 0..(m - 1)
      BY Zenon DEF IsOnce
    <3>2. S \in SUBSET Nat /\ m - 1 \in Nat /\ (\A n \in S : n <= m - 1) /\ 0 \in S
      BY <1>2, <2>1, <3>1, SMT
    <3>3. Greatest(S) \in S
      BY <3>2, GreatestIs
    <3>4. PICK g \in 0..(m - 1) : g = Greatest(S)
      BY <3>1, <3>3, Zenon
    <3>5. (0..g) \ S = {}
      BY <1>2, <3>1, SMT
    <3> QED
      BY <3>1, <3>4, <3>5, Zenon DEF MissingOf
  <2> QED
    BY <2>1
<1>9. /\ l # 0 => EndOf(plan, l) = total
      /\ EndOf(plan, m) = EndOf(plan, l) => m = l
  <2>1. /\ EndOf(plan, m) = EndOf(plan, l) => m = l
        /\ plan # <<>> => EndOf(plan, Len(plan)) = total
    BY <1>1, <1>2, EndsRise
  <2> QED
    BY <1>1, <2>1, Zenon
<1>10. ReassemblyOrder(arrived, total).nextOffset = EndOf(plan, m)
  BY <1>3, <1>5, OrderFields, Zenon
<1>11. ReassemblyOrder(arrived, total).complete
         <=> /\ MissingOf(arrived) = {} /\ EndOf(plan, m) = total /\ arrived # <<>>
  BY <1>3, <1>5, <1>6, <1>7, OrderFields, Zenon
<1>12. m # 0 => l # 0
  BY <1>2, SMT
<1> QED
  BY <1>1, <1>2, <1>8, <1>9, <1>10, <1>11, <1>12, Zenon

\* If neither one before the last is missing nor one came twice, each came once.
LEMMA OnceIfWhole ==
    ASSUME NEW plan, NEW total, IsPlan(plan, total), NEW arrived \in Seq(ToSet(plan)),
           arrived # <<>>, MissingOf(arrived) = {}, DoubledOf(arrived) = {}
    PROVE  \E m : IsOnce(arrived, plan, m)
<1>1. PICK l \in Nat : l = Len(plan)
  BY SMT DEF IsPlan
<1>2. PICK S : S = Indexes(arrived)
  BY Zenon
<1>3. S \subseteq 0..(l - 1)
  BY <1>1, <1>2, IndexesCount, Zenon
<1>4. S # {}
  <2>1. 1 \in DOMAIN arrived
    BY SMT
  <2> QED
    BY <1>2, <2>1, Zenon DEF Indexes
<1>5. S \in SUBSET Nat /\ \A n \in S : n <= l
  BY <1>3, SMT
<1>6. Greatest(S) \in S /\ \A n \in S : n <= Greatest(S)
  BY <1>4, <1>5, GreatestIs
<1>7. PICK g \in Nat : g = Greatest(S)
  BY <1>5, <1>6, Zenon
<1>8. (0..g) \ S = {}
  BY <1>2, <1>7, Zenon DEF MissingOf
<1>9. S = 0..((g + 1) - 1) /\ g + 1 \in Nat
  <2>1. \A n \in S : n \in Nat /\ n <= g
    BY <1>5, <1>6, <1>7, Zenon
  <2>2. \A n \in 0..g : n \in S
    BY <1>8, Zenon
  <2>3. 0..((g + 1) - 1) = 0..g /\ g + 1 \in Nat
    BY SMT
  <2>4. \A n \in S : n \in 0..g
    BY <2>1, SMT
  <2> QED
    BY <2>2, <2>3, <2>4, Zenon
<1>10. Distinct(arrived)
  BY DoubledAre, Zenon DEF DoubledOf
<1>11. IsOnce(arrived, plan, g + 1)
  BY <1>2, <1>9, <1>10, OnceByCover, Zenon
<1> QED
  BY <1>11, Zenon

\* What is asked for again is nothing exactly if nothing is missing.
LEMMA NothingAsked ==
    ASSUME NEW arrived, NEW count \in Nat, NEW size
    PROVE  Retransmit(arrived, count, size).runs = {}
             <=> (0..(count - 1)) \ Indexes(arrived) = {}
<1> DEFINE missing == (0..(count - 1)) \ Indexes(arrived)
           request == Retransmit(arrived, count, size)
<1>1. missing = {} => request.runs = {}
  BY SMT DEF Retransmit
<1>2. UNION {r.first .. r.last : r \in request.runs} = missing
  BY RunsAreTheMissing, Zenon
<1> HIDE DEF missing, request
<1>3. request.runs = {} => missing = {}
  BY <1>2, Zenon
<1> QED
  BY <1>1, <1>3, Zenon DEF missing, request

\* Chunks are complete if there are as many as there should be and none is missing.
LEMMA CompleteIs ==
    ASSUME NEW plan, NEW total, IsPlan(plan, total), NEW arrived \in Seq(ToSet(plan)), NEW size
    PROVE  ReassemblyOrder(arrived, total).complete
             <=> /\ plan # <<>> /\ Len(arrived) = Len(plan)
                 /\ Retransmit(arrived, Len(plan), size).runs = {}
<1>1. PICK l \in Nat : l = Len(plan)
  BY SMT DEF IsPlan
<1>2. PICK whole : whole = ReassemblyOrder(arrived, total).complete
  BY Zenon
<1>3. Retransmit(arrived, l, size).runs = {}
        <=> (0..(l - 1)) \ Indexes(arrived) = {}
  BY NothingAsked, Zenon
<1>4. ASSUME whole
      PROVE  plan # <<>> /\ Len(arrived) = l /\ (0..(l - 1)) \ Indexes(arrived) = {}
  <2>1. arrived # <<>> /\ MissingOf(arrived) = {} /\ DoubledOf(arrived) = {}
    BY <1>2, <1>4, OrderFields, Zenon
  <2>2. PICK m : IsOnce(arrived, plan, m)
    BY <2>1, OnceIfWhole, Zenon
  <2>3. plan # <<>> /\ m = l
    BY <1>1, <1>2, <1>4, <2>2, OnceOrder, Zenon
  <2> QED
    BY <2>2, <2>3, Zenon DEF IsOnce
<1>5. ASSUME plan # <<>>, Len(arrived) = l, (0..(l - 1)) \ Indexes(arrived) = {}
      PROVE  whole
  <2>1. Indexes(arrived) \subseteq 0..(l - 1)
    BY <1>1, IndexesCount, Zenon
  <2>2. Indexes(arrived) = 0..(l - 1)
    BY <1>5, <2>1, Zenon
  <2>3. IsOnce(arrived, plan, l)
    BY <1>1, <1>5, <2>2, OnceByCount, Zenon
  <2> QED
    BY <1>1, <1>2, <1>5, <2>3, OnceOrder, Zenon
<1> QED
  BY <1>1, <1>2, <1>3, <1>4, <1>5, Zenon

\* What is said to be missing is among what is asked for again.
LEMMA MissingAreAsked ==
    ASSUME NEW plan, NEW total, IsPlan(plan, total), NEW arrived \in Seq(ToSet(plan))
    PROVE  ReassemblyOrder(arrived, total).missing
             \subseteq (0..(Len(plan) - 1)) \ Indexes(arrived)
<1>1. PICK l \in Nat : l = Len(plan)
  BY SMT DEF IsPlan
<1>2. PICK S : S = Indexes(arrived)
  BY Zenon
<1>3. S \subseteq 0..(l - 1)
  BY <1>1, <1>2, IndexesCount, Zenon
<1>4. CASE arrived = <<>>
  BY <1>4, OrderFields, Zenon
<1>5. CASE arrived # <<>>
  <2>1. S # {}
    <3>1. 1 \in DOMAIN arrived
      BY <1>5, SMT
    <3> QED
      BY <1>2, <3>1, Zenon DEF Indexes
  <2>2. S \in SUBSET Nat /\ \A n \in S : n <= l
    BY <1>3, SMT
  <2>3. Greatest(S) \in S
    BY <2>1, <2>2, GreatestIs
  <2>4. PICK g \in 0..(l - 1) : g = Greatest(S)
    BY <1>3, <2>3, Zenon
  <2>5. (0..g) \ S \subseteq (0..(l - 1)) \ S
    BY SMT
  <2>6. ReassemblyOrder(arrived, total).missing = (0..g) \ S
    BY <1>2, <1>5, <2>4, OrderFields, Zenon DEF MissingOf
  <2> QED
    BY <1>1, <1>2, <2>5, <2>6, Zenon
<1> QED
  BY <1>4, <1>5

\* Sorted by offset, what arrived is still there.
LEMMA SortedAreArrived ==
    ASSUME NEW T, NEW arrived \in Seq(T), \A i \in DOMAIN arrived : arrived[i].offset \in Nat
    PROVE  ByOffset(arrived) \in Seq(T)
<1>1. PICK n \in Nat : n = Len(arrived) /\ DOMAIN arrived = 1..n
  BY SMT
<1> DEFINE before(i) == {j \in DOMAIN arrived :
                           \/ arrived[j].offset < arrived[i].offset
                           \/ arrived[j].offset = arrived[i].offset /\ j < i}
           Rank(i) == Cardinality(before(i))
           Place(k) == CHOOSE i \in DOMAIN arrived : Cardinality(before(i)) = k - 1
           r == [i \in 1..n |-> Rank(i)]
<1>2. ASSUME NEW i \in 1..n, NEW j \in 1..n
      PROVE  /\ i \notin before(i)
             /\ j \in before(i) => before(j) \subseteq before(i)
             /\ i = j \/ j \in before(i) \/ i \in before(j)
  BY <1>1, SMT
<1>3. ASSUME NEW i \in 1..n
      PROVE  before(i) \in SUBSET (1..n)
  BY <1>1, Zenon
<1>4. ByOffset(arrived) = [k \in 1..n |-> arrived[Place(k)]]
  BY <1>1, Zenon DEF ByOffset
<1>5. \A i \in 1..n : Cardinality(before(i)) = Rank(i) /\ r[i] = Rank(i)
  BY Zenon
<1>6. IsFiniteSet(1..n) /\ Cardinality(1..n) = n
  <2>1. 1 \in Int /\ n \in Int /\ (IF 1 > n THEN 0 ELSE n - 1 + 1) = n
    BY SMT
  <2> QED
    BY <2>1, FS_Interval, Zenon
<1>7. IsFiniteSet(0..(n - 1)) /\ Cardinality(0..(n - 1)) = n
  <2>1. 0 \in Int /\ n - 1 \in Int /\ (IF 0 > n - 1 THEN 0 ELSE n - 1 - 0 + 1) = n
    BY SMT
  <2> QED
    BY <2>1, FS_Interval, Zenon
<1> HIDE DEF before
<1>8. ASSUME NEW i \in 1..n
      PROVE  IsFiniteSet(before(i)) /\ Rank(i) \in Nat /\ Rank(i) \in 0..(n - 1)
  <2>1. IsFiniteSet(before(i)) /\ Cardinality(before(i)) <= n
        /\ (n = Cardinality(before(i)) => 1..n = before(i))
    BY <1>3, <1>6, FS_Subset
  <2>2. Cardinality(before(i)) \in Nat
    BY <2>1, FS_CardinalityType, Zenon
  <2>3. n # Cardinality(before(i))
    BY <1>2, <2>1, Zenon
  <2> QED
    BY <2>1, <2>2, <2>3, SMT
<1>9. ASSUME NEW i \in 1..n, NEW j \in 1..n, j \in before(i)
      PROVE  Rank(j) # Rank(i)
  <2>1. before(j) \in SUBSET before(i) /\ before(j) # before(i)
    BY <1>2, <1>9, Zenon
  <2>2. Cardinality(before(i)) = Cardinality(before(j)) => before(i) = before(j)
    BY <1>8, <2>1, FS_Subset
  <2> QED
    BY <2>1, <2>2, Zenon
<1> HIDE DEF Rank, r
<1>10. r \in Injection(1..n, 0..(n - 1))
  <2>1. r = [i \in 1..n |-> Rank(i)]
    BY Zenon DEF r
  <2>2. r \in [1..n -> 0..(n - 1)]
    BY <1>8, <2>1, Zenon
  <2>3. \A i, j \in 1..n : r[i] = r[j] => i = j
    BY <1>2, <1>5, <1>9, Zenon
  <2> QED
    BY <2>2, <2>3, Zenon DEF Injection, IsInjective
<1>11. r \in Surjection(1..n, 0..(n - 1))
  BY <1>6, <1>7, <1>10, FS_Injection
<1>12. ASSUME NEW k \in 1..n PROVE arrived[Place(k)] \in T
  <2>1. k - 1 \in 0..(n - 1)
    BY SMT
  <2>2. PICK i \in 1..n : r[i] = k - 1
    BY <1>11, <2>1, Zenon DEF Surjection
  <2>3. Place(k) \in 1..n
    BY <1>1, <1>5, <2>2, Zenon
  <2> HIDE DEF Place
  <2>4. PICK p \in 1..n : p = Place(k)
    BY <2>3, Zenon
  <2>5. arrived[p] \in T
    BY <1>1, SMT
  <2> QED
    BY <2>4, <2>5, Zenon
<1>13. PICK s : s = ByOffset(arrived)
  BY Zenon
<1>14. s = [k \in 1..n |-> s[k]] /\ \A k \in 1..n : s[k] \in T
  <2>1. s = [k \in 1..n |-> arrived[Place(k)]]
    BY <1>4, <1>13, Zenon
  <2> HIDE DEF Place
  <2> QED
    BY <1>12, <2>1, Zenon
<1>15. s \in Seq(T)
  BY <1>14, SequenceOf, Zenon
<1> QED
  BY <1>13, <1>15, Zenon

\* Chunks reach no further than the dump.
LEMMA ReachFits ==
    ASSUME NEW plan, NEW total \in Nat, IsPlan(plan, total), NEW arrived \in Seq(ToSet(plan))
    PROVE  /\ Reach(ByOffset(arrived)).bytes \in Nat
           /\ Reach(ByOffset(arrived)).bytes <= total
<1>1. PICK l \in Nat : l = Len(plan) /\ DOMAIN plan = 1..l /\ (l = 0 <=> plan = <<>>)
  BY SMT DEF IsPlan
<1>2. \A i \in DOMAIN arrived : arrived[i].offset \in Nat
  <2>1. ASSUME NEW i \in DOMAIN arrived PROVE arrived[i].offset \in Nat
    <3>1. arrived[i].index + 1 \in DOMAIN plan /\ arrived[i] = plan[arrived[i].index + 1]
      BY ArrivedAre, Zenon
    <3>2. PICK k \in DOMAIN plan : arrived[i] = plan[k]
      BY <3>1, Zenon
    <3> QED
      BY <3>2, Zenon DEF IsPlan
  <2> QED
    BY <2>1, Zenon
<1>3. PICK s \in Seq(ToSet(plan)) : s = ByOffset(arrived)
  BY <1>2, SortedAreArrived, Zenon
<1>4. PICK n \in 0..Len(s) : Reach(s).bytes = EndOf(s, n)
  BY ReachIs, Zenon
<1>5. CASE n = 0
  BY <1>3, <1>4, <1>5, SMT DEF EndOf
<1>6. CASE n # 0
  <2>1. n \in DOMAIN s
    BY <1>6, SMT
  <2>2. s[n] \in ToSet(plan)
    BY <2>1, SMT
  <2>3. PICK k \in 1..l : s[n] = plan[k]
    BY <1>1, <2>2, Zenon DEF ToSet
  <2>4. k # 0 /\ k \in 0..l /\ l # 0
    BY SMT
  <2>5. EndOf(s, n) = EndOf(plan, k)
    BY <1>6, <2>3, <2>4, Zenon DEF EndOf
  <2>6. EndOf(plan, k) \in Nat /\ EndOf(plan, k) <= total
    BY <1>1, <2>4, EndsRise, Zenon
  <2> QED
    BY <1>3, <1>4, <2>5, <2>6, Zenon
<1> QED
  BY <1>5, <1>6

\* Numbers in their order, each of a set once.
IsAscending(s, S) ==
    /\ s \in Seq(Nat) /\ ToSet(s) = S
    /\ \A j, k \in DOMAIN s : j < k => s[j] < s[k]

\* The numbers of a set, in their order.
LEMMA AscendingRises ==
    ASSUME NEW S \in SUBSET Nat, NEW top \in Nat, \A n \in S : n <= top
    PROVE  IsAscending(Ascending(S), S)
<1>1. PICK t \in Nat : /\ t = (CHOOSE n \in S \union {0} : \A m \in S : m <= n)
                       /\ \A n \in S : n <= t
  <2>1. (S \union {0}) \in SUBSET Nat /\ (\A n \in S \union {0} : n <= top) /\ S \union {0} # {}
    BY SMT
  <2>2. PICK R : R = S \union {0}
    BY Zenon
  <2>3. Greatest(R) \in R /\ \A n \in R : n <= Greatest(R)
    BY <2>1, <2>2, GreatestIs
  <2>4. \E n \in R : \A m \in S : m <= n
    <3>1. \A m \in S : m \in R
      BY <2>2, Zenon
    <3> QED
      BY <2>3, <3>1, Zenon
  <2>5. PICK t \in R : t = (CHOOSE n \in R : \A m \in S : m <= n) /\ \A m \in S : m <= t
    BY <2>4, Zenon
  <2> QED
    BY <2>1, <2>2, <2>5, Zenon
<1> DEFINE base == [n \in 1..(t + 1) |-> n - 1]
           places == {n + 1 : n \in S}
<1>2. Ascending(S) = EntriesAt(base, places)
  <2> DEFINE highest == CHOOSE n \in S \union {0} : \A m \in S : m <= n
  <2>1. Ascending(S) = EntriesAt([n \in 1..(highest + 1) |-> n - 1], places)
    BY Zenon DEF Ascending
  <2>2. highest = t
    BY <1>1, Zenon
  <2> HIDE DEF highest, places
  <2> QED
    BY <2>1, <2>2, Zenon
<1>3. base \in Seq(Nat) /\ DOMAIN base = 1..(t + 1) /\ \A n \in 1..(t + 1) : base[n] = n - 1
  BY SMT
<1>4. places \in SUBSET (1..(t + 1)) /\ \A p \in places : p \in Nat /\ p - 1 \in S
  <2>1. ASSUME NEW p \in places PROVE p \in 1..(t + 1) /\ p \in Nat /\ p - 1 \in S
    <3>1. PICK n \in S : p = n + 1
      BY Zenon
    <3>2. n <= t /\ n \in Nat
      BY <1>1, Zenon
    <3>3. (n + 1) - 1 = n /\ n + 1 \in 1..(t + 1) /\ n + 1 \in Nat
      BY <3>2, SMT
    <3> QED
      BY <3>1, <3>3, Zenon
  <2> QED
    BY <2>1, Zenon
<1>5. \A n \in S : n + 1 \in places
  BY Zenon
<1> HIDE DEF base, places
<1>6. PICK taken, f : taken = Ascending(S) /\ taken \in Seq(Nat) /\ Takes(taken, base, places, f)
  BY <1>2, <1>3, <1>4, EntriesAreTaken, Zenon
<1>7. PICK l \in Nat : l = Len(taken) /\ DOMAIN taken = 1..l
  BY <1>6, SMT
<1>8. /\ \A k \in 1..l : f[k] \in places /\ taken[k] = base[f[k]]
      /\ \A p \in places : \E k \in 1..l : f[k] = p
      /\ \A j, k \in 1..l : j < k => f[j] < f[k]
  BY <1>6, <1>7, Zenon DEF Takes
<1>9. \A k \in 1..l : f[k] \in Nat /\ taken[k] = f[k] - 1 /\ taken[k] \in S
  <2>1. ASSUME NEW k \in 1..l PROVE f[k] \in Nat /\ taken[k] = f[k] - 1 /\ taken[k] \in S
    <3>1. PICK p \in places : p = f[k]
      BY <1>8, Zenon
    <3>2. p \in 1..(t + 1) /\ p \in Nat /\ p - 1 \in S
      BY <1>4, Zenon
    <3> QED
      BY <1>3, <1>8, <3>1, <3>2, Zenon
  <2> QED
    BY <2>1, Zenon
<1>10. \A n \in S : \E k \in 1..l : taken[k] = n
  <2>1. ASSUME NEW n \in S PROVE \E k \in 1..l : taken[k] = n
    <3>1. PICK k \in 1..l : f[k] = n + 1
      BY <1>5, <1>8, Zenon
    <3>2. (n + 1) - 1 = n
      BY SMT
    <3> QED
      BY <1>9, <3>1, <3>2, Zenon
  <2> QED
    BY <2>1, Zenon
<1>11. ASSUME NEW j \in 1..l, NEW k \in 1..l, j < k PROVE taken[j] < taken[k]
  <2>1. f[j] < f[k] /\ f[j] \in Nat /\ f[k] \in Nat
    BY <1>8, <1>9, <1>11, Zenon
  <2>2. f[j] - 1 < f[k] - 1
    BY <2>1, SMT
  <2> QED
    BY <1>9, <2>2, Zenon
<1>12. ToSet(taken) = S
  BY <1>7, <1>9, <1>10, Zenon DEF ToSet
<1> QED
  BY <1>6, <1>7, <1>11, <1>12, Zenon DEF IsAscending

\* No number of them is listed twice.
LEMMA AscendingAre ==
    ASSUME NEW S \in SUBSET Nat, NEW top \in Nat, \A n \in S : n <= top
    PROVE  /\ Ascending(S) \in Seq(Nat) /\ ToSet(Ascending(S)) = S
           /\ \A j, k \in DOMAIN Ascending(S) : Ascending(S)[j] = Ascending(S)[k] => j = k
<1>1. PICK s : s = Ascending(S) /\ IsAscending(s, S)
  BY AscendingRises, Zenon
<1>2. /\ s \in Seq(Nat) /\ ToSet(s) = S
      /\ \A j, k \in DOMAIN s : j < k => s[j] < s[k]
  BY <1>1, Zenon DEF IsAscending
<1>3. PICK l \in Nat : DOMAIN s = 1..l /\ \A k \in 1..l : s[k] \in Nat
  BY <1>2, SMT
<1>4. ASSUME NEW j \in 1..l, NEW k \in 1..l, s[j] = s[k] PROVE j = k
  <2>1. j < k \/ k < j \/ j = k
    BY SMT
  <2>2. s[j] < s[k] \/ s[k] < s[j] \/ j = k
    BY <1>2, <1>3, <2>1, Zenon
  <2> QED
    BY <1>3, <1>4, <2>2, SMT
<1> QED
  BY <1>1, <1>2, <1>3, <1>4, Zenon

\* Of chunks that came more than once one is kept, and no other is dropped.
LEMMA DedupIs ==
    ASSUME NEW plan, NEW total, IsPlan(plan, total), NEW arrived \in Seq(ToSet(plan))
    PROVE  LET kept == Dedup(arrived).kept
           IN  /\ kept \in Seq(ToSet(plan)) /\ Distinct(kept)
               /\ Indexes(kept) = Indexes(arrived)
<1>1. PICK l \in Nat : l = Len(plan) /\ DOMAIN plan = 1..l
  BY SMT DEF IsPlan
<1>2. PICK S : S = Indexes(arrived)
  BY Zenon
<1>3. S \in SUBSET Nat /\ \A n \in S : n <= l
  <2>1. S \subseteq 0..(l - 1)
    BY <1>1, <1>2, IndexesCount, Zenon
  <2> QED
    BY <2>1, SMT
<1>4. PICK order : order = Ascending(S)
  BY Zenon
<1>5. /\ order \in Seq(Nat) /\ ToSet(order) = S
      /\ \A j, k \in DOMAIN order : order[j] = order[k] => j = k
  BY <1>3, <1>4, AscendingAre, Zenon
<1>6. PICK n \in Nat : n = Len(order) /\ DOMAIN order = 1..n
  BY <1>5, SMT
<1> DEFINE places(x) == {i \in DOMAIN arrived : arrived[i].index = x}
           first(x) == Min(places(x))
           kept == [k \in DOMAIN order |-> arrived[first(order[k])]]
<1>7. Dedup(arrived).kept = kept
  <2>1. Dedup(arrived) = [kept |-> kept,
                                 redundantBytes |-> SizeOf(arrived) - SizeOf(kept)]
    BY <1>2, <1>4, Zenon DEF Dedup
  <2> HIDE DEF kept
  <2> QED
    BY <2>1, SMT
<1>8. ASSUME NEW x \in S
      PROVE  first(x) \in DOMAIN arrived /\ arrived[first(x)].index = x
  <2>1. PICK P : P = places(x)
    BY Zenon
  <2>2. P \in SUBSET DOMAIN arrived /\ P # {}
    <3>1. PICK i \in DOMAIN arrived : arrived[i].index = x
      BY <1>2, Zenon DEF Indexes
    <3> QED
      BY <2>1, <3>1, Zenon
  <2>3. P \in SUBSET Int
    BY <2>2, SMT
  <2>4. PICK m \in P : \A p \in P : m <= p
    BY <2>2, LeastPlace, Zenon
  <2>5. Min(P) = m
    BY <2>3, <2>4, MinIs, Zenon
  <2>6. first(x) \in P
    BY <2>1, <2>4, <2>5, Zenon
  <2> QED
    BY <2>1, <2>6, Zenon
<1> HIDE DEF first
<1>9. ASSUME NEW k \in 1..n
      PROVE  kept[k] \in ToSet(plan) /\ kept[k].index = order[k] /\ order[k] \in S
  <2>1. order[k] \in S
    BY <1>5, <1>6, Zenon DEF ToSet
  <2>2. PICK i \in DOMAIN arrived : i = first(order[k])
    BY <1>8, <2>1, Zenon
  <2>3. arrived[i] \in ToSet(plan)
    BY SMT
  <2>4. kept[k] = arrived[i]
    BY <1>6, <2>2, Zenon
  <2> QED
    BY <1>8, <2>1, <2>2, <2>3, <2>4, Zenon
<1>10. kept = [k \in 1..n |-> kept[k]]
  BY <1>6, Zenon
<1> HIDE DEF kept
<1>11. kept \in Seq(ToSet(plan)) /\ DOMAIN kept = 1..n
  BY <1>9, <1>10, SequenceOf, Zenon
<1>12. Distinct(kept)
  <2>1. ASSUME NEW j \in 1..n, NEW k \in 1..n, kept[j].index = kept[k].index PROVE j = k
    BY <1>5, <1>6, <1>9, <2>1, Zenon
  <2> QED
    BY <1>11, <2>1, Zenon DEF Distinct
<1>13. Indexes(kept) = S
  <2>1. \A x \in S : \E k \in 1..n : order[k] = x
    BY <1>5, <1>6, Zenon DEF ToSet
  <2> QED
    BY <1>9, <1>11, <2>1, Zenon DEF Indexes
<1> QED
  BY <1>2, <1>7, <1>11, <1>12, <1>13, Zenon

\* The chunks of a plan with some indexes are each of them once.
LEMMA SentAre ==
    ASSUME NEW plan, NEW total, IsPlan(plan, total), NEW again \in SUBSET (0..(Len(plan) - 1))
    PROVE  LET sent == EntriesAt(plan, {i \in DOMAIN plan : plan[i].index \in again})
           IN  /\ sent \in Seq(ToSet(plan)) /\ Distinct(sent)
               /\ Indexes(sent) = again
<1>1. PICK l \in Nat : l = Len(plan) /\ DOMAIN plan = 1..l
  BY SMT DEF IsPlan
<1>2. PICK places : places = {i \in DOMAIN plan : plan[i].index \in again}
  BY Zenon
<1>3. places \in SUBSET DOMAIN plan /\ plan \in Seq(ToSet(plan))
  BY <1>2, Zenon DEF IsPlan
<1>4. PICK sent, f : /\ sent = EntriesAt(plan, places) /\ sent \in Seq(ToSet(plan))
                     /\ Takes(sent, plan, places, f)
  BY <1>3, EntriesAreTaken, Zenon
<1>5. PICK n \in Nat : n = Len(sent) /\ DOMAIN sent = 1..n
  BY <1>4, SMT
<1>6. /\ \A k \in 1..n : f[k] \in places /\ sent[k] = plan[f[k]]
      /\ \A p \in places : \E k \in 1..n : f[k] = p
      /\ \A j, k \in 1..n : j < k => f[j] < f[k]
  BY <1>4, <1>5, Zenon DEF Takes
<1>7. \A p \in places : p \in 1..l /\ plan[p].index = p - 1 /\ plan[p].index \in again
  BY <1>1, <1>2, Zenon DEF IsPlan
<1>8. ASSUME NEW k \in 1..n
      PROVE  f[k] \in 1..l /\ sent[k].index = f[k] - 1 /\ sent[k].index \in again
  BY <1>6, <1>7, Zenon
<1>9. ASSUME NEW j \in 1..n, NEW k \in 1..n, sent[j].index = sent[k].index PROVE j = k
  <2>1. f[j] \in 1..l /\ f[k] \in 1..l /\ f[j] - 1 = f[k] - 1
    BY <1>8, <1>9, Zenon
  <2>2. f[j] = f[k] /\ f[j] \in Int
    BY <2>1, SMT
  <2>3. j < k \/ k < j \/ j = k
    BY SMT
  <2>4. f[j] < f[k] \/ f[k] < f[j] \/ j = k
    BY <1>6, <2>3, Zenon
  <2> QED
    BY <2>2, <2>4, SMT
<1>10. ASSUME NEW x \in again PROVE \E k \in 1..n : sent[k].index = x
  <2>1. PICK p \in 1..l : p = x + 1 /\ p - 1 = x
    BY <1>1, SMT
  <2>2. p \in places
    BY <1>1, <1>2, <2>1, Zenon DEF IsPlan
  <2>3. PICK k \in 1..n : f[k] = p
    BY <1>6, <2>2, Zenon
  <2> QED
    BY <1>8, <2>1, <2>3, Zenon
<1>11. Distinct(sent)
  BY <1>5, <1>9, Zenon DEF Distinct
<1>12. Indexes(sent) = again
  <2>1. PICK S : S = Indexes(sent)
    BY Zenon
  <2>2. S = {sent[k].index : k \in 1..n}
    BY <1>5, <2>1, Zenon DEF Indexes
  <2>3. \A x \in S : x \in again
    BY <1>8, <2>2, Zenon
  <2>4. \A x \in again : x \in S
    BY <1>10, <2>2, Zenon
  <2> QED
    BY <2>1, <2>3, <2>4, Zenon
<1> QED
  BY <1>2, <1>4, <1>11, <1>12, Zenon

\* Chunks with the one part of the indexes, and chunks with the rest, are each once.
LEMMA JoinedAreOnce ==
    ASSUME NEW plan, NEW total, IsPlan(plan, total),
           NEW kept \in Seq(ToSet(plan)), NEW sent \in Seq(ToSet(plan)),
           Distinct(kept), Distinct(sent),
           Indexes(sent) = (0..(Len(plan) - 1)) \ Indexes(kept)
    PROVE  (kept \o sent) \in Seq(ToSet(plan)) /\ IsOnce(kept \o sent, plan, Len(plan))
<1>1. PICK l \in Nat : l = Len(plan)
  BY SMT DEF IsPlan
<1>0. PICK all : all = kept \o sent
  BY Zenon
<1>2. PICK m \in Nat, n \in Nat :
         /\ all = kept \o sent /\ m = Len(kept) /\ n = Len(sent)
         /\ all \in Seq(ToSet(plan)) /\ DOMAIN all = 1..(m + n)
         /\ DOMAIN kept = 1..m /\ DOMAIN sent = 1..n
         /\ \A i \in 1..m : all[i] = kept[i]
         /\ \A i \in 1..n : all[m + i] = sent[i]
  <2>1. PICK m \in Nat, n \in Nat : m = Len(kept) /\ n = Len(sent)
    BY SMT
  <2>2. DOMAIN kept = 1..m /\ DOMAIN sent = 1..n
    BY <2>1, SMT
  <2>3. kept \o sent \in Seq(ToSet(plan)) /\ DOMAIN (kept \o sent) = 1..(m + n)
    BY <2>1, SMT
  <2>4. /\ \A i \in 1..m : (kept \o sent)[i] = kept[i]
        /\ \A i \in 1..n : (kept \o sent)[m + i] = sent[i]
    BY <2>1, SMT
  <2> QED
    BY <1>0, <2>1, <2>2, <2>3, <2>4, Zenon
<1>3. ASSUME NEW i \in 1..(m + n)
      PROVE  \/ i \in 1..m /\ all[i] = kept[i] /\ all[i].index \in Indexes(kept)
             \/ \E k \in 1..n : /\ i = m + k /\ all[i] = sent[k]
                                /\ all[i].index \in Indexes(sent)
  <2>1. CASE i <= m
    <3>1. i \in 1..m
      BY <2>1, SMT
    <3> QED
      BY <1>2, <3>1, Zenon DEF Indexes
  <2>2. CASE ~(i <= m)
    <3>1. PICK k \in 1..n : i = m + k
      <4>1. i - m \in 1..n /\ i = m + (i - m)
        BY <2>2, SMT
      <4> QED
        BY <4>1, Zenon
    <3> QED
      BY <1>2, <3>1, Zenon DEF Indexes
  <2> QED
    BY <2>1, <2>2
<1>4. ASSUME NEW i \in 1..(m + n), NEW j \in 1..(m + n), all[i].index = all[j].index
      PROVE  i = j
  <2>1. CASE i \in 1..m /\ j \in 1..m
    BY <1>2, <1>4, <2>1, Zenon DEF Distinct
  <2>2. CASE \E k, h \in 1..n : i = m + k /\ j = m + h
    <3>1. PICK k, h \in 1..n : i = m + k /\ j = m + h
      BY <2>2, Zenon
    <3>2. sent[k].index = sent[h].index
      BY <1>2, <1>4, <3>1, Zenon
    <3> QED
      BY <1>2, <3>1, <3>2, Zenon DEF Distinct
  <2>3. ~(all[i].index \in Indexes(kept) /\ all[i].index \in Indexes(sent))
    BY Zenon
  <2> QED
    BY <1>3, <1>4, <2>1, <2>2, <2>3, Zenon
<1>5. Distinct(all)
  BY <1>2, <1>4, Zenon DEF Distinct
<1>6. Indexes(all) = 0..(l - 1)
  <2>1. PICK A, K, S : /\ A = Indexes(all) /\ K = Indexes(kept)
                       /\ S = Indexes(sent)
    BY Zenon
  <2>2. /\ A = {all[i].index : i \in 1..(m + n)}
        /\ K = {kept[i].index : i \in 1..m}
        /\ S = {sent[i].index : i \in 1..n}
    BY <1>2, <2>1, Zenon DEF Indexes
  <2>3. K \subseteq 0..(l - 1)
    BY <1>1, <2>1, IndexesCount, Zenon
  <2>4. S = (0..(l - 1)) \ K
    BY <1>1, <2>1, Zenon
  <2>5. ASSUME NEW x \in K PROVE x \in A
    <3>1. PICK i \in 1..m : x = kept[i].index
      BY <2>2, Zenon
    <3>2. i \in 1..(m + n)
      BY SMT
    <3> QED
      BY <1>2, <2>2, <3>1, <3>2, Zenon
  <2>6. ASSUME NEW x \in S PROVE x \in A
    <3>1. PICK i \in 1..n : x = sent[i].index
      BY <2>2, Zenon
    <3>2. m + i \in 1..(m + n)
      BY SMT
    <3> QED
      BY <1>2, <2>2, <3>1, <3>2, Zenon
  <2>7. ASSUME NEW x \in A PROVE x \in K \/ x \in S
    BY <1>3, <2>1, <2>2, Zenon
  <2> QED
    BY <2>1, <2>3, <2>4, <2>5, <2>6, <2>7, Zenon
<1>7. IsOnce(all, plan, l)
  BY <1>1, <1>2, <1>5, <1>6, OnceByCover, Zenon
<1> QED
  BY <1>1, <1>2, <1>7, Zenon

\* What is estimated to be sent again is enough.
LEMMA EstimateIsEnough ==
    ASSUME NEW plan, NEW total, IsPlan(plan, total), NEW size \in Nat,
           \A i \in DOMAIN plan : plan[i].size <= size,
           NEW sent \in Seq(ToSet(plan)), Distinct(sent)
    PROVE  Cardinality(Indexes(sent)) * size >= SizeOf(sent)
<1>1. PICK n \in Nat : n = Len(sent) /\ DOMAIN sent = 1..n
  BY SMT
<1>2. ASSUME NEW k \in 1..n PROVE sent[k].size \in Nat /\ sent[k].size <= size
  <2>1. sent[k] \in ToSet(plan)
    BY <1>1, SMT
  <2>2. PICK i \in DOMAIN plan : sent[k] = plan[i]
    BY <2>1, Zenon DEF ToSet
  <2> QED
    BY <2>2, Zenon DEF IsPlan
<1>3. PICK s : s = [k \in 1..n |-> sent[k].size]
  BY Zenon
<1>4. s = [k \in 1..n |-> s[k]] /\ \A k \in 1..n : s[k] \in Nat /\ s[k] <= size
  BY <1>2, <1>3, Zenon
<1>5. s \in Seq(Nat) /\ Len(s) = n /\ DOMAIN s = 1..n
  BY <1>4, SequenceOf, Zenon
<1>6. Total(s) \in Nat /\ Total(s) <= n * size
  BY <1>4, <1>5, TotalAtMost
<1>7. SizeOf(sent) = Total(s)
  BY <1>1, <1>3, Zenon DEF SizeOf
<1>8. Cardinality(Indexes(sent)) = n
  BY <1>1, IndexesCount, Zenon
<1>9. PICK p \in Nat : p = n * size
  BY SMT
<1>10. PICK t \in Nat : t = Total(s) /\ t <= p
  BY <1>6, <1>9, Zenon
<1>11. p >= t
  BY <1>10, SMT
<1> QED
  BY <1>7, <1>8, <1>9, <1>10, <1>11, Zenon

\* However the chunks of a dump of any size arrive, those that are kept and those that are
\* asked for again are the dump, and they are called complete exactly if there are as many
\* as there should be and none is missing (import-chunk-retransmit-request.ts:236,
\* import-chunk-reassembly-order.ts).
THEOREM ArrivedAndAskedAreWhole ==
    ASSUME NEW total \in Nat, NEW size \in Nat, size > 0,
           NEW plan, plan = BuildPlan(total, size), NEW arrived \in Seq(ToSet(plan))
    PROVE  LET order == ReassemblyOrder(arrived, total)
               request == Retransmit(arrived, Len(plan), size)
               again == UNION {r.first .. r.last : r \in request.runs}
               sent == EntriesAt(plan, {i \in DOMAIN plan : plan[i].index \in again})
           IN  /\ DedupAccepts(arrived)
               /\ plan # <<>> =>
                    ReassemblyOrder(Dedup(arrived).kept \o sent, total).complete
               /\ request.estimatedBytes >= SizeOf(sent)
               /\ order.complete <=> /\ plan # <<>> /\ Len(arrived) = Len(plan)
                                     /\ request.runs = {}
               /\ order.missing \subseteq again
<1>2. IsPlan(plan, total) /\ \A i \in DOMAIN plan : plan[i].size <= size
  BY PlanFits, Zenon
<1>4. PICK l \in Nat : l = Len(plan)
  BY <1>2, SMT DEF IsPlan
<1> DEFINE missing == (0..(l - 1)) \ Indexes(arrived)
           request == Retransmit(arrived, l, size)
           sent == EntriesAt(plan, {i \in DOMAIN plan : plan[i].index \in missing})
           kept == Dedup(arrived).kept
<1>5. UNION {r.first .. r.last : r \in request.runs} = missing
  BY RunsAreTheMissing, Zenon
<1>6. request.estimatedBytes = Cardinality(missing) * size
  <2> DEFINE runs == {[first |-> a, last |-> CHOOSE b \in missing :
                          b >= a /\ (a..b) \subseteq missing /\ b + 1 \notin missing] :
                      a \in {n \in missing : n - 1 \notin missing}}
  <2>1. request = [runs |-> runs, estimatedBytes |-> Cardinality(missing) * size]
    BY Zenon DEF Retransmit
  <2> HIDE DEF runs, missing, request
  <2> QED
    BY <2>1, SMT
<1>7. sent \in Seq(ToSet(plan)) /\ Distinct(sent) /\ Indexes(sent) = missing
  <2>1. missing \in SUBSET (0..(Len(plan) - 1))
    BY <1>4, Zenon
  <2>2. PICK again \in SUBSET (0..(Len(plan) - 1)) : again = missing
    BY <2>1, Zenon
  <2>3. PICK s : s = EntriesAt(plan, {i \in DOMAIN plan : plan[i].index \in again})
    BY Zenon
  <2>4. s \in Seq(ToSet(plan)) /\ Distinct(s) /\ Indexes(s) = again
    <3>1. again \in SUBSET (0..(Len(plan) - 1)) /\ IsPlan(plan, total)
      BY <1>2, Zenon
    <3> QED
      BY ONLY <2>3, <3>1, SentAre, Zenon
  <2> QED
    BY <2>2, <2>3, <2>4, Zenon
<1>8. /\ kept \in Seq(ToSet(plan)) /\ Distinct(kept)
      /\ Indexes(kept) = Indexes(arrived)
  BY <1>2, DedupIs, Zenon
<1> HIDE DEF kept, sent, request
<1>9. plan # <<>> => ReassemblyOrder(kept \o sent, total).complete
  <2>1. PICK all : all = kept \o sent
    BY Zenon
  <2>2. all \in Seq(ToSet(plan)) /\ IsOnce(all, plan, l)
    BY <1>2, <1>4, <1>7, <1>8, <2>1, JoinedAreOnce, Zenon
  <2> QED
    BY <1>2, <1>4, <2>1, <2>2, OnceOrder, Zenon
<1>10. request.estimatedBytes >= SizeOf(sent)
  BY <1>2, <1>6, <1>7, EstimateIsEnough, Zenon
<1>11. ReassemblyOrder(arrived, total).complete
         <=> plan # <<>> /\ Len(arrived) = l /\ request.runs = {}
  BY <1>2, <1>4, CompleteIs, Zenon DEF request
<1>12. ReassemblyOrder(arrived, total).missing \subseteq missing
  BY <1>2, <1>4, MissingAreAsked, Zenon
<1>13. DedupAccepts(arrived)
  <2>1. ASSUME NEW i \in DOMAIN arrived, NEW j \in DOMAIN arrived,
               arrived[i].index = arrived[j].index
        PROVE  arrived[i] = arrived[j]
    <3>1. arrived[i] = plan[arrived[i].index + 1]
      BY <1>2, ArrivedAre, Zenon
    <3>2. arrived[j] = plan[arrived[j].index + 1]
      BY <1>2, ArrivedAre, Zenon
    <3> QED
      BY <2>1, <3>1, <3>2, Zenon
  <2> QED
    BY <2>1, Zenon DEF DedupAccepts
<1> HIDE DEF missing
<1> QED
  BY <1>4, <1>5, <1>9, <1>10, <1>11, <1>12, <1>13, Zenon DEF kept, sent, request

\* The lesser of two numbers.
LEMMA LeastOfTwo ==
    ASSUME NEW a \in Nat, NEW b \in Nat, a <= b
    PROVE  Least({a, b}) = a
<1>1. {a, b} \in SUBSET Int /\ a \in {a, b} /\ \A n \in {a, b} : a <= n
  BY SMT
<1>2. PICK S : S = {a, b}
  BY Zenon
<1>3. Min(S) = a
  BY <1>1, <1>2, MinIs, Zenon
<1>4. Least(S) = Min(S)
  BY <1>1, <1>2, Zenon DEF Least
<1> QED
  BY <1>2, <1>3, <1>4, Zenon

\* An upload that is shown as complete is, unless chunks came twice; and if neither one is
\* missing nor one came twice, it is not shown to stand still
\* (import-chunk-upload-progress.ts:250).
THEOREM UploadIsShownAsItIs ==
    ASSUME NEW total \in Nat, NEW size \in Nat, size > 0, total > 0,
           NEW plan, plan = BuildPlan(total, size), NEW arrived \in Seq(ToSet(plan))
    PROVE  LET order == ReassemblyOrder(arrived, total)
               upload == UploadProgress(arrived, total, Len(plan))
           IN  /\ order.complete => upload.complete
               /\ upload.complete /\ ~order.complete => order.doubled # {}
               /\ upload.status = "stalled-incomplete"
                    => order.missing # {} \/ order.doubled # {}
               /\ upload.resumeOffset = order.nextOffset
<1>2. IsPlan(plan, total) /\ plan # <<>>
  BY PlanFits, SMT
<1>4. PICK l \in Nat : l = Len(plan) /\ l # 0
  BY <1>2, SMT DEF IsPlan
<1> DEFINE bytes == SizeOf(arrived)
           resume == Least({Reach(ByOffset(arrived)).bytes, total})
           full == l = 0 \/ (Len(arrived) = l /\ bytes = total)
           order == ReassemblyOrder(arrived, total)
           upload == UploadProgress(arrived, total, l)
           status(whole) == CASE whole -> "complete"
                              [] ~whole /\ arrived = <<>> -> "not-started"
                              [] ~whole /\ arrived # <<>> /\ resume = bytes -> "uploading"
                              [] ~whole /\ arrived # <<>> /\ resume # bytes ->
                                    "stalled-incomplete"
<1>5. PICK whole \in BOOLEAN : whole = full /\ (whole <=> full)
  <2>1. full \in BOOLEAN
    BY Zenon
  <2> HIDE DEF full
  <2> QED
    BY <2>1, Zenon
<1>6. upload = [remainingChunks |-> Greatest({l - Len(arrived), 0}),
                remainingBytes |-> Greatest({total - bytes, 0}),
                resumeOffset |-> resume, complete |-> whole, status |-> status(whole)]
  <2>1. upload = [remainingChunks |-> Greatest({l - Len(arrived), 0}),
                  remainingBytes |-> Greatest({total - bytes, 0}),
                  resumeOffset |-> resume, complete |-> full, status |-> status(full)]
    BY Zenon DEF UploadProgress
  <2> HIDE DEF full, status, upload, resume, bytes
  <2> QED
    BY <1>5, <2>1, Zenon
<1>7. upload.resumeOffset = resume /\ upload.complete = whole /\ upload.status = status(whole)
  <2> HIDE DEF status, upload, resume, bytes
  <2> QED
    BY <1>6, SMT
<1>8. status(whole) = "stalled-incomplete" => ~whole /\ arrived # <<>> /\ resume # bytes
  <2>1. PICK isWhole \in BOOLEAN : isWhole <=> whole
    BY Zenon
  <2> HIDE DEF resume, bytes
  <2> QED
    BY SMT
<1>9. /\ order.complete => bytes = total
      /\ order.missing = IF arrived = <<>> THEN {} ELSE MissingOf(arrived)
      /\ order.doubled = DoubledOf(arrived)
      /\ order.nextOffset = Reach(ByOffset(arrived)).bytes
  BY OrderFields, Zenon
<1>10. order.complete => plan # <<>> /\ Len(arrived) = l
  BY <1>2, <1>4, CompleteIs, Zenon
<1>11. resume = order.nextOffset
  <2>1. PICK r \in Nat : r = Reach(ByOffset(arrived)).bytes /\ r <= total
    BY <1>2, ReachFits, Zenon
  <2>2. Least({r, total}) = r
    BY <2>1, LeastOfTwo
  <2> QED
    BY <1>9, <2>1, <2>2, Zenon
<1>12. ASSUME full, order.doubled = {} PROVE order.complete
  <2>1. Len(arrived) = l
    BY <1>4, <1>12, Zenon
  <2>2. Distinct(arrived)
    BY <1>9, <1>12, DoubledAre, Zenon DEF DoubledOf
  <2>3. IsOnce(arrived, plan, l)
    BY <1>2, <1>4, <2>1, <2>2, OnceByCount, Zenon
  <2> QED
    BY <1>2, <1>4, <2>3, OnceOrder, Zenon
<1>13. ASSUME arrived # <<>>, order.missing = {}, order.doubled = {} PROVE resume = bytes
  <2>1. PICK m : IsOnce(arrived, plan, m)
    BY <1>2, <1>9, <1>13, OnceIfWhole, Zenon
  <2>2. order.nextOffset = EndOf(plan, m)
    BY <1>2, <2>1, OnceOrder, Zenon
  <2>3. bytes = EndOf(plan, m)
    BY <1>2, <2>1, OnceSize, Zenon
  <2> QED
    BY <1>11, <2>2, <2>3, Zenon
<1>14. /\ order.complete => upload.complete
       /\ upload.complete /\ ~order.complete => order.doubled # {}
       /\ upload.status = "stalled-incomplete" => order.missing # {} \/ order.doubled # {}
       /\ upload.resumeOffset = order.nextOffset
  <2>1. order.complete => full
    BY <1>9, <1>10, Zenon
  <2> HIDE DEF order, upload, status, full, resume, bytes
  <2>2. order.complete => upload.complete
    BY <1>5, <1>7, <2>1, Zenon
  <2>3. upload.complete /\ ~order.complete => order.doubled # {}
    <3>1. ASSUME upload.complete, order.doubled = {} PROVE order.complete
      <4>1. full
        BY <1>5, <1>7, <3>1, Zenon
      <4> QED
        BY <1>12, <3>1, <4>1, Zenon
    <3> QED
      BY <3>1, Zenon
  <2>4. upload.status = "stalled-incomplete" => order.missing # {} \/ order.doubled # {}
    BY <1>7, <1>8, <1>13, Zenon
  <2>5. upload.resumeOffset = order.nextOffset
    BY <1>7, <1>11, Zenon
  <2> QED
    BY <2>2, <2>3, <2>4, <2>5, Zenon
<1> QED
  BY <1>4, <1>14, Zenon

------------------------------------------------------------------------------
(* Chunks that are sent: what is damaged, and what a stream broke off of. *)

\* Two neighbouring pieces of a sequence are one.
Meet(dump, a, b, c) ==
    SubSeq(dump, a + 1, b) \o SubSeq(dump, b + 1, c) = SubSeq(dump, a + 1, c)

\* The piece of a dump from after a to b.
LEMMA PieceIs ==
    ASSUME NEW dump \in Seq(Nat), NEW a \in Nat, NEW b \in Nat, a <= b, b <= Len(dump)
    PROVE  /\ SubSeq(dump, a + 1, b) \in Seq(Nat)
           /\ Len(SubSeq(dump, a + 1, b)) = b - a
           /\ \A i \in 1..(b - a) : SubSeq(dump, a + 1, b)[i] = dump[a + i]
<1>1. a + 1 \in Int /\ b \in Int
  BY SMT
<1>2. \A i \in (a + 1)..b : dump[i] \in Nat
  BY SMT
<1>3. PICK s : s = SubSeq(dump, a + 1, b)
  BY Zenon
<1>4. PICK m \in Int, n \in Int : m = a + 1 /\ n = b
  BY <1>1, Zenon
<1>5. /\ SubSeq(dump, m, n) \in Seq(Nat)
      /\ Len(SubSeq(dump, m, n)) = IF m <= n THEN n - m + 1 ELSE 0
      /\ \A i \in 1..(n - m + 1) : SubSeq(dump, m, n)[i] = dump[m + i - 1]
  <2>1. \A i \in m..n : dump[i] \in Nat
    BY <1>2, <1>4, Zenon
  <2> QED
    BY ONLY <2>1, SubSeqProperties
<1>6. s = SubSeq(dump, m, n)
  BY <1>3, <1>4, Zenon
<1>7. Len(s) = b - a
  <2>1. PICK l : l = Len(s) /\ l = IF m <= n THEN n - m + 1 ELSE 0
    BY <1>5, <1>6, Zenon
  <2>2. l = b - a
    BY <1>4, <2>1, SMT
  <2> QED
    BY <2>1, <2>2, Zenon
<1>8. ASSUME NEW i \in 1..(b - a) PROVE s[i] = dump[a + i]
  <2>1. i \in 1..(n - m + 1) /\ m + i - 1 = a + i
    BY <1>4, SMT
  <2> QED
    BY <1>5, <1>6, <2>1, Zenon
<1> QED
  BY <1>3, <1>5, <1>6, <1>7, <1>8, Zenon

\* Two pieces of a dump that meet are one.
LEMMA PiecesMeet ==
    ASSUME NEW dump \in Seq(Nat), NEW a \in Nat, NEW b \in Nat, NEW c \in Nat,
           a <= b, b <= c, c <= Len(dump)
    PROVE  Meet(dump, a, b, c)
<1>0. b <= Len(dump) /\ a <= c
  BY SMT
<1>1. PICK s, t, u : /\ s = SubSeq(dump, a + 1, b) /\ t = SubSeq(dump, b + 1, c)
                     /\ u = SubSeq(dump, a + 1, c)
  BY Zenon
<1>2. /\ s \in Seq(Nat) /\ t \in Seq(Nat) /\ u \in Seq(Nat)
      /\ Len(s) = b - a /\ Len(t) = c - b /\ Len(u) = c - a
      /\ \A i \in 1..(b - a) : s[i] = dump[a + i]
      /\ \A i \in 1..(c - b) : t[i] = dump[b + i]
      /\ \A i \in 1..(c - a) : u[i] = dump[a + i]
  <2>1. /\ s \in Seq(Nat) /\ Len(s) = b - a
        /\ \A i \in 1..(b - a) : s[i] = dump[a + i]
    BY <1>0, <1>1, PieceIs, Zenon
  <2>2. /\ t \in Seq(Nat) /\ Len(t) = c - b
        /\ \A i \in 1..(c - b) : t[i] = dump[b + i]
    BY <1>1, PieceIs, Zenon
  <2>3. /\ u \in Seq(Nat) /\ Len(u) = c - a
        /\ \A i \in 1..(c - a) : u[i] = dump[a + i]
    BY <1>0, <1>1, PieceIs, Zenon
  <2> QED
    BY <2>1, <2>2, <2>3, Zenon
<1>3. PICK v : v = s \o t
  BY Zenon
<1>4. /\ v \in Seq(Nat) /\ Len(v) = c - a
      /\ \A i \in 1..(b - a) : v[i] = s[i]
      /\ \A i \in 1..(c - b) : v[(b - a) + i] = t[i]
  <2>1. /\ s \o t \in Seq(Nat) /\ Len(s \o t) = Len(s) + Len(t)
        /\ \A i \in 1..Len(s) : (s \o t)[i] = s[i]
        /\ \A i \in 1..Len(t) : (s \o t)[Len(s) + i] = t[i]
    <3>1. s \in Seq(Nat) /\ t \in Seq(Nat)
      BY <1>2, Zenon
    <3> QED
      BY ONLY <3>1, SMT
  <2>2. (b - a) + (c - b) = c - a
    BY SMT
  <2> QED
    BY <1>2, <1>3, <2>1, <2>2, Zenon
<1>5. ASSUME NEW i \in 1..(c - a) PROVE v[i] = u[i]
  <2>1. CASE i <= b - a
    <3>1. i \in 1..(b - a)
      BY <2>1, SMT
    <3>2. v[i] = s[i] /\ s[i] = dump[a + i] /\ u[i] = dump[a + i]
      BY <1>2, <1>4, <3>1, Zenon
    <3> QED
      BY <3>2, Zenon
  <2>2. CASE ~(i <= b - a)
    <3>1. PICK j \in 1..(c - b) : j = i - (b - a) /\ i = (b - a) + j /\ b + j = a + i
      BY <2>2, SMT
    <3>2. v[i] = t[j] /\ t[j] = dump[b + j] /\ u[i] = dump[a + i]
      BY <1>2, <1>4, <3>1, Zenon
    <3> QED
      BY <3>1, <3>2, Zenon
  <2> QED
    BY <2>1, <2>2
<1>6. v = u
  BY <1>2, <1>4, <1>5, SMT
<1> QED
  BY <1>1, <1>3, <1>6, Zenon DEF Meet

\* Pieces that follow one another are the stretch from the first to the last.
LEMMA PiecesJoined ==
    ASSUME NEW dump \in Seq(Nat), NEW seqs \in Seq(Seq(Nat)), NEW l \in Nat, Len(seqs) = l,
           NEW ends, \A i \in 0..l : ends[i] \in Nat /\ ends[i] <= Len(dump),
           \A i \in 1..l : /\ ends[i - 1] <= ends[i]
                           /\ seqs[i] = SubSeq(dump, ends[i - 1] + 1, ends[i])
    PROVE  FlattenSeq(seqs) = SubSeq(dump, ends[0] + 1, ends[l])
<1>1. DOMAIN seqs = 1..l
  BY SMT
<1>2. CASE l = 0
  <2>1. seqs = <<>>
    BY <1>2, SMT
  <2>2. FlattenSeq(seqs) = <<>>
    BY <1>2, <2>1, Zenon DEF FlattenSeq
  <2>3. PICK n \in Nat : n = ends[0] /\ n = ends[l]
    BY <1>2, SMT
  <2>4. SubSeq(dump, n + 1, n) = <<>>
    BY SMT
  <2> QED
    BY <2>2, <2>3, <2>4, Zenon
<1>3. CASE l # 0
  <2>1. PICK joined : /\ joined = (CHOOSE j : IsJoined(seqs, l, j))
                      /\ IsJoined(seqs, l, joined)
    <3>1. l \in Nat \ {0}
      BY <1>3, Zenon
    <3> QED
      BY <3>1, JoinedExists, Zenon
  <2>2. FlattenSeq(seqs) = joined[l]
    BY <1>1, <1>3, <2>1, Zenon DEF FlattenSeq, IsJoined
  <2>3. \A n \in 1..l : joined[n] = IF n = 1 THEN seqs[n] ELSE joined[n - 1] \o seqs[n]
    BY <2>1, Zenon DEF IsJoined
  <2> DEFINE Fits(n) == /\ joined[n] = SubSeq(dump, ends[0] + 1, ends[n])
                        /\ ends[0] <= ends[n]
             S == {n \in 1..l : ~Fits(n)}
  <2>4. ASSUME S # {} PROVE FALSE
    <3>1. PICK m \in S : \A k \in S : m <= k
      <4>1. S \in SUBSET Nat
        BY SMT
      <4> HIDE DEF S
      <4> QED
        BY <2>4, <4>1, LeastOfSet, Zenon
    <3>2. m # 1
      <4>1. 1 \in 1..l /\ 1 - 1 = 0
        BY <1>3, SMT
      <4>2. Fits(1)
        BY <2>3, <4>1, Zenon
      <4> QED
        BY <3>1, <4>2, Zenon
    <3>3. PICK k \in 1..l : k = m - 1 /\ k \notin S /\ m \in 1..l
      <4>1. m - 1 \in 1..l /\ ~(m <= m - 1) /\ m \in 1..l
        BY <3>1, <3>2, SMT
      <4> QED
        BY <3>1, <4>1, Zenon
    <3>4. Fits(k)
      BY <3>3, Zenon
    <3>5. joined[m] = joined[k] \o seqs[m]
      BY <2>3, <3>2, <3>3, Zenon
    <3>6. PICK a \in Nat, b \in Nat, c \in Nat :
            /\ a = ends[0] /\ b = ends[k] /\ c = ends[m] /\ a <= b /\ b <= c /\ c <= Len(dump)
      <4>1. 0 \in 0..l /\ k \in 0..l /\ m \in 0..l
        BY <3>3, SMT
      <4> QED
        BY <3>3, <3>4, <4>1, Zenon
    <3>7. seqs[m] = SubSeq(dump, b + 1, c)
      BY <3>3, <3>6, Zenon
    <3>8. joined[m] = SubSeq(dump, a + 1, c) /\ a <= c
      <4>1. joined[k] = SubSeq(dump, a + 1, b)
        BY <3>4, <3>6, Zenon
      <4>2. SubSeq(dump, a + 1, b) \o SubSeq(dump, b + 1, c) = SubSeq(dump, a + 1, c)
        <5>1. Meet(dump, a, b, c)
          BY <3>6, PiecesMeet, Zenon
        <5> QED
          BY <5>1, Zenon DEF Meet
      <4>3. a <= c
        BY ONLY <3>6, SMT
      <4> QED
        BY <3>5, <3>7, <4>1, <4>2, <4>3, Zenon
    <3>9. Fits(m)
      BY <3>6, <3>8, Zenon
    <3> QED
      BY <3>1, <3>9, Zenon
  <2>5. l \in 1..l
    BY <1>3, SMT
  <2>6. Fits(l)
    BY <2>4, <2>5, Zenon
  <2> QED
    BY <2>2, <2>6, Zenon
<1> QED
  BY <1>2, <1>3

\* The slices of a dump by a plan that tiles it; and the stretch of them after the
\* first a.
IsSliced(plan, total, dump, slices) ==
    /\ total \in Nat /\ IsPlan(plan, total) /\ (plan = <<>> <=> total = 0)
    /\ dump \in Seq(Nat) /\ Len(dump) = total
    /\ slices = Slice(dump, plan)
AreOf(pieces, slices, a, n) ==
    DOMAIN pieces = 1..n /\ \A i \in 1..n : pieces[i] = slices[a + i]
StreamsFrom(pieces, dump, first, last) == Stream(pieces) = SubSeq(dump, first + 1, last)

\* The slice of a chunk is the piece of the dump from its offset to its end.
LEMMA SliceIs ==
    ASSUME NEW plan, NEW total, NEW dump, NEW slices, IsSliced(plan, total, dump, slices),
           NEW i \in DOMAIN plan
    PROVE  /\ DOMAIN slices = DOMAIN plan
           /\ slices[i].chunk = plan[i]
           /\ slices[i].bytes = SubSeq(dump, EndOf(plan, i - 1) + 1, EndOf(plan, i))
           /\ slices[i].bytes \in Seq(Nat)
<1> SUFFICES ASSUME total \in Nat, IsPlan(plan, total), dump \in Seq(Nat), Len(dump) = total,
                    slices = Slice(dump, plan)
             PROVE  /\ DOMAIN slices = DOMAIN plan
                    /\ slices[i].chunk = plan[i]
                    /\ slices[i].bytes = SubSeq(dump, EndOf(plan, i - 1) + 1, EndOf(plan, i))
                    /\ slices[i].bytes \in Seq(Nat)
  BY Zenon DEF IsSliced
<1>1. slices = [j \in DOMAIN plan |->
                  [chunk |-> plan[j],
                   bytes |-> SubSeq(dump, plan[j].offset + 1, plan[j].offset + plan[j].size)]]
  BY Zenon DEF Slice
<1>2. /\ DOMAIN slices = DOMAIN plan /\ slices[i].chunk = plan[i]
      /\ slices[i].bytes = SubSeq(dump, plan[i].offset + 1, plan[i].offset + plan[i].size)
  <2>1. PICK f : f = [j \in DOMAIN plan |->
                       SubSeq(dump, plan[j].offset + 1, plan[j].offset + plan[j].size)]
    BY Zenon
  <2>2. slices = [j \in DOMAIN plan |-> [chunk |-> plan[j], bytes |-> f[j]]]
    BY <1>1, <2>1, Zenon
  <2>3. DOMAIN slices = DOMAIN plan /\ slices[i] = [chunk |-> plan[i], bytes |-> f[i]]
    BY <2>2, Zenon
  <2>4. [chunk |-> plan[i], bytes |-> f[i]].chunk = plan[i]
        /\ [chunk |-> plan[i], bytes |-> f[i]].bytes = f[i]
    BY Zenon
  <2> QED
    BY <2>1, <2>3, <2>4, Zenon
<1>3. PICK o \in Nat, z \in Nat : /\ o = plan[i].offset /\ z = plan[i].size
                                  /\ o = EndOf(plan, i - 1)
  BY Zenon DEF IsPlan
<1>4. EndOf(plan, i) = o + z
  <2>1. i # 0
    BY SMT DEF IsPlan
  <2> QED
    BY <1>3, <2>1, Zenon DEF EndOf
<1>5. SubSeq(dump, o + 1, o + z) \in Seq(Nat)
  <2>1. i \in 0..Len(plan) /\ plan # <<>>
    BY SMT DEF IsPlan
  <2>2. EndOf(plan, i) <= total
    BY <2>1, EndsRise
  <2> QED
    BY <1>4, <2>2, SMT
<1> QED
  BY <1>2, <1>3, <1>4, <1>5, Zenon

\* Slices that follow one another are streamed as the stretch of the dump they are of.
LEMMA StreamIs ==
    ASSUME NEW plan, NEW total, NEW dump, NEW slices, IsSliced(plan, total, dump, slices),
           NEW a \in Nat, NEW l \in Nat, NEW b \in Nat, b = a + l, b <= Len(plan),
           NEW pieces, AreOf(pieces, slices, a, l)
    PROVE  StreamsFrom(pieces, dump, EndOf(plan, a), EndOf(plan, b))
<1> SUFFICES ASSUME total \in Nat, IsPlan(plan, total), dump \in Seq(Nat), Len(dump) = total,
                    DOMAIN pieces = 1..l, \A i \in 1..l : pieces[i] = slices[a + i]
             PROVE  Stream(pieces) = SubSeq(dump, EndOf(plan, a) + 1, EndOf(plan, b))
  BY Zenon DEF IsSliced, AreOf, StreamsFrom
<1>1. l = b - a
  BY SMT
<1> DEFINE seqs == [i \in 1..l |-> pieces[i].bytes]
           ends == [i \in 0..l |-> EndOf(plan, a + i)]
<1>2. Stream(pieces) = FlattenSeq(seqs)
  BY <1>1, Zenon DEF Stream
<1>3. \A i \in 0..l : ends[i] = EndOf(plan, a + i)
  BY Zenon
<1>4. ASSUME NEW i \in 0..l PROVE a + i \in 0..Len(plan) /\ ends[i] \in Nat /\ ends[i] <= total
  <2>1. a + i \in 0..Len(plan)
    BY <1>1, SMT DEF IsPlan
  <2>2. EndOf(plan, a + i) \in Nat /\ (plan # <<>> => EndOf(plan, a + i) <= total)
    BY <2>1, EndsRise
  <2>3. plan = <<>> => EndOf(plan, a + i) = 0
    <3>1. plan = <<>> => a + i = 0
      BY <2>1, SMT
    <3> QED
      BY <3>1, Zenon DEF EndOf
  <2> HIDE DEF ends
  <2> QED
    BY <1>3, <2>1, <2>2, <2>3, SMT
<1>5. ASSUME NEW i \in 1..l
      PROVE  /\ i - 1 \in 0..l /\ i \in 0..l /\ ends[i - 1] <= ends[i]
             /\ seqs[i] = SubSeq(dump, ends[i - 1] + 1, ends[i]) /\ seqs[i] \in Seq(Nat)
  <2>1. i - 1 \in 0..l /\ i \in 0..l /\ a + i \in DOMAIN plan /\ a + (i - 1) = (a + i) - 1
        /\ a + i \in 0..Len(plan) /\ (a + i) - 1 \in 0..Len(plan)
    BY <1>1, SMT DEF IsPlan
  <2>2. /\ slices[a + i].bytes = SubSeq(dump, EndOf(plan, (a + i) - 1) + 1, EndOf(plan, a + i))
        /\ slices[a + i].bytes \in Seq(Nat)
    BY ONLY <2>1, IsSliced(plan, total, dump, slices), SliceIs
  <2>3. ends[i - 1] = EndOf(plan, (a + i) - 1) /\ ends[i] = EndOf(plan, a + i)
    BY <1>3, <2>1, Zenon
  <2>4. seqs[i] = slices[a + i].bytes
    BY <1>1, Zenon
  <2>5. EndOf(plan, (a + i) - 1) < EndOf(plan, a + i)
    <3>1. (a + i) - 1 < a + i
      BY SMT
    <3> QED
      BY <2>1, <3>1, EndsRise
  <2>6. ends[i - 1] <= ends[i]
    <3>1. ends[i - 1] \in Nat /\ ends[i] \in Nat /\ ends[i - 1] < ends[i]
      BY <1>4, <2>1, <2>3, <2>5, Zenon
    <3> HIDE DEF ends
    <3> QED
      BY <3>1, SMT
  <2> QED
    BY <2>1, <2>2, <2>3, <2>4, <2>6, Zenon
<1>6. seqs \in Seq(Seq(Nat)) /\ Len(seqs) = l
  <2>1. PICK U : U = Seq(Nat)
    BY Zenon
  <2>2. seqs \in [1..l -> U]
    <3>1. DOMAIN seqs = 1..l /\ \A i \in 1..l : seqs[i] \in U
      BY <1>5, <2>1, Zenon
    <3> QED
      BY <3>1, Zenon
  <2> HIDE DEF seqs
  <2>3. seqs \in Seq(U) /\ Len(seqs) = l
    BY <2>2, SMT
  <2> QED
    BY <2>1, <2>3, Zenon
<1>7. ends[0] = EndOf(plan, a) /\ ends[l] = EndOf(plan, b)
  <2>1. 0 \in 0..l /\ l \in 0..l /\ a + 0 = a /\ a + l = b
    BY <1>1, SMT
  <2> QED
    BY <1>3, <2>1, Zenon
<1>8. FlattenSeq(seqs) = SubSeq(dump, ends[0] + 1, ends[l])
  <2> HIDE DEF seqs, ends
  <2>1. \A i \in 0..l : ends[i] \in Nat /\ ends[i] <= Len(dump)
    BY <1>4, Zenon
  <2>2. \A i \in 1..l : ends[i - 1] <= ends[i] /\ seqs[i] = SubSeq(dump, ends[i - 1] + 1, ends[i])
    BY <1>5, Zenon
  <2>3. ASSUME NEW s \in Seq(Seq(Nat)), NEW n \in Nat, Len(s) = n, NEW e,
               \A i \in 0..n : e[i] \in Nat /\ e[i] <= Len(dump),
               \A i \in 1..n : e[i - 1] <= e[i] /\ s[i] = SubSeq(dump, e[i - 1] + 1, e[i])
        PROVE  FlattenSeq(s) = SubSeq(dump, e[0] + 1, e[n])
    BY ONLY <2>3, dump \in Seq(Nat), s \in Seq(Seq(Nat)), n \in Nat, PiecesJoined
  <2> QED
    BY <1>1, <1>6, <2>1, <2>2, <2>3, Zenon
<1> QED
  BY <1>2, <1>7, <1>8, Zenon

\* All slices are the dump.
LEMMA StreamIsDump ==
    ASSUME NEW plan, NEW total, NEW dump, NEW slices, IsSliced(plan, total, dump, slices)
    PROVE  Stream(slices) = dump
<1>1. /\ total \in Nat /\ IsPlan(plan, total) /\ (plan = <<>> <=> total = 0)
      /\ dump \in Seq(Nat) /\ Len(dump) = total /\ slices = Slice(dump, plan)
  BY Zenon DEF IsSliced
<1>2. PICK l \in Nat : l = Len(plan) /\ DOMAIN plan = 1..l /\ (l = 0 <=> plan = <<>>)
  BY ONLY <1>1, SMT DEF IsPlan
<1>3. AreOf(slices, slices, 0, l)
  <2>1. DOMAIN slices = 1..l
    BY <1>1, <1>2, Zenon DEF Slice
  <2>2. \A i \in 1..l : 0 + i = i
    BY SMT
  <2> QED
    BY <2>1, <2>2, Zenon DEF AreOf
<1>4. StreamsFrom(slices, dump, EndOf(plan, 0), EndOf(plan, l))
  <2>1. l = 0 + l /\ l <= Len(plan) /\ 0 \in Nat
    BY <1>2, SMT
  <2> QED
    BY <1>3, <2>1, StreamIs, Zenon
<1>5. EndOf(plan, 0) = 0 /\ EndOf(plan, l) = total
  <2>1. EndOf(plan, 0) = 0
    BY Zenon DEF EndOf
  <2>2. plan # <<>> => EndOf(plan, l) = total
    <3>1. l \in 0..Len(plan)
      BY <1>2, SMT
    <3> QED
      BY <1>1, <1>2, <3>1, EndsRise
  <2> QED
    BY <1>1, <1>2, <2>1, <2>2, Zenon
<1>6. SubSeq(dump, 0 + 1, total) = dump
  BY <1>1, SMT
<1> QED
  BY <1>4, <1>5, <1>6, Zenon DEF StreamsFrom

\* A chunk of the plan selects its slice, and no other has its index.
AreSelected(again, slices, chunks) ==
    /\ DOMAIN again = DOMAIN chunks
    /\ \A i \in DOMAIN chunks : again[i] = slices[chunks[i].index + 1]

\* What is selected by chunks of the plan is their slices.
LEMMA SelectedAre ==
    ASSUME NEW plan, NEW total, NEW dump, NEW slices, IsSliced(plan, total, dump, slices),
           NEW chunks \in Seq(ToSet(plan))
    PROVE  /\ AreSelected(SelectSlices(slices, chunks), slices, chunks)
           /\ SlicesMatch(slices, chunks)
<1>0. total \in Nat /\ IsPlan(plan, total)
  BY Zenon DEF IsSliced
<1>1. PICK l \in Nat : l = Len(plan) /\ DOMAIN plan = 1..l
  BY <1>0, SMT DEF IsPlan
<1>2. \A p \in 1..l : DOMAIN slices = 1..l /\ slices[p].chunk = plan[p] /\ plan[p].index = p - 1
  <2>1. \A p \in DOMAIN plan : DOMAIN slices = DOMAIN plan /\ slices[p].chunk = plan[p]
    BY ONLY IsSliced(plan, total, dump, slices), SliceIs
  <2> QED
    BY <1>0, <1>1, <2>1, Zenon DEF IsPlan
<1>3. ASSUME NEW i \in DOMAIN chunks
      PROVE  /\ chunks[i].index + 1 \in 1..l
             /\ slices[chunks[i].index + 1].chunk = chunks[i]
             /\ slices[chunks[i].index + 1] \in ToSet(slices)
             /\ (CHOOSE s \in ToSet(slices) : s.chunk.index = chunks[i].index)
                   = slices[chunks[i].index + 1]
  <2>1. PICK p \in 1..l : p = chunks[i].index + 1 /\ chunks[i] = plan[p]
    BY <1>0, <1>1, ArrivedAre, Zenon
  <2>2. slices[p] \in ToSet(slices) /\ slices[p].chunk = chunks[i]
    BY <1>2, <2>1, Zenon DEF ToSet
  <2>3. ASSUME NEW s \in ToSet(slices), s.chunk.index = chunks[i].index PROVE s = slices[p]
    <3>1. PICK q \in 1..l : s = slices[q]
      BY <1>2, <2>1, Zenon DEF ToSet
    <3>2. q - 1 = p - 1
      BY <1>2, <2>1, <2>3, <3>1, Zenon
    <3>3. q = p
      BY <3>2, SMT
    <3> QED
      BY <3>1, <3>3, Zenon
  <2> QED
    BY <2>1, <2>2, <2>3, Zenon
<1>4. DOMAIN SelectSlices(slices, chunks) = DOMAIN chunks
      /\ \A i \in DOMAIN chunks :
            SelectSlices(slices, chunks)[i]
               = CHOOSE s \in ToSet(slices) : s.chunk.index = chunks[i].index
  BY Zenon DEF SelectSlices
<1>5. SlicesMatch(slices, chunks)
  BY <1>3, Zenon DEF SlicesMatch
<1> QED
  BY <1>3, <1>4, <1>5, Zenon DEF AreSelected

\* Whose checksum does not hold is what failed.
LEMMA FailedAre ==
    ASSUME NEW plan, NEW total, IsPlan(plan, total), NEW x \in SUBSET DOMAIN plan,
           NEW reconcile, reconcile = Reconcile(plan, [i \in DOMAIN plan |-> i \notin x])
    PROVE  /\ reconcile.failed \in Seq(ToSet(plan))
           /\ \E f : Takes(reconcile.failed, plan, x, f)
           /\ reconcile.refetchBytes = SizeOf(reconcile.failed)
           /\ IsFiniteSet(x) /\ Len(reconcile.failed) = Cardinality(x)
<1>1. PICK l \in Nat : l = Len(plan) /\ DOMAIN plan = 1..l /\ plan \in Seq(ToSet(plan))
  BY SMT DEF IsPlan
<1> DEFINE intact == [i \in 1..l |-> i \notin x]
           places == {i \in 1..l : ~intact[plan[i].index + 1]}
           failed == EntriesAt(plan, places)
<1>2. reconcile.failed = failed /\ reconcile.refetchBytes = SizeOf(failed)
  <2>1. PICK whole \in BOOLEAN : whole = (failed = <<>>) /\ (whole <=> failed = <<>>)
    BY Zenon
  <2>2. PICK count, ranges, size :
            /\ count = Len(plan) - Len(failed)
            /\ ranges = [i \in DOMAIN failed |-> ByteRange(failed[i])]
            /\ size = SizeOf(failed)
    BY Zenon
  <2>3. reconcile = [allIntact |-> failed = <<>>, intactCount |-> Len(plan) - Len(failed),
                     failed |-> failed,
                     ranges |-> [i \in DOMAIN failed |-> ByteRange(failed[i])],
                     refetchBytes |-> SizeOf(failed)]
    BY <1>1, Zenon DEF Reconcile
  <2> HIDE DEF failed
  <2>4. reconcile = [allIntact |-> whole, intactCount |-> count, failed |-> failed,
                     ranges |-> ranges, refetchBytes |-> size]
    BY <2>1, <2>2, <2>3, Zenon
  <2>5. PICK r : r = [allIntact |-> whole, intactCount |-> count, failed |-> failed,
                      ranges |-> ranges, refetchBytes |-> size]
    BY Zenon
  <2>6. r.failed = failed /\ r.refetchBytes = size
    BY <2>5, SMT
  <2> QED
    BY <2>2, <2>4, <2>5, <2>6, Zenon
<1>3. places = x
  <2>1. ASSUME NEW i \in 1..l PROVE ~intact[plan[i].index + 1] <=> i \in x
    <3>1. plan[i].index + 1 = i
      <4>1. plan[i].index = i - 1 /\ (i - 1) + 1 = i
        BY <1>1, SMT DEF IsPlan
      <4> QED
        BY <4>1, Zenon
    <3>2. intact[i] = (i \notin x)
      BY Zenon
    <3> QED
      BY <3>1, <3>2, Zenon
  <2> HIDE DEF intact
  <2> QED
    BY <1>1, <2>1, Zenon
<1>4. failed = EntriesAt(plan, x)
  BY <1>3, Zenon
<1>5. PICK f : Takes(failed, plan, x, f) /\ failed \in Seq(ToSet(plan))
  BY <1>1, <1>4, EntriesAreTaken, Zenon
<1> HIDE DEF failed
<1>6. PICK n \in Nat : n = Len(failed)
  BY <1>5, SMT
<1>7. /\ f \in [1..n -> x] /\ \A p \in x : \E k \in 1..n : f[k] = p
      /\ \A j, k \in 1..n : j < k => f[j] < f[k]
  BY <1>5, <1>6, Zenon DEF Takes
<1>8. IsFiniteSet(x) /\ Cardinality(x) = n
  <2>1. f \in Seq(x) /\ Len(f) = n /\ DOMAIN f = 1..n
    BY <1>7, SMT
  <2>2. ASSUME NEW j \in 1..n, NEW k \in 1..n, f[j] = f[k] PROVE j = k
    <3>1. f[j] \in Int /\ f[k] \in Int
      BY <1>1, <1>7, SMT
    <3>2. j < k \/ k < j \/ j = k
      BY SMT
    <3>3. f[j] < f[k] \/ f[k] < f[j] \/ j = k
      BY <1>7, <3>2, Zenon
    <3> QED
      BY <2>2, <3>1, <3>3, SMT
  <2>3. ToSet(f) = x
    <3>1. \A i \in 1..n : f[i] \in x
      BY <1>7, SMT
    <3> QED
      BY <1>7, <2>1, <3>1, Zenon DEF ToSet
  <2> QED
    BY <2>1, <2>2, <2>3, OnceCounts, Zenon
<1> QED
  BY <1>2, <1>5, <1>6, <1>8, Zenon

\* A dump whose chunks at x are damaged, and fetched again.
RefetchRepairs(total, size, x) ==
    LET plan == BuildPlan(total, size)
        dump == [i \in 1..total |-> i]
        slices == Slice(dump, plan)
        failed == Reconcile(plan, [i \in DOMAIN plan |-> i \notin x]).failed
        again == SelectSlices(slices, failed)
        Repaired(i) == IF i \in x
                       THEN CHOOSE s \in {again[k] : k \in DOMAIN again} :
                               s.chunk.index = i - 1
                       ELSE slices[i]
    IN  /\ Stream(slices) = dump
        /\ SlicesMatch(slices, failed)
        /\ Len(again) = Cardinality(x)
        /\ Stream([i \in DOMAIN plan |-> Repaired(i)]) = dump

\* A dump is whole once the damaged chunks were fetched again: for every dump, every
\* size of chunks and whichever of them are damaged (export-dump-refetch-slice.ts:150).
THEOREM DamagedIsRepaired ==
    ASSUME NEW total \in Nat, NEW size \in Nat, size > 0,
           NEW x \in SUBSET DOMAIN BuildPlan(total, size)
    PROVE  RefetchRepairs(total, size, x)
<1> DEFINE plan == BuildPlan(total, size)
           dump == [i \in 1..total |-> i]
           slices == Slice(dump, plan)
           reconcile == Reconcile(plan, [i \in DOMAIN plan |-> i \notin x])
           failed == reconcile.failed
           again == SelectSlices(slices, failed)
<1>1. /\ plan = BuildPlan(total, size) /\ dump = [i \in 1..total |-> i]
      /\ slices = Slice(dump, plan)
      /\ reconcile = Reconcile(plan, [i \in DOMAIN plan |-> i \notin x])
      /\ failed = reconcile.failed /\ again = SelectSlices(slices, failed)
  OBVIOUS
<1> HIDE DEF plan, dump, slices, reconcile, failed, again
<1>2. IsPlan(plan, total) /\ (plan = <<>> <=> total = 0)
  BY <1>1, PlanFits, Zenon
<1>3. dump \in Seq(Nat) /\ Len(dump) = total
  <2>1. [i \in 1..total |-> i] \in Seq(Nat) /\ Len([i \in 1..total |-> i]) = total
    BY SMT
  <2> QED
    BY <1>1, <2>1, Zenon
<1>5. IsSliced(plan, total, dump, slices)
  BY <1>1, <1>2, <1>3, Zenon DEF IsSliced
<1>4. /\ Stream(slices) = dump /\ DOMAIN slices = DOMAIN plan
      /\ slices = [i \in DOMAIN plan |-> slices[i]]
  <2>1. Stream(slices) = dump
    BY <1>5, StreamIsDump, Zenon
  <2>2. /\ DOMAIN Slice(dump, plan) = DOMAIN plan
        /\ Slice(dump, plan) = [i \in DOMAIN plan |-> Slice(dump, plan)[i]]
    BY Zenon DEF Slice
  <2> QED
    BY <1>1, <2>1, <2>2, Zenon
<1>6. PICK f : /\ failed \in Seq(ToSet(plan))
               /\ Takes(failed, plan, x, f) /\ Len(failed) = Cardinality(x)
  BY <1>1, <1>2, FailedAre, Zenon
<1>7. PICK n \in Nat : n = Len(failed) /\ DOMAIN failed = 1..n
  BY <1>6, SMT
<1>9. /\ DOMAIN again = 1..n /\ SlicesMatch(slices, failed)
      /\ \A k \in 1..n : again[k] = slices[failed[k].index + 1]
  <2>1. /\ DOMAIN SelectSlices(slices, failed) = DOMAIN failed
        /\ \A i \in DOMAIN failed :
              SelectSlices(slices, failed)[i] = slices[failed[i].index + 1]
        /\ SlicesMatch(slices, failed)
    <3>1. AreSelected(SelectSlices(slices, failed), slices, failed) /\ SlicesMatch(slices, failed)
      BY <1>5, <1>6, SelectedAre, Zenon
    <3> QED
      BY <3>1, Zenon DEF AreSelected
  <2> QED
    BY <1>1, <1>7, <2>1, Zenon
<1>10. Len(again) = Cardinality(x)
  <2>1. again = [k \in 1..n |-> again[k]]
    <3>1. SelectSlices(slices, failed)
             = [k \in DOMAIN failed |-> SelectSlices(slices, failed)[k]]
      <4> DEFINE chosen(k) == CHOOSE s \in ToSet(slices) : s.chunk.index = failed[k].index
      <4>1. SelectSlices(slices, failed) = [k \in DOMAIN failed |-> chosen(k)]
        BY Zenon DEF SelectSlices
      <4> HIDE DEF chosen
      <4> QED
        BY <4>1, Zenon
    <3> QED
      BY <1>1, <1>7, <3>1, Zenon
  <2>2. Len(again) = n
    BY <2>1, ValuesOfSequence, Zenon
  <2> QED
    BY <1>6, <1>7, <2>2, Zenon
<1>11. /\ \A k \in 1..n : f[k] \in x /\ failed[k] = plan[f[k]]
       /\ \A p \in x : \E k \in 1..n : f[k] = p
  BY <1>6, <1>7, Zenon DEF Takes
<1>12. \A i \in DOMAIN plan : /\ plan[i].index = i - 1 /\ plan[i].index + 1 = i
                              /\ slices[i].chunk = plan[i]
  <2>1. ASSUME NEW i \in DOMAIN plan
        PROVE  plan[i].index = i - 1 /\ plan[i].index + 1 = i /\ slices[i].chunk = plan[i]
    <3>1. plan[i].index = i - 1 /\ (i - 1) + 1 = i
      BY <1>2, SMT DEF IsPlan
    <3>2. slices[i].chunk = plan[i]
      BY ONLY <1>5, i \in DOMAIN plan, SliceIs
    <3> QED
      BY <3>1, <3>2, Zenon
  <2> QED
    BY <2>1, Zenon
<1> DEFINE fetched(i) == CHOOSE s \in {again[k] : k \in DOMAIN again} : s.chunk.index = i - 1
           Repaired(i) == IF i \in x THEN fetched(i) ELSE slices[i]
<1>13. ASSUME NEW i \in DOMAIN plan PROVE Repaired(i) = slices[i]
  <2>1. CASE i \notin x
    BY <2>1, Zenon
  <2>2. CASE i \in x
    <3>1. ASSUME NEW k \in 1..n
          PROVE  f[k] \in DOMAIN plan /\ again[k] = slices[f[k]]
                 /\ again[k].chunk.index = f[k] - 1
      <4>1. f[k] \in DOMAIN plan
        BY <1>1, <1>11, Zenon
      <4>2. PICK p \in DOMAIN plan : p = f[k]
        BY <4>1, Zenon
      <4>3. failed[k].index + 1 = p /\ slices[p].chunk.index = p - 1
        BY <1>11, <1>12, <4>2, Zenon
      <4> QED
        BY <1>9, <4>2, <4>3, Zenon
    <3>2. PICK k \in 1..n : f[k] = i
      BY <1>11, <2>2, Zenon
    <3>3. slices[i] \in {again[j] : j \in DOMAIN again} /\ slices[i].chunk.index = i - 1
      BY <1>9, <3>1, <3>2, Zenon
    <3>4. ASSUME NEW s \in {again[j] : j \in DOMAIN again}, s.chunk.index = i - 1
          PROVE  s = slices[i]
      <4>1. PICK j \in 1..n : s = again[j]
        BY <1>9, Zenon
      <4>2. f[j] - 1 = i - 1 /\ f[j] \in DOMAIN plan
        BY <3>1, <3>4, <4>1, Zenon
      <4>3. f[j] = i
        <5>1. i \in Int /\ f[j] \in Int
          BY <1>2, <4>2, SMT DEF IsPlan
        <5> QED
          BY <4>2, <5>1, SMT
      <4> QED
        BY <3>1, <4>1, <4>3, Zenon
    <3>5. fetched(i) = slices[i]
      BY <3>3, <3>4, Zenon
    <3> QED
      BY <2>2, <3>5, Zenon
  <2> QED
    BY <2>1, <2>2, Zenon
<1>14. Stream([i \in DOMAIN plan |-> Repaired(i)]) = dump
  <2>1. [i \in DOMAIN plan |-> Repaired(i)] = [i \in DOMAIN plan |-> slices[i]]
    <3> HIDE DEF Repaired
    <3> QED
      BY <1>13, Zenon
  <2> HIDE DEF Repaired
  <2> QED
    BY <1>4, <2>1, Zenon
<1> QED
  BY <1>4, <1>9, <1>10, <1>14, Zenon
     DEF RefetchRepairs, plan, dump, slices, reconcile, failed, again

\* The first chunks reach to their end.
LEMMA PrefixReaches ==
    ASSUME NEW plan, NEW total \in Nat, IsPlan(plan, total), NEW k \in 0..Len(plan)
    PROVE  SizeOf(SubSeq(plan, 1, k)) = EndOf(plan, k)
<1>1. PICK l \in Nat : l = Len(plan) /\ DOMAIN plan = 1..l /\ plan \in Seq(ToSet(plan))
  BY SMT DEF IsPlan
<1>2. PICK c : /\ c = SubSeq(plan, 1, k) /\ Len(c) = k /\ DOMAIN c = 1..k
               /\ \A i \in 1..k : c[i] = plan[i]
  <2>1. PICK T : T = ToSet(plan)
    BY Zenon
  <2>2. plan \in Seq(T)
    BY <1>1, <2>1, Zenon
  <2>3. /\ Len(SubSeq(plan, 1, k)) = k /\ DOMAIN SubSeq(plan, 1, k) = 1..k
        /\ \A i \in 1..k : SubSeq(plan, 1, k)[i] = plan[i]
    BY <1>1, <2>2, SMT
  <2> QED
    BY <2>3, Zenon
<1> DEFINE s == [i \in 1..k |-> c[i].size]
           e == [i \in 0..k |-> EndOf(plan, i)]
<1>3. SizeOf(c) = Total(s)
  BY <1>2, Zenon DEF SizeOf
<1>4. k \in Nat /\ Len(s) = k
  BY SMT
<1>5. \A i \in 0..k : e[i] = EndOf(plan, i)
  BY Zenon
<1>6. ASSUME NEW i \in 1..k PROVE e[i] = e[i - 1] + s[i]
  <2>1. i \in 0..k /\ i - 1 \in 0..k /\ i \in 0..Len(plan) /\ i > 0
    BY <1>1, SMT
  <2>2. EndOf(plan, i) = EndOf(plan, i - 1) + plan[i].size
    BY <2>1, EndsRise
  <2>3. s[i] = plan[i].size
    BY <1>2, Zenon
  <2> HIDE DEF s, e
  <2> QED
    BY <1>5, <2>1, <2>2, <2>3, Zenon
<1>7. e[0] = 0 /\ e[k] = EndOf(plan, k)
  <2>1. 0 \in 0..k /\ k \in 0..k /\ EndOf(plan, 0) = 0
    BY <1>4, SMT DEF EndOf
  <2> QED
    BY <1>5, <2>1, Zenon
<1>8. Total(s) = e[k]
  <2> HIDE DEF s, e
  <2> QED
    BY ONLY <1>4, <1>6, <1>7, TotalIs
<1> QED
  BY <1>2, <1>3, <1>7, <1>8, Zenon

\* What is said of a stream that broke off after k chunks.
IsReached(r, plan, total, k) ==
    /\ r.transferred = EndOf(plan, k) /\ r.total = total
    /\ r.remaining = total - EndOf(plan, k)
    /\ r.complete \in BOOLEAN /\ (r.complete <=> k = Len(plan))
    /\ r.current = IF k = Len(plan) THEN <<>> ELSE <<ByteRange(plan[k + 1])>>

\* It is said so, wherever it broke off.
LEMMA ReachedIs ==
    ASSUME NEW plan, NEW total \in Nat, IsPlan(plan, total), NEW k \in 0..Len(plan),
           NEW r, r = Progress(plan, total, k)
    PROVE  IsReached(r, plan, total, k)
<1>1. SizeOf(SubSeq(plan, 1, k)) = EndOf(plan, k)
  BY PrefixReaches, Zenon
<1>2. PICK whole \in BOOLEAN : whole = (k = Len(plan)) /\ (whole <=> k = Len(plan))
  BY Zenon
<1>3. PICK end, rest, left, next :
        /\ end = EndOf(plan, k) /\ rest = Len(plan) - k /\ left = total - end
        /\ next = IF k = Len(plan) THEN <<>> ELSE <<ByteRange(plan[k + 1])>>
  BY Zenon
<1>4. r = [remainingChunks |-> Len(plan) - k,
           transferred |-> SizeOf(SubSeq(plan, 1, k)),
           remaining |-> total - SizeOf(SubSeq(plan, 1, k)),
           total |-> total,
           complete |-> k = Len(plan),
           current |-> IF k = Len(plan) THEN <<>> ELSE <<ByteRange(plan[k + 1])>>]
  BY Zenon DEF Progress
<1>5. r = [remainingChunks |-> rest, transferred |-> end, remaining |-> left,
           total |-> total, complete |-> whole, current |-> next]
  BY <1>1, <1>2, <1>3, <1>4, Zenon
<1>6. /\ r.transferred = end /\ r.total = total /\ r.remaining = left
      /\ r.complete = whole /\ r.current = next
  BY <1>5, SMT
<1> QED
  BY <1>2, <1>3, <1>6, Zenon DEF IsReached

\* The chunks of the plan after the first k.
IsRest(rest, plan, k, n) ==
    rest \in Seq(ToSet(plan)) /\ Len(rest) = n /\ \A i \in 1..n : rest[i] = plan[k + i]

\* What is asked for after the first k.
IsResumed(r, plan, k) ==
    /\ r.fromByte = EndOf(plan, k)
    /\ r.remainingChunks = SubSeq(plan, k + 1, Len(plan))
    /\ r.needed \in BOOLEAN /\ (r.needed <=> k # Len(plan))
    /\ r.range = IF k = Len(plan) THEN <<>> ELSE <<ByteRange(plan[k + 1])>>
    /\ IsRest(r.remainingChunks, plan, k, Len(plan) - k)

\* What is to be resumed after k chunks.
LEMMA ResumedIs ==
    ASSUME NEW plan, NEW total \in Nat, IsPlan(plan, total), NEW k \in 0..Len(plan),
           NEW n \in Nat, n = Len(plan) - k, NEW r, r = ResumePlan(plan, total, k)
    PROVE  IsResumed(r, plan, k)
<1>1. SizeOf(SubSeq(plan, 1, k)) = EndOf(plan, k)
  BY PrefixReaches, Zenon
<1>2. PICK l \in Nat : l = Len(plan) /\ DOMAIN plan = 1..l /\ plan \in Seq(ToSet(plan))
  BY SMT DEF IsPlan
<1>3. PICK rest : /\ rest = SubSeq(plan, k + 1, l)
                  /\ rest \in Seq(ToSet(plan)) /\ Len(rest) = n
                  /\ \A i \in 1..n : rest[i] = plan[k + i]
                  /\ rest = <<>> <=> k = l
  <2>1. PICK T : T = ToSet(plan)
    BY Zenon
  <2>2. plan \in Seq(T)
    BY <1>2, <2>1, Zenon
  <2>3. /\ SubSeq(plan, k + 1, l) \in Seq(T)
        /\ Len(SubSeq(plan, k + 1, l)) = n
        /\ \A i \in 1..n : SubSeq(plan, k + 1, l)[i] = plan[k + i]
    BY <1>2, <2>2, SMT
  <2>4. SubSeq(plan, k + 1, l) = <<>> <=> k = l
    <3>1. PICK t \in Seq(T) : t = SubSeq(plan, k + 1, l) /\ Len(t) = n
      BY <2>3, Zenon
    <3>2. t = <<>> <=> Len(t) = 0
      BY ONLY t \in Seq(T), SMT
    <3>3. Len(t) = 0 <=> k = l
      BY <1>2, <3>1, SMT
    <3> QED
      BY <3>1, <3>2, <3>3, Zenon
  <2> QED
    BY <2>1, <2>3, <2>4, Zenon
<1>4. PICK more \in BOOLEAN : more = (rest # <<>>) /\ (more <=> rest # <<>>)
  BY Zenon
<1>5. PICK end, left, next :
        /\ end = EndOf(plan, k) /\ left = total - end
        /\ next = IF rest = <<>> THEN <<>> ELSE <<ByteRange(rest[1])>>
  BY Zenon
<1>6. r = [needed |-> rest # <<>>,
           fromByte |-> SizeOf(SubSeq(plan, 1, k)),
           remainingBytes |-> total - SizeOf(SubSeq(plan, 1, k)),
           remainingChunks |-> rest,
           range |-> IF rest = <<>> THEN <<>> ELSE <<ByteRange(rest[1])>>]
  BY <1>2, <1>3, Zenon DEF ResumePlan
<1>7. r = [needed |-> more, fromByte |-> end, remainingBytes |-> left,
           remainingChunks |-> rest, range |-> next]
  BY <1>1, <1>4, <1>5, <1>6, Zenon
<1>8. /\ r.needed = more /\ r.fromByte = end /\ r.remainingChunks = rest /\ r.range = next
  BY <1>7, SMT
<1>9. k # l => rest[1] = plan[k + 1]
  <2>1. k # l => 1 \in 1..n
    BY <1>2, SMT
  <2> QED
    BY <1>3, <2>1, Zenon
<1>10. next = IF k = l THEN <<>> ELSE <<ByteRange(plan[k + 1])>>
  BY <1>3, <1>5, <1>9, Zenon
<1> QED
  BY <1>2, <1>3, <1>4, <1>5, <1>8, <1>10, Zenon DEF IsRest, IsResumed

\* The rest of a stream, at whatever chunk it broke off, makes it the dump.
LEMMA RestIsDump ==
    ASSUME NEW plan, NEW total, NEW dump, NEW slices, IsSliced(plan, total, dump, slices),
           NEW k \in 0..Len(plan)
    PROVE  Stream(SubSeq(slices, 1, k))
             \o Stream(SelectSlices(slices, ResumePlan(plan, total, k).remainingChunks)) = dump
<1>1. /\ total \in Nat /\ IsPlan(plan, total) /\ (plan = <<>> <=> total = 0)
      /\ dump \in Seq(Nat) /\ Len(dump) = total /\ slices = Slice(dump, plan)
  BY Zenon DEF IsSliced
<1>2. PICK l \in Nat : l = Len(plan) /\ DOMAIN plan = 1..l /\ (l = 0 <=> plan = <<>>)
  BY ONLY <1>1, SMT DEF IsPlan
<1>3. PICK n \in Nat : n = l - k /\ l = k + n /\ k \in Nat
  <2>1. l - k \in Nat /\ l = k + (l - k) /\ k \in Nat
    BY <1>2, SMT
  <2> QED
    BY <2>1, Zenon
<1>4. DOMAIN slices = 1..l /\ slices \in Seq(ToSet(slices)) /\ Len(slices) = l
  <2>1. slices = [i \in 1..l |-> slices[i]]
    BY <1>1, <1>2, Zenon DEF Slice
  <2> QED
    BY <2>1, ValuesOfSequence, Zenon
<1>5. AreOf(SubSeq(slices, 1, k), slices, 0, k)
  <2>1. PICK T : T = ToSet(slices)
    BY Zenon
  <2>2. slices \in Seq(T)
    BY <1>4, <2>1, Zenon
  <2>3. /\ DOMAIN SubSeq(slices, 1, k) = 1..k
        /\ \A i \in 1..k : SubSeq(slices, 1, k)[i] = slices[0 + i]
    BY <1>2, <1>4, <2>2, SMT
  <2> QED
    BY <2>3, Zenon DEF AreOf
<1>6. PICK end \in Nat : /\ end = EndOf(plan, k) /\ end <= total /\ EndOf(plan, 0) = 0
                         /\ EndOf(plan, l) = total
  <2>1. EndOf(plan, 0) = 0
    BY Zenon DEF EndOf
  <2>2. l \in 0..Len(plan) /\ (l = 0 => k = 0) /\ 0 <= total
    BY <1>1, <1>2, SMT
  <2>3. EndOf(plan, k) \in Nat /\ (plan # <<>> => EndOf(plan, l) = total /\ EndOf(plan, k) <= total)
    BY <1>1, <1>2, <2>2, EndsRise
  <2> QED
    BY <1>1, <1>2, <2>1, <2>2, <2>3, Zenon
<1>7. StreamsFrom(SubSeq(slices, 1, k), dump, EndOf(plan, 0), EndOf(plan, k))
  <2>1. k = 0 + k /\ k <= Len(plan) /\ k \in Nat /\ 0 \in Nat
    BY <1>2, SMT
  <2> QED
    BY <1>5, <2>1, StreamIs, Zenon
<1>8. PICK rest : /\ rest = ResumePlan(plan, total, k).remainingChunks
                  /\ rest \in Seq(ToSet(plan)) /\ Len(rest) = n
                  /\ \A i \in 1..n : rest[i] = plan[k + i]
  <2>1. IsRest(ResumePlan(plan, total, k).remainingChunks, plan, k, n)
    <3>1. IsResumed(ResumePlan(plan, total, k), plan, k)
      BY <1>1, <1>2, <1>3, ResumedIs, Zenon
    <3> QED
      BY <1>2, <1>3, <3>1, Zenon DEF IsResumed
  <2> QED
    BY <2>1, Zenon DEF IsRest
<1>9. AreOf(SelectSlices(slices, rest), slices, k, n)
  <2>1. /\ DOMAIN SelectSlices(slices, rest) = DOMAIN rest
        /\ \A i \in DOMAIN rest : SelectSlices(slices, rest)[i] = slices[rest[i].index + 1]
    <3>1. AreSelected(SelectSlices(slices, rest), slices, rest)
      BY <1>8, SelectedAre, Zenon
    <3> QED
      BY <3>1, Zenon DEF AreSelected
  <2>2. DOMAIN rest = 1..n
    BY <1>8, SMT
  <2>3. ASSUME NEW i \in 1..n PROVE rest[i].index + 1 = k + i
    <3>1. k + i \in DOMAIN plan /\ ((k + i) - 1) + 1 = k + i
      BY <1>2, <1>3, SMT
    <3>2. plan[k + i].index = (k + i) - 1
      BY <1>1, <3>1, Zenon DEF IsPlan
    <3> QED
      BY <1>8, <3>1, <3>2, Zenon
  <2>4. ASSUME NEW i \in 1..n PROVE SelectSlices(slices, rest)[i] = slices[k + i]
    BY <2>1, <2>2, <2>3, Zenon
  <2> QED
    BY <2>1, <2>2, <2>4, Zenon DEF AreOf
<1>10. StreamsFrom(SelectSlices(slices, rest), dump, EndOf(plan, k), EndOf(plan, l))
  <2>1. l <= Len(plan)
    BY <1>2, SMT
  <2> QED
    BY <1>3, <1>9, <2>1, StreamIs, Zenon
<1>11. Stream(SubSeq(slices, 1, k)) \o Stream(SelectSlices(slices, rest)) = dump
  <2>1. PICK a, b : /\ a = SubSeq(dump, 0 + 1, end) /\ b = SubSeq(dump, end + 1, total)
                    /\ a \o b = SubSeq(dump, 0 + 1, total)
    <3>1. 0 \in Nat /\ 0 <= end /\ total <= Len(dump)
      BY <1>1, <1>6, SMT
    <3> QED
      <4>1. Meet(dump, 0, end, total)
        BY <1>1, <1>6, <3>1, PiecesMeet, Zenon
      <4> QED
        BY <4>1, Zenon DEF Meet
  <2>2. SubSeq(dump, 0 + 1, total) = dump
    BY <1>1, SMT
  <2>3. Stream(SubSeq(slices, 1, k)) = a /\ Stream(SelectSlices(slices, rest)) = b
    BY <1>6, <1>7, <1>10, <2>1, Zenon DEF StreamsFrom
  <2> QED
    BY <2>1, <2>2, <2>3, Zenon
<1> QED
  BY <1>8, <1>11, Zenon

\* A stream that has moved if time has passed.
GotOn(progress, elapsed) ==
    /\ progress.complete \in BOOLEAN
    /\ elapsed \in Nat
    /\ elapsed > 0 => progress.transferred # 0
IsSample(sample, progress) ==
    /\ sample.transferred = progress.transferred
    /\ sample.complete = progress.complete
    /\ ~sample.stalled

\* A sample of a stream that got on.
LEMMA SampleIs ==
    ASSUME NEW progress, NEW elapsed, GotOn(progress, elapsed)
    PROVE  IsSample(Throughput(progress, elapsed), progress)
<1> USE DEF GotOn
<1> DEFINE bytes == progress.transferred
           whole == progress.complete
           stalled == ~progress.complete /\ elapsed > 0 /\ progress.transferred = 0
           known == progress.remaining = 0 \/ (elapsed > 0 /\ progress.transferred > 0)
           rate == IF elapsed = 0 THEN 0 ELSE (progress.transferred * 1000) \div elapsed
<1>1. ~stalled
  BY Zenon
<1>2. PICK sample : sample = Throughput(progress, elapsed)
  BY Zenon
<1>3. sample = [transferred |-> bytes, complete |-> whole, rate |-> rate,
                etaKnown |-> known, stalled |-> stalled]
  BY <1>2, Zenon DEF Throughput
<1> HIDE DEF bytes, whole, stalled, known, rate
<1>4. sample.transferred = bytes /\ sample.complete = whole /\ sample.stalled = stalled
  BY <1>3, SMT
<1> QED
  BY <1>1, <1>2, <1>4, Zenon DEF IsSample, bytes, whole

\* Samples that get on, and the last of which is of the whole.
LEMMA SeriesIs ==
    ASSUME NEW n \in Nat, n > 0, NEW samples, DOMAIN samples = 1..n, Len(samples) = n,
           samples # <<>>, \A i \in 1..n : ~samples[i].stalled,
           \A i \in 1..n : i > 1 => samples[i].transferred >= samples[i - 1].transferred,
           samples[n].complete
    PROVE  LET series == Series(samples)
           IN  series.complete /\ series.monotonic /\ series.stalledSamples = 0
<1> DEFINE rates == {samples[i].rate : i \in DOMAIN samples}
           stalled == {i \in DOMAIN samples : samples[i].stalled}
           rising == \A i \in DOMAIN samples : i > 1 =>
                        samples[i].transferred >= samples[i - 1].transferred
           ended == samples # <<>> /\ samples[Len(samples)].complete
<1>1. PICK series : series = Series(samples)
  BY Zenon
<1>2. series = [peak |-> Greatest(rates), least |-> Least(rates),
                stalledSamples |-> Cardinality(stalled),
                stalledWindows |-> Cardinality({i \in stalled : i - 1 \notin stalled}),
                monotonic |-> rising,
                complete |-> ended]
  BY <1>1, Zenon DEF Series
<1>3. stalled = {}
  BY Zenon
<1>4. rising /\ ended
  BY Zenon
<1>5. PICK a \in BOOLEAN, b \in BOOLEAN : a = rising /\ b = ended
  BY Zenon
<1>6. a /\ b
  BY <1>4, <1>5, Zenon
<1> HIDE DEF rates, stalled, rising, ended
<1>7. PICK p, q, r, w : /\ p = Greatest(rates) /\ q = Least(rates) /\ r = Cardinality(stalled)
                        /\ w = Cardinality({i \in stalled : i - 1 \notin stalled})
  BY Zenon
<1>8. series = [peak |-> p, least |-> q, stalledSamples |-> r, stalledWindows |-> w,
                monotonic |-> a, complete |-> b]
  BY <1>2, <1>5, <1>7, Zenon
<1>9. series.stalledSamples = r /\ series.monotonic = a /\ series.complete = b
  BY <1>8, Zenon
<1>10. r = 0
  BY <1>3, <1>7, FS_EmptySet, Zenon
<1> QED
  BY <1>1, <1>6, <1>9, <1>10, Zenon

\* A stream of a dump, that breaks off and is resumed.
ResumeGoesOn(total, size) ==
    LET plan == BuildPlan(total, size)
        slices == Slice([i \in 1..total |-> i], plan)
        Reached(k) == Progress(plan, total, k)
        Resumed(k) == ResumePlan(plan, total, k)
        series == Series([k \in 1..(Len(plan) + 1) |-> Throughput(Reached(k - 1), k - 1)])
    IN  /\ \A k \in 0..Len(plan) :
             /\ Stream(SubSeq(slices, 1, k)) \o
                  Stream(SelectSlices(slices, Resumed(k).remainingChunks))
                = [i \in 1..total |-> i]
             /\ Resumed(k).range = Reached(k).current
             /\ Resumed(k).fromByte = Reached(k).transferred
             /\ Resumed(k).needed <=> ~Reached(k).complete
             /\ ThroughputAccepts(Reached(k))
        /\ series.complete /\ series.monotonic /\ series.stalledSamples = 0

\* Wherever a stream breaks off, what is resumed goes on at the next byte and ends with
\* the last; what is said of its progress is never contradictory and never goes back:
\* for every dump and every size of chunks (export-chunk-resume-plan.ts:173).
THEOREM ResumedGoesOn ==
    ASSUME NEW total \in Nat, NEW size \in Nat, size > 0
    PROVE  ResumeGoesOn(total, size)
<1> DEFINE plan == BuildPlan(total, size)
           dump == [i \in 1..total |-> i]
           slices == Slice(dump, plan)
           Reached(k) == Progress(plan, total, k)
           Resumed(k) == ResumePlan(plan, total, k)
           samples == [k \in 1..(Len(plan) + 1) |-> Throughput(Reached(k - 1), k - 1)]
<1>1. IsPlan(plan, total) /\ (plan = <<>> <=> total = 0)
  BY PlanFits, Zenon
<1>2. dump \in Seq(Nat) /\ Len(dump) = total
  BY SMT
<1>3. IsSliced(plan, total, dump, slices)
  <2>1. slices = Slice(dump, plan)
    BY Zenon
  <2> HIDE DEF plan, dump, slices
  <2> QED
    BY <1>1, <1>2, <2>1, Zenon DEF IsSliced
<1> HIDE DEF plan, dump, slices
<1>4. PICK l \in Nat : l = Len(plan) /\ DOMAIN plan = 1..l /\ (l = 0 <=> plan = <<>>)
  BY ONLY <1>1, SMT DEF IsPlan
<1>5. ASSUME NEW k \in 0..l
      PROVE  /\ Reached(k).transferred = EndOf(plan, k) /\ Reached(k).total = total
             /\ Reached(k).remaining = total - EndOf(plan, k)
             /\ Reached(k).complete \in BOOLEAN /\ (Reached(k).complete <=> k = l)
             /\ Reached(k).current = IF k = l THEN <<>> ELSE <<ByteRange(plan[k + 1])>>
  <2>1. PICK r : r = Reached(k) /\ r = Progress(plan, total, k)
    BY Zenon
  <2>2. k \in 0..Len(plan)
    BY <1>4, Zenon
  <2>3. IsReached(r, plan, total, k)
    BY <1>1, <2>1, <2>2, ReachedIs, Zenon
  <2> QED
    BY <1>4, <2>1, <2>3, Zenon DEF IsReached
<1>6. ASSUME NEW k \in 0..l
      PROVE  /\ Resumed(k).fromByte = EndOf(plan, k)
             /\ Resumed(k).needed \in BOOLEAN /\ (Resumed(k).needed <=> k # l)
             /\ Resumed(k).range = IF k = l THEN <<>> ELSE <<ByteRange(plan[k + 1])>>
  <2>1. PICK r : r = Resumed(k) /\ r = ResumePlan(plan, total, k)
    BY Zenon
  <2>2. PICK n \in Nat : n = Len(plan) - k /\ k \in 0..Len(plan)
    <3>1. l - k \in Nat
      BY SMT
    <3> QED
      BY <1>4, <3>1, Zenon
  <2>3. IsResumed(r, plan, k)
    BY <1>1, <2>1, <2>2, ResumedIs, Zenon
  <2> QED
    BY <1>4, <2>1, <2>3, Zenon DEF IsResumed
<1>7. ASSUME NEW k \in 0..l
      PROVE  /\ EndOf(plan, k) \in Nat /\ EndOf(plan, k) <= total
             /\ (k = l <=> EndOf(plan, k) = total)
             /\ (k > 0 => EndOf(plan, k) > 0 /\ EndOf(plan, k) >= EndOf(plan, k - 1))
  <2>1. k \in 0..Len(plan) /\ 0 \in 0..Len(plan) /\ l \in 0..Len(plan) /\ EndOf(plan, 0) = 0
    BY <1>4, SMT DEF EndOf
  <2>2. /\ EndOf(plan, k) \in Nat
        /\ (plan # <<>> => EndOf(plan, l) = total /\ EndOf(plan, k) <= total)
    BY <1>1, <1>4, <2>1, EndsRise
  <2>3. EndOf(plan, k) = EndOf(plan, l) => k = l
    BY <1>1, <2>1, EndsRise
  <2>4. plan = <<>> => k = 0 /\ l = 0 /\ total = 0
    BY <1>1, <1>4, SMT
  <2>5. k > 0 => EndOf(plan, k) > 0 /\ EndOf(plan, k) >= EndOf(plan, k - 1)
    <3>1. SUFFICES ASSUME k > 0 PROVE EndOf(plan, k) > 0 /\ EndOf(plan, k) >= EndOf(plan, k - 1)
      BY Zenon
    <3>2. k - 1 \in 0..Len(plan) /\ k - 1 < k /\ 0 < k
      BY <1>4, <3>1, SMT
    <3>3. EndOf(plan, k - 1) \in Nat /\ EndOf(plan, k - 1) < EndOf(plan, k)
      BY <1>1, <2>1, <3>2, EndsRise
    <3> QED
      BY <2>2, <3>3, SMT
  <2> QED
    BY <2>1, <2>2, <2>3, <2>4, <2>5, SMT
<1>8. ASSUME NEW k \in 0..l PROVE ThroughputAccepts(Reached(k))
  <2>1. PICK t \in Nat : t = EndOf(plan, k) /\ t <= total /\ (k = l <=> t = total)
    BY <1>7, Zenon
  <2>2. PICK r : r = Reached(k) /\ r.transferred = t /\ r.total = total /\ r.remaining = total - t
                 /\ (r.complete <=> k = l)
    BY <1>5, <2>1, Zenon
  <2>3. t + (total - t) = total /\ (t = total <=> total - t = 0)
    BY SMT
  <2>4. ThroughputAccepts(r)
    BY <2>1, <2>2, <2>3, Zenon DEF ThroughputAccepts
  <2> QED
    BY <2>2, <2>4, Zenon
<1>9. ASSUME NEW k \in 0..l
      PROVE  Stream(SubSeq(slices, 1, k)) \o
                Stream(SelectSlices(slices, Resumed(k).remainingChunks)) = dump
  <2>1. k \in 0..Len(plan)
    BY <1>4, Zenon
  <2> QED
    BY <1>3, <2>1, RestIsDump, Zenon
<1>10. PICK m \in Nat : m = l + 1 /\ m > 0
  BY SMT
<1>11. DOMAIN samples = 1..m /\ Len(samples) = m /\ samples # <<>>
       /\ \A k \in 1..m : samples[k] = Throughput(Reached(k - 1), k - 1)
  <2>1. samples = [k \in 1..m |-> Throughput(Reached(k - 1), k - 1)]
    BY <1>4, <1>10, Zenon
  <2>2. samples = [k \in 1..m |-> samples[k]]
    BY <2>1, Zenon
  <2>3. Len(samples) = m /\ DOMAIN samples = 1..m
    BY <2>2, ValuesOfSequence, Zenon
  <2>4. samples # <<>>
    <3>1. Len(<<>>) = 0
      BY SMT
    <3>2. m # 0
      BY <1>10, SMT
    <3> QED
      BY <2>3, <3>1, <3>2, Zenon
  <2> QED
    BY <2>1, <2>3, <2>4, Zenon
<1>12. ASSUME NEW k \in 1..m
       PROVE  /\ ~samples[k].stalled /\ samples[k].transferred = EndOf(plan, k - 1)
              /\ samples[k].complete <=> k = m
  <2>1. PICK j \in 0..l : j = k - 1 /\ j \in Nat /\ (j = l <=> k = m)
    <3>1. k - 1 \in 0..l /\ k - 1 \in Nat /\ (k - 1 = l <=> k = m)
      BY <1>10, SMT
    <3> QED
      BY <3>1, Zenon
  <2>2. PICK r, s : r = Reached(j) /\ s = samples[k] /\ s = Throughput(r, j)
    BY <1>11, <2>1, Zenon
  <2>3. r.transferred = EndOf(plan, j) /\ r.complete \in BOOLEAN /\ (r.complete <=> j = l)
    BY <1>5, <2>2, Zenon
  <2>4. j > 0 => r.transferred # 0
    <3>1. PICK t \in Nat : t = EndOf(plan, j) /\ (j > 0 => t > 0)
      BY <1>7, Zenon
    <3>2. t > 0 => t # 0
      BY SMT
    <3> QED
      BY <2>3, <3>1, <3>2, Zenon
  <2>5. s.transferred = r.transferred /\ s.complete = r.complete /\ ~s.stalled
    <3>1. GotOn(r, j)
      BY <2>1, <2>3, <2>4, Zenon DEF GotOn
    <3>2. IsSample(s, r)
      BY <2>2, <3>1, SampleIs, Zenon
    <3> QED
      BY <3>2, Zenon DEF IsSample
  <2> QED
    BY <2>1, <2>2, <2>3, <2>5, Zenon
<1>13. LET series == Series(samples)
       IN  series.complete /\ series.monotonic /\ series.stalledSamples = 0
  <2>1. m \in 1..m
    BY <1>10, SMT
  <2>2. samples[m].complete
    BY <1>12, <2>1, Zenon
  <2>3. ASSUME NEW k \in 1..m, k > 1 PROVE samples[k].transferred >= samples[k - 1].transferred
    <3>1. k - 1 \in 1..m /\ k - 1 \in 0..l /\ k - 1 > 0
      BY <1>10, <2>3, SMT
    <3>2. EndOf(plan, k - 1) >= EndOf(plan, (k - 1) - 1)
      BY <1>7, <3>1, Zenon
    <3> QED
      BY <1>12, <3>1, <3>2, Zenon
  <2> HIDE DEF samples
  <2> QED
    BY <1>10, <1>11, <1>12, <2>2, <2>3, SeriesIs, Zenon
<1>14. ASSUME NEW k \in 0..Len(plan)
       PROVE  /\ Stream(SubSeq(slices, 1, k)) \o
                   Stream(SelectSlices(slices, Resumed(k).remainingChunks)) = dump
              /\ Resumed(k).range = Reached(k).current
              /\ Resumed(k).fromByte = Reached(k).transferred
              /\ Resumed(k).needed <=> ~Reached(k).complete
              /\ ThroughputAccepts(Reached(k))
  <2>1. k \in 0..l
    BY <1>4, Zenon
  <2> HIDE DEF Reached, Resumed
  <2> QED
    BY <1>5, <1>6, <1>8, <1>9, <2>1, Zenon
<1> HIDE DEF samples
<1> QED
  BY <1>13, <1>14, Zenon DEF ResumeGoesOn, plan, dump, slices, samples

==============================================================================
