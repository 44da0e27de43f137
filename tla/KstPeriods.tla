----------------------------- MODULE KstPeriods -----------------------------
(***************************************************************************)
(* Days, weeks and months of a time zone, and the windows the schedulers   *)
(* cut out of them.  An instant is a number of hours since the epoch; what *)
(* is finer than an hour plays no part, as every boundary is a midnight.   *)
(***************************************************************************)
EXTENDS Integers, Sequences

-----------------------------------------------------------------------------
(* The proleptic Gregorian calendar, as Date and Intl know it.             *)

\* Days since the epoch, of a year that begins in March and a month and a day
\* too many of which carry over.
FromMarch(y, month, day) ==
    (y \div 400) * 146097 + (y % 400) * 365 + ((y % 400) \div 4) - ((y % 400) \div 100)
      + (153 * ((month + 9) % 12) + 2) \div 5 + day - 719469

DaysOf(year, month, day) ==
    FromMarch(year + ((month - 1) \div 12) - (IF (month - 1) % 12 < 2 THEN 1 ELSE 0),
              ((month - 1) % 12) + 1, day)

\* A date, of the days of its era of 400 years, of its year and its month there.
YearOfEra(doe) ==
    (doe - (doe \div 1460) + (doe \div 36524) - (doe \div 146096)) \div 365
DayOfYear(doe, yoe) == doe - (365 * yoe + (yoe \div 4) - (yoe \div 100))
DateIn(year, mp, doy) ==
    [year |-> IF mp < 10 THEN year ELSE year + 1,
     month |-> IF mp < 10 THEN mp + 3 ELSE mp - 9,
     day |-> doy - ((153 * mp + 2) \div 5) + 1]
DateOfDay(year, doy) == DateIn(year, (5 * doy + 2) \div 153, doy)
DateOfYear(era, doe, yoe) == DateOfDay(yoe + era * 400, DayOfYear(doe, yoe))
DateOfEra(era, doe) == DateOfYear(era, doe, YearOfEra(doe))
DateOf(days) == DateOfEra((days + 719468) \div 146097, (days + 719468) % 146097)

UTC(year, month, day, hour) == DaysOf(year, month, day) * 24 + hour

\* The zones, in 2026: Seoul keeps one offset; Auckland turns its clocks at two
\* in the night; Havana at midnight, so that one of its days has no midnight
\* and another has two.
Zones == {"Asia/Seoul", "Pacific/Auckland", "America/Havana"}
Offset(zone, t) ==
    CASE zone = "Asia/Seoul" -> 9
      [] zone = "Pacific/Auckland" ->
           IF UTC(2026, 4, 4, 14) <= t /\ t < UTC(2026, 9, 26, 14) THEN 12 ELSE 13
      [] zone = "America/Havana" ->
           IF UTC(2026, 3, 8, 5) <= t /\ t < UTC(2026, 11, 1, 5) THEN -4 ELSE -5

-----------------------------------------------------------------------------
(* period-boundary.ts                                                      *)

At(date, hour) ==
    [year |-> date.year, month |-> date.month, day |-> date.day, hour |-> hour]
Wall(hours) == At(DateOf(hours \div 24), hours % 24)
WallClock(t, zone) == Wall(t + Offset(zone, t))

Unzoned(w) == UTC(w.year, w.month, w.day, w.hour)
OffsetOf(t, zone) == Unzoned(WallClock(t, zone)) - t

\* Mutant of SettleOffset: one pass, the offset is that of the guess.
SettleOffset_OnePass(candidate, zone) == candidate - OffsetOf(candidate, zone)

SettleOffset(candidate, zone) ==
    candidate - OffsetOf(candidate - OffsetOf(candidate, zone), zone)

WallClockToUtc(year, month, day, hour, zone) ==
    SettleOffset(UTC(year, month, day, hour), zone)

MidnightOf(date, zone) == WallClockToUtc(date.year, date.month, date.day, 0, zone)
StartOfDay(t, zone) == MidnightOf(WallClock(t, zone), zone)

\* Day 0 of the epoch was a Thursday; a week starts on Monday.
MondayOf(days) == DateOf(days - ((days + 3) % 7))
DayCount(date) == DaysOf(date.year, date.month, date.day)
StartOfWeek(t, zone) == MidnightOf(MondayOf(DayCount(WallClock(t, zone))), zone)

StartOfMonth(t, zone) == MidnightOf([WallClock(t, zone) EXCEPT !.day = 1], zone)

PeriodStart(period, t, zone) ==
    CASE period = "day" -> StartOfDay(t, zone)
      [] period = "week" -> StartOfWeek(t, zone)
      [] period = "month" -> StartOfMonth(t, zone)

\* The half-open range of the period that t is in.
NextDate(period, date) ==
    CASE period = "day" -> [date EXCEPT !.day = @ + 1]
      [] period = "week" -> [date EXCEPT !.day = @ + 7]
      [] period = "month" -> [date EXCEPT !.month = @ + 1, !.day = 1]
RangeFrom(period, start, zone) ==
    [start |-> start,
     end |-> MidnightOf(NextDate(period, WallClock(start, zone)), zone)]
PeriodRange(period, t, zone) == RangeFrom(period, PeriodStart(period, t, zone), zone)

\* An instant as text: its wall clock and the offset of its zone.
FormatIso(t, zone) == [wall |-> WallClock(t, zone), offset |-> OffsetOf(t, zone)]

\* A text with an offset names one instant; without, it is of the zone given.
NoOffset == 99
ParseInput(text, zone) ==
    IF text.offset = NoOffset
    THEN SettleOffset(Unzoned(text.wall), zone)
    ELSE Unzoned(text.wall) - text.offset

-----------------------------------------------------------------------------
(* What the schedulers and the evaluation make of them, all in KST.        *)

KST == "Asia/Seoul"
RangeOf(period, t) == PeriodRange(period, t, KST)

IsPeriodEvaluable(period, periodStart, now) ==
    now >= RangeOf(period, periodStart).end

\* The period before the running one: an instant less (1 ms in the code) than
\* its start is in it.
PreviousStart(period, now) ==
    RangeOf(period, RangeOf(period, now).start - 1).start

PreviousStarts(period) == [t \in Int |-> PreviousStart(period, t)]

SummaryDueStart(period, now) == PreviousStart(period, now)

\* The starts of the last count closed periods, the newest first.
WindowUpTo(period, count, end) ==
    LET start[n \in 0..count] ==
            IF n = 0 THEN end ELSE PreviousStarts(period)[start[n - 1]]
    IN  [start |-> start[count], end |-> end]
ClosedWindow(period, count, now) == WindowUpTo(period, count, RangeOf(period, now).start)

\* Whole days up to and with the one of the reference; the last closed ones.
DaysUpTo(end, days) == [start |-> StartOfDay(end - days * 24, KST), end |-> end]
RecentDeletionWindow(reference, days) == DaysUpTo(RangeOf("day", reference).end, days)

ClosedDaysWindow(now, days) ==
    RecentDeletionWindow(StartOfDay(now, KST) - 1, days)

\* The weeks of a backfill, the oldest first, the running one last.
WeeksUpTo(running, weeks) ==
    [i \in 1..weeks |-> RangeOf("week", running - (weeks - i) * 168)]
BackfillPlan(reference, weeks) == WeeksUpTo(StartOfWeek(reference, KST), weeks)

InWindow(window, instants) ==
    {t \in instants : window.start <= t /\ t < window.end}
=============================================================================
