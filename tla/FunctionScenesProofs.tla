------------------------- MODULE FunctionScenesProofs -------------------------
(***************************************************************************)
(* What the functions give on the inputs their scenes come to, as theorems *)
(* of PagesAndFunctions: the inputs a scene can come to, and then what     *)
(* FunctionProofs says of them.  And the ranges of a dump that are fetched *)
(* again, for a dump of every size and whatever of it is damaged.          *)
(***************************************************************************)
EXTENDS FunctionScenes, FunctionProofs, FiniteSetTheorems, SequenceTheorems

------------------------------------------------------------------------------
(* Periods and windows: every zone and instant the scene comes to. *)

\* The pages have scenes of their own.
LEMMA PagesLeaveFunctions ==
    /\ Init => scene \in {"admin", "shell", "data", "dumps", "board", "panel"}
    /\ Next => /\ scene' = scene
               /\ scene \in {"admin", "shell", "data", "dumps", "board", "panel"}
BY Zenon DEF Init, Next

\* A zone and an instant.
CalendarInv == scene = "calendar" => x1 \in Zones /\ x2 \in Int

LEMMA HoursAreInstants == Hours \subseteq Int
<1>1. /\ UTC(2026, 2, 28, 0) \in Int /\ UTC(2026, 3, 2, 0) \in Int
      /\ UTC(2026, 3, 7, 0) \in Int /\ UTC(2026, 3, 10, 0) \in Int
      /\ UTC(2026, 4, 3, 0) \in Int /\ UTC(2026, 4, 7, 0) \in Int
      /\ UTC(2026, 9, 25, 0) \in Int /\ UTC(2026, 9, 28, 0) \in Int
      /\ UTC(2026, 10, 30, 0) \in Int /\ UTC(2026, 11, 3, 0) \in Int
  BY SMTT(20) DEF UTC, DaysOf, FromMarch
<1> QED
  BY <1>1, SMT DEF Hours

LEMMA CalendarInvInductive ==
    /\ Init \/ FunctionsInit => CalendarInv
    /\ CalendarInv /\ [Next \/ FunctionsNext]_vars => CalendarInv'
<1>1. Init \/ FunctionsInit => CalendarInv
  BY HoursAreInstants, PagesLeaveFunctions, Zenon DEF FunctionsInit, CalendarInit, CalendarInv
<1>2. ASSUME CalendarInv, [Next \/ FunctionsNext]_vars, scene' = "calendar"
      PROVE  x1' \in Zones /\ x2' \in Int
  <2>1. CASE UNCHANGED vars
    BY <1>2, <2>1, Zenon DEF vars, CalendarInv
  <2>2. CASE Next
    BY <1>2, <2>2, PagesLeaveFunctions, Zenon
  <2>3. CASE FunctionsNext
    <3>1. scene = "calendar" /\ CalendarNext
      BY <1>2, <2>3, Zenon DEF FunctionsNext
    <3> QED
      BY <1>2, <3>1, HoursAreInstants, Zenon DEF CalendarNext, CalendarInv
  <2> QED
    BY <1>2, <2>1, <2>2, <2>3, Zenon
<1> QED
  BY <1>1, <1>2, Zenon DEF CalendarInv

\* By the partition of time by the periods of a zone.
LEMMA PeriodsTileAlways == CalendarInv => PeriodsTile
<1> SUFFICES ASSUME CalendarInv, scene = "calendar", NEW period \in RefreshPeriods,
                    NEW r, r = PeriodRange(period, x2, x1)
             PROVE  \/ x1 = "America/Havana" /\ UTC(2026, 3, 8, 4) \in {r.start, r.end}
                    \/ /\ WallClock(r.start, x1).hour = 0
                       /\ r.start <= x2 /\ x2 < r.end
                       /\ PeriodRange(period, r.start, x1) = r
                       /\ PeriodRange(period, r.end - 1, x1) = r
                       /\ ParseInput(FormatIso(r.start, x1), x1) = r.start
                       /\ ParseInput([wall |-> WallClock(r.start, x1),
                                      offset |-> NoOffset], x1) = r.start
  BY SMTT(20) DEF PeriodsTile
<1>1. x1 \in Zones /\ x2 \in Int
  BY Zenon DEF CalendarInv
<1>2. CASE x1 = "America/Havana" /\ SkippedMidnight \in {r.start, r.end}
  BY <1>2, SMTT(20) DEF SkippedMidnight
<1>3. CASE Tiles(period, x2, x1, r)
  <2>1. /\ r.start \in Int /\ r.end \in Int /\ r.start <= x2 /\ x2 < r.end
        /\ \A u \in Int : r.start <= u /\ u < r.end => PeriodRange(period, u, x1) = r
    BY <1>3, Zenon DEF Tiles
  <2>2. /\ r.end - 1 \in Int /\ r.start <= r.end - 1 /\ r.end - 1 < r.end
        /\ r.start <= r.start /\ r.start < r.end
    BY <1>1, <2>1, SMT
  <2>3. PeriodRange(period, r.start, x1) = r /\ PeriodRange(period, r.end - 1, x1) = r
    BY <2>1, <2>2, Zenon
  <2> QED
    BY <1>3, <2>1, <2>3, SMTT(20) DEF Tiles
<1>4. \/ x1 = "America/Havana" /\ SkippedMidnight \in {r.start, r.end}
      \/ Tiles(period, x2, x1, r)
  BY <1>1, PeriodsPartitionZones, Zenon
<1> QED
  BY <1>2, <1>3, <1>4

\* By what a window of closed periods or days holds.
LEMMA WindowsAreClosedAlways == CalendarInv => WindowsAreClosed
<1> SUFFICES ASSUME CalendarInv, scene = "calendar", x1 = KST
             PROVE  /\ \A period \in RefreshPeriods, count \in 1..3 :
                        LET w == ClosedWindow(period, count, x2)
                            starts == PeriodStarts(period, w)
                        IN  /\ Len(starts) = count /\ starts[1] = w.start
                            /\ \A i \in 1..count : IsPeriodEvaluable(period, starts[i], x2)
                            /\ ~IsPeriodEvaluable(period, w.end, x2)
                            /\ SummaryDueStart(period, x2) = starts[count]
                    /\ \A days \in 1..3 :
                        LET w == ClosedDaysWindow(x2, days)
                        IN  w.end - w.start = 24 * days /\ w = ClosedWindow("day", days, x2)
  BY Zenon DEF WindowsAreClosed
<1>1. x2 \in Int
  BY Zenon DEF CalendarInv
<1>2. ASSUME NEW period \in RefreshPeriods, NEW count \in 1..3,
             NEW w, w = ClosedWindow(period, count, x2),
             NEW starts, starts = PeriodStarts(period, w)
      PROVE  /\ Len(starts) = count /\ starts[1] = w.start
             /\ \A i \in 1..count : IsPeriodEvaluable(period, starts[i], x2)
             /\ ~IsPeriodEvaluable(period, w.end, x2)
             /\ SummaryDueStart(period, x2) = starts[count]
  <2>1. count \in Nat \ {0}
    BY SMT
  <2>2. /\ DOMAIN starts = 1..count /\ starts[1] = w.start
        /\ \A i \in 1..count : IsPeriodEvaluable(period, starts[i], x2)
        /\ starts[count] = SummaryDueStart(period, x2)
        /\ ~IsPeriodEvaluable(period, w.end, x2)
    BY <1>1, <1>2, <2>1, ClosedWindowHoldsCount, Zenon
  <2>3. Len(starts) = count
    <3>1. starts = [i \in DOMAIN starts |-> starts[i]]
      BY <1>2, Zenon DEF PeriodStarts, StartsBefore
    <3> QED
      BY <2>1, <2>2, <3>1, SMT
  <2> QED
    BY <2>2, <2>3, Zenon
<1>3. ASSUME NEW days \in 1..3, NEW w, w = ClosedDaysWindow(x2, days)
      PROVE  w.end - w.start = 24 * days /\ w = ClosedWindow("day", days, x2)
  <2>1. days \in Nat
    BY SMT
  <2>2. w.end = RangeOf("day", x2).start /\ w.start = w.end - 24 * days
    BY <1>1, <1>3, <2>1, ClosedDaysAreWhole, Zenon
  <2>3. RangeOf("day", x2).start \in Int
    BY <1>1, PeriodFits, Zenon DEF RefreshPeriods
  <2>4. w.end - w.start = 24 * days
    BY <2>1, <2>2, <2>3, SMT
  <2> QED
    BY <1>1, <1>3, <2>1, <2>4, ClosedDaysAreClosedPeriods, Zenon
<1> QED
  BY <1>2, <1>3

\* By the weeks of a backfill, each after the other.
LEMMA BackfillWeeksTileAlways == CalendarInv => BackfillWeeksTile
<1> SUFFICES ASSUME CalendarInv, scene = "calendar", x1 = KST, NEW weeks \in 1..3,
                    NEW plan, plan = BackfillPlan(x2, weeks)
             PROVE  /\ plan[weeks].start <= x2 /\ x2 < plan[weeks].end
                    /\ \A i \in 1..weeks : RangeOf("week", plan[i].start) = plan[i]
                    /\ \A i \in 2..weeks : plan[i].start = plan[i - 1].end
  BY Zenon DEF BackfillWeeksTile
<1>1. x2 \in Int /\ weeks \in Nat /\ weeks > 0
  BY SMT DEF CalendarInv
<1>2. /\ \A i \in 1..weeks : RangeOf("week", plan[i].start) = plan[i]
      /\ \A i \in 1..(weeks - 1) : plan[i].end = plan[i + 1].start
      /\ plan[weeks] = RangeOf("week", x2)
  BY <1>1, BackfillWeeksFollow, Zenon
<1>3. plan[weeks].start <= x2 /\ x2 < plan[weeks].end
  BY <1>1, <1>2, PeriodFits, Zenon DEF RefreshPeriods
<1>4. ASSUME NEW i \in 2..weeks PROVE plan[i].start = plan[i - 1].end
  <2>1. i - 1 \in 1..(weeks - 1) /\ (i - 1) + 1 = i
    BY <1>1, SMT
  <2> QED
    BY <1>2, <2>1
<1> QED
  BY <1>2, <1>3, <1>4, Zenon

\* In every zone and for every instant the scene comes to, periods, the windows of
\* closed ones and the weeks of a backfill cover time without gap or overlap
\* (period-boundary.ts:151, backfill-plan.ts:57).
THEOREM CalendarTheorem == PagesAndFunctions => []PeriodsTileTime
<1>1. CalendarInv => PeriodsTileTime
  BY PeriodsTileAlways, WindowsAreClosedAlways, BackfillWeeksTileAlways DEF PeriodsTileTime
<1> QED
  BY <1>1, CalendarInvInductive, PTL DEF PagesAndFunctions

------------------------------------------------------------------------------
(* Plans, their runs and the windows they collect. *)

\* The instants asked about, rows of the plan or a few others, and fates.
PlanningInv ==
    scene = "planning" => /\ x1 \in Int
                          /\ x2 \subseteq Storable(x1) /\ IsFiniteSet(x2)
                          /\ x3 \in Seq(Fates)

LEMMA NoonsAreInstants == Noons \subseteq Int
<1>1. UTC(2026, 3, 3, 3) \in Int /\ UTC(2026, 3, 2, 3) \in Int
  BY SMTT(20) DEF UTC, DaysOf, FromMarch
<1> QED
  BY <1>1, SMT DEF Noons

LEMMA PlanningInvInductive ==
    /\ Init \/ FunctionsInit => PlanningInv
    /\ PlanningInv /\ [Next \/ FunctionsNext]_vars => PlanningInv'
<1>1. ASSUME Init \/ FunctionsInit, scene = "planning"
      PROVE  x1 \in Int /\ x2 \subseteq Storable(x1) /\ IsFiniteSet(x2) /\ x3 \in Seq(Fates)
  <2>1. PlanningInit
    BY <1>1, PagesLeaveFunctions, Zenon DEF FunctionsInit
  <2>2. IsFiniteSet({}) /\ <<>> \in Seq(Fates)
    <3>1. <<>> \in Seq(Fates)
      BY SMT
    <3> QED
      BY <3>1, FS_EmptySet, Zenon
  <2> QED
    BY <2>1, <2>2, NoonsAreInstants, Zenon DEF PlanningInit
<1>2. ASSUME PlanningInv, [Next \/ FunctionsNext]_vars, scene' = "planning"
      PROVE  /\ x1' \in Int /\ x2' \subseteq Storable(x1') /\ IsFiniteSet(x2')
             /\ x3' \in Seq(Fates)
  <2>1. CASE UNCHANGED vars
    <3>1. scene' = scene /\ x1' = x1 /\ x2' = x2 /\ x3' = x3
      BY <2>1, Zenon DEF vars
    <3> QED
      BY <1>2, <3>1, Zenon DEF PlanningInv
  <2>2. CASE Next
    BY <1>2, <2>2, PagesLeaveFunctions, Zenon
  <2>3. CASE FunctionsNext
    <3>1. scene = "planning" /\ PlanningNext
      BY <1>2, <2>3, Zenon DEF FunctionsNext
    <3>2. /\ x1 \in Int /\ x2 \subseteq Storable(x1) /\ IsFiniteSet(x2)
          /\ x3 \in Seq(Fates)
      BY <1>2, <3>1, Zenon DEF PlanningInv
    <3>3. x1' = x1
      BY <3>1, Zenon DEF PlanningNext
    <3>4. CASE x2' = x2 /\ \E fate \in Fates : x3' = Append(x3, fate)
      <4>1. PICK fate \in Fates : x3' = Append(x3, fate)
        BY <3>4, Zenon
      <4>2. Append(x3, fate) \in Seq(Fates)
        BY <3>2, SMT
      <4> QED
        BY <3>2, <3>3, <3>4, <4>1, <4>2, Zenon
    <3>5. CASE x3' = x3 /\ \E c \in Storable(x1) \ x2 : x2' = x2 \union {c}
      <4>1. PICK c \in Storable(x1) \ x2 : x2' = x2 \union {c}
        BY <3>5, Zenon
      <4>2. IsFiniteSet(x2 \union {c}) /\ x2 \union {c} \subseteq Storable(x1)
        BY <3>2, <4>1, FS_AddElement, Zenon
      <4> QED
        BY <3>2, <3>3, <3>5, <4>1, <4>2, Zenon
    <3> QED
      BY <3>1, <3>4, <3>5, Zenon DEF PlanningNext
  <2> QED
    BY <1>2, <2>1, <2>2, <2>3, Zenon
<1> QED
  BY <1>1, <1>2, Zenon DEF PlanningInv

\* What is asked for in this scene.
LEMMA AskedFits ==
    ASSUME NEW now \in Int
    PROVE  /\ AskedRange(now).start = now - 48 /\ AskedRange(now).end = now
           /\ AskedRange(now).start \in Int /\ AskedRange(now).end \in Int
           /\ AskedRange(now).start < AskedRange(now).end
           /\ Roster \in Seq({"p1", "p2"}) /\ "day" \in RefreshPeriods
           /\ \A person \in {"p1", "p2"} : \E k \in DOMAIN Roster : Roster[k] = person
<1>1. Roster \in Seq({"p1", "p2"}) /\ 1 \in DOMAIN Roster /\ 2 \in DOMAIN Roster
      /\ Roster[1] = "p1" /\ Roster[2] = "p2"
  BY SMT DEF Roster
<1>2. AskedRange(now).start = now - 48 /\ AskedRange(now).end = now
  BY SMT DEF AskedRange
<1>3. now - 48 \in Int /\ now - 48 < now
  BY SMT
<1>4. "day" \in RefreshPeriods
  BY Zenon DEF RefreshPeriods
<1> QED
  BY <1>1, <1>2, <1>3, <1>4, Zenon

\* A run adds up, and what is asked for again is what failed of it.
LEMMA RerunOwesOnlyFailedAlways == PlanningInv => RerunOwesOnlyFailed
<1> SUFFICES ASSUME PlanningInv, scene = "planning"
             PROVE  LeavesOwed(PlanNow(x2), FatesOf(BridgeRequests(PlanNow(x2)), x3))
  BY Zenon DEF RerunOwesOnlyFailed
<1>1. x1 \in Int /\ x3 \in Seq(Fates)
  BY Zenon DEF PlanningInv
<1>2. PICK range : /\ range = AskedRange(x1) /\ range.start \in Int /\ range.end \in Int
                   /\ range.start < range.end
                   /\ Roster \in Seq({"p1", "p2"}) /\ "day" \in RefreshPeriods
  BY <1>1, AskedFits, Zenon
<1>3. \A rows : PlanNow(rows) = ComposePlan(Roster, "day", range, rows)
  BY <1>2, Zenon DEF PlanNow
<1>4. PICK fill, Q : /\ fill = FillRequests(PlanNow(x2)) /\ Q = ToSet(fill) /\ fill \in Seq(Q)
  <2>1. LET requests == FillRequests(ComposePlan(Roster, "day", range, x2))
        IN  requests \in Seq(ToSet(requests))
    BY <1>2, RequestsAreTheGaps
  <2> QED
    BY <1>3, <2>1, Zenon
<1>5. PICK bridge : /\ bridge = BridgeRequests(PlanNow(x2)) /\ ToSet(bridge) = Q
                    /\ Elements(bridge) = Q
  <2>1. ToSet(FirstSeen(fill)) = ToSet(fill)
    BY <1>4, FirstSeenIsOnce, Zenon
  <2>2. BridgeRequests(PlanNow(x2)) = FirstSeen(fill)
    BY <1>4, Zenon DEF BridgeRequests
  <2> QED
    BY <1>4, <2>1, <2>2, Zenon DEF Elements, ToSet
<1>6. PICK fates : /\ fates = FatesOf(bridge, x3) /\ DOMAIN fates = Q
                   /\ \A q \in Q : fates[q] \in Fates
  <2> DEFINE place(q) == CHOOSE j \in DOMAIN bridge : bridge[j] = q
             fate(q) == IF place(q) \in DOMAIN x3 THEN x3[place(q)] ELSE "created"
  <2>1. FatesOf(bridge, x3) = [q \in Q |-> fate(q)]
    BY <1>5, Zenon DEF FatesOf
  <2>2. ASSUME NEW q \in Q PROVE fate(q) \in Fates
    <3>1. \A i \in DOMAIN x3 : x3[i] \in Fates
      BY <1>1, SMT
    <3>2. "created" \in Fates
      BY Zenon DEF Fates
    <3> QED
      BY <3>1, <3>2, Zenon
  <2> HIDE DEF fate
  <2> QED
    BY <2>1, <2>2, Zenon
<1>7. PICK outcomes : outcomes = RunBatch(fill, fates)
  BY Zenon
<1>8. /\ \A o : o \in ToSet(outcomes) <=> \E q \in Q : o = OutcomeOf(q, fates[q])
      /\ AddsUp(Aggregate(outcomes), Cardinality(DOMAIN fates))
  <2>1. LET counts == Aggregate(outcomes)
        IN  /\ \A o : o \in ToSet(outcomes) <=> \E q \in ToSet(fill) : o = OutcomeOf(q, fates[q])
            /\ counts.totalCount = Cardinality(ToSet(fill))
            /\ counts.evaluatedCount + counts.skippedCount + counts.failedCount
                 = counts.totalCount
    BY <1>4, <1>6, <1>7, RunIsOfRequests
  <2> QED
    BY <1>4, <1>6, <2>1, Zenon DEF AddsUp
<1>9. PICK stored : /\ stored = {q \in Q : Stored(fates[q])}
                    /\ stored = {o.request : o \in {p \in Elements(outcomes) :
                                                      Stored(fates[p.request])}}
  <2>1. \A q : OutcomeOf(q, fates[q]).request = q
    BY SMT DEF OutcomeOf
  <2>2. Elements(outcomes) = ToSet(outcomes)
    BY Zenon DEF Elements, ToSet
  <2>3. ASSUME NEW q
        PROVE  q \in {o.request : o \in {p \in Elements(outcomes) : Stored(fates[p.request])}}
                 <=> q \in {r \in Q : Stored(fates[r])}
    <3>1. ASSUME NEW o \in Elements(outcomes), Stored(fates[o.request])
          PROVE  o.request \in {r \in Q : Stored(fates[r])}
      <4>1. PICK r \in Q : o = OutcomeOf(r, fates[r])
        BY <1>8, <2>2, <3>1, Zenon
      <4> QED
        BY <2>1, <3>1, <4>1, Zenon
    <3>2. ASSUME q \in Q, Stored(fates[q])
          PROVE  /\ OutcomeOf(q, fates[q]) \in Elements(outcomes)
                 /\ OutcomeOf(q, fates[q]).request = q
      BY <1>8, <2>1, <2>2, <3>2, Zenon
    <3> QED
      BY <3>1, <3>2, Zenon
  <2> QED
    BY <2>3, Zenon
<1>10. PICK kept : /\ kept = Coordinates(stored)
                   /\ kept = {ToContext(q) : q \in {r \in Q : Stored(fates[r])}}
  BY <1>9, Zenon DEF Coordinates
<1>11. /\ kept \intersect x2 = {}
       /\ ToSet(FillRequests(PlanNow(x2 \union kept))) = {q \in Q : ~Stored(fates[q])}
  <2>1. LET requests == FillRequests(ComposePlan(Roster, "day", range, x2))
            left == {ToContext(q) : q \in {r \in ToSet(requests) : Stored(fates[r])}}
            again == FillRequests(ComposePlan(Roster, "day", range, x2 \union left))
        IN  /\ left \intersect x2 = {}
            /\ ToSet(again) = {q \in ToSet(requests) : ~Stored(fates[q])}
    BY <1>2, RerunAsksForTheFailed
  <2>2. FillRequests(ComposePlan(Roster, "day", range, x2)) = fill
    BY <1>3, <1>4, Zenon
  <2> QED
    BY <1>3, <1>4, <1>10, <2>1, <2>2, Zenon
<1>12. OwedAfter(kept, Coordinates({q \in DOMAIN fates : ~Stored(fates[q])}))
  BY <1>6, <1>11, Zenon DEF OwedAfter, Elements, ToSet
<1>13. OwesOnlyFailed(fates, outcomes)
  BY <1>8, <1>9, <1>10, <1>12, Zenon DEF OwesOnlyFailed
<1> QED
  BY <1>4, <1>5, <1>6, <1>7, <1>13, Zenon DEF LeavesOwed

\* The windows of the requests of a plan take each of its instants once.
LEMMA EachHourCollectedOnceAlways == PlanningInv => EachHourCollectedOnce
<1> SUFFICES ASSUME PlanningInv, scene = "planning"
             PROVE  CollectedOnce(WindowsAsked(BridgeRequests(PlanNow(x2))), AskedRange(x1))
  BY Zenon DEF EachHourCollectedOnce
<1>1. x1 \in Int
  BY Zenon DEF PlanningInv
<1>2. PICK range : /\ range = AskedRange(x1) /\ range.start \in Int /\ range.end \in Int
                   /\ range.start < range.end
                   /\ Roster \in Seq({"p1", "p2"}) /\ "day" \in RefreshPeriods
                   /\ \A person \in {"p1", "p2"} : \E k \in DOMAIN Roster : Roster[k] = person
  BY <1>1, AskedFits, Zenon
<1>3. PICK requests : /\ requests = BridgeRequests(PlanNow(x2))
                      /\ requests = BridgeRequests(ComposePlan(Roster, "day", range, x2))
  BY <1>2, Zenon DEF PlanNow
<1>4. PICK calls : calls = WindowsAsked(requests)
  BY Zenon
<1>5. /\ DOMAIN calls = DOMAIN requests
      /\ \A i \in DOMAIN requests : /\ calls[i].person = requests[i].person
                                    /\ calls[i].window = CollectWindow(requests[i])
  <2>1. DOMAIN calls = DOMAIN requests
    BY <1>4, Zenon DEF WindowsAsked
  <2>2. ASSUME NEW i \in DOMAIN requests
        PROVE  /\ calls[i].person = requests[i].person
               /\ calls[i].window = CollectWindow(requests[i])
    <3>1. PICK p, w : p = requests[i].person /\ w = CollectWindow(requests[i])
      BY Zenon
    <3>2. calls[i] = [person |-> p, window |-> w]
      BY <1>4, <3>1, Zenon DEF WindowsAsked
    <3> QED
      BY <3>1, <3>2, SMT
  <2> QED
    BY <2>1, <2>2
<1>6. ASSUME NEW person \in {"p1", "p2"}, NEW t \in range.start..(range.end - 1)
      PROVE  Cardinality({i \in DOMAIN calls : /\ calls[i].person = person
                                               /\ calls[i].window.since <= t
                                               /\ t < calls[i].window.until})
             = IF Coordinate(person, "day", RangeOf("day", t).start) \in x2 THEN 0 ELSE 1
  <2>1. PICK k \in DOMAIN Roster : Roster[k] = person
    BY <1>2, Zenon
  <2>2. PICK C : /\ C = {i \in DOMAIN requests : /\ requests[i].person = Roster[k]
                                                 /\ CollectWindow(requests[i]).since <= t
                                                 /\ t < CollectWindow(requests[i]).until}
                 /\ C = {i \in DOMAIN calls : /\ calls[i].person = person
                                              /\ calls[i].window.since <= t
                                              /\ t < calls[i].window.until}
    BY <1>5, <2>1, Zenon
  <2>3. Cardinality({i \in DOMAIN requests : /\ requests[i].person = Roster[k]
                                             /\ CollectWindow(requests[i]).since <= t
                                             /\ t < CollectWindow(requests[i]).until})
          = IF Coordinate(Roster[k], "day", RangeOf("day", t).start) \in x2 THEN 0 ELSE 1
    BY <1>2, <1>3, EachInstantIsCollectedOnce
  <2> QED
    BY <1>3, <2>1, <2>2, <2>3, Zenon
<1>7. CollectedOnce(calls, range)
  BY <1>6, Zenon DEF CollectedOnce
<1> QED
  BY <1>2, <1>3, <1>4, <1>7, Zenon

\* The rows of this scene: those of the first person are of periods.
LEMMA StorableFits ==
    ASSUME NEW now \in Int, NEW c \in Storable(now)
    PROVE  /\ c.period \in RefreshPeriods /\ c.start \in Int
           /\ c.person = "p1" => /\ c = Coordinate("p1", c.period, c.start)
                                 /\ RangeOf(c.period, c.start).start = c.start
<1>1. "day" \in RefreshPeriods /\ "week" \in RefreshPeriods /\ "month" \in RefreshPeriods
  BY Zenon DEF RefreshPeriods
<1>2. ASSUME NEW period \in RefreshPeriods, NEW t \in Int,
             c = Coordinate("p1", period, RangeOf(period, t).start)
      PROVE  /\ c.period \in RefreshPeriods /\ c.start \in Int
             /\ c = Coordinate("p1", c.period, c.start)
             /\ RangeOf(c.period, c.start).start = c.start
  <2>1. PICK s \in Int : s = RangeOf(period, t).start /\ RangeOf(period, s).start = s
    BY PeriodFits, Zenon
  <2>2. c.period = period /\ c.start = s
    BY <1>2, <2>1, SMT DEF Coordinate
  <2> QED
    BY <1>2, <2>1, <2>2, Zenon
<1>3. CASE \E n \in 0..2 : c = Coordinate("p1", "day", RangeOf("day", now - 24 * n).start)
  <2>1. PICK n \in 0..2 : c = Coordinate("p1", "day", RangeOf("day", now - 24 * n).start)
    BY <1>3, Zenon
  <2>2. now - 24 * n \in Int
    BY SMT
  <2> QED
    BY <1>1, <1>2, <2>1, <2>2, Zenon
<1>4. CASE \E period \in {"week", "month"} :
              c = Coordinate("p1", period, RangeOf(period, now).start)
  <2>1. PICK period : /\ period \in {"week", "month"}
                      /\ c = Coordinate("p1", period, RangeOf(period, now).start)
    BY <1>4, Zenon
  <2>2. period \in RefreshPeriods
    BY <1>1, <2>1, Zenon
  <2> QED
    BY <1>2, <2>1, <2>2, Zenon
<1>5. CASE c = Coordinate("p2", "day", now - 24)
  <2>1. c.period = "day" /\ c.start = now - 24 /\ c.person = "p2" /\ "p1" # "p2"
    BY <1>5, SMT DEF Coordinate
  <2>2. now - 24 \in Int
    BY SMT
  <2> QED
    BY <1>1, <2>1, <2>2, Zenon
<1>6. Storable(now) = {Coordinate("p1", "day", RangeOf("day", now - 24 * n).start) : n \in 0..2}
                       \union {Coordinate("p1", period, RangeOf(period, now).start) :
                                  period \in {"week", "month"}}
                       \union {Coordinate("p2", "day", now - 24)}
  BY Zenon DEF Storable
<1>7. \/ \E n \in 0..2 : c = Coordinate("p1", "day", RangeOf("day", now - 24 * n).start)
      \/ \E period \in {"week", "month"} :
            c = Coordinate("p1", period, RangeOf(period, now).start)
      \/ c = Coordinate("p2", "day", now - 24)
  BY <1>6, Zenon
<1> QED
  BY <1>3, <1>4, <1>5, <1>7, Zenon

\* The three days before a day, which begins at end.
LEMMA ThreeDays ==
    ASSUME NEW now \in Int, NEW end, end = RangeOf("day", now).start
    PROVE  /\ end \in Int /\ end <= now
           /\ \A n \in 1..3 : /\ RangeOf("day", end - 24 * n).start = end - 24 * n
                              /\ RangeOf("day", end - 24 * n).end <= end
           /\ \A s \in Int : /\ RangeOf("day", s).start = s /\ end - 72 <= s /\ s < end
                             => s \in {end - 24, end - 48, end - 72}
<1>1. end \in Int /\ end <= now
  <2>1. "day" \in RefreshPeriods
    BY Zenon DEF RefreshPeriods
  <2> QED
    BY <2>1, PeriodFits, Zenon
<1>2. \A t \in Int : /\ RangeOf("day", t).start = 24 * DayOf(t) - 9
                     /\ RangeOf("day", t).end = 24 * DayOf(t) + 15
  <2>1. ASSUME NEW t \in Int
        PROVE  /\ RangeOf("day", t).start = 24 * DayOf(t) - 9
               /\ RangeOf("day", t).end = 24 * DayOf(t) + 15
    <3>1. PICK d \in Int : d = DayOf(t)
      BY SeoulDay, SMTT(20)
    <3>2. RangeOf("day", t) = RangeOfDays(d, d + 1)
      BY <3>1, DayRange, SMTT(20)
    <3> QED
      BY <3>1, <3>2, SMTT(20) DEF RangeOfDays, Midnight
  <2> QED
    BY <2>1
<1>3. PICK d \in Int : end = 24 * d - 9
  BY <1>2, SeoulDay, SMTT(20)
<1>4. ASSUME NEW n \in 1..3
      PROVE  /\ RangeOf("day", end - 24 * n).start = end - 24 * n
             /\ RangeOf("day", end - 24 * n).end <= end
  <2>1. end - 24 * n \in Int /\ DayOf(end - 24 * n) = d - n
    BY <1>3, SMTT(20) DEF DayOf
  <2> QED
    BY <1>2, <1>3, <2>1, SMTT(20)
<1>5. ASSUME NEW s \in Int, RangeOf("day", s).start = s, end - 72 <= s, s < end
      PROVE  s \in {end - 24, end - 48, end - 72}
  <2>1. PICK e \in Int : s = 24 * e - 9
    <3>1. DayOf(s) \in Int
      BY SeoulDay, Zenon
    <3>2. s = 24 * DayOf(s) - 9
      BY <1>2, <1>5
    <3> QED
      BY <3>1, <3>2, Zenon
  <2>2. e = d - 1 \/ e = d - 2 \/ e = d - 3
    BY <1>3, <1>5, <2>1, SMTT(20)
  <2> QED
    BY <1>3, <2>1, <2>2, SMTT(20)
<1> QED
  BY <1>1, <1>4, <1>5, Zenon

\* And they are three.
LEMMA ThreeOfThree ==
    ASSUME NEW a, NEW b, NEW c, a # b, a # c, b # c
    PROVE  Cardinality({a, b, c}) = 3
<1>1. IsFiniteSet({a}) /\ Cardinality({a}) = 1
  BY FS_Singleton, Zenon
<1>2. IsFiniteSet({a} \union {b}) /\ Cardinality({a} \union {b}) = 1 + 1
  BY <1>1, FS_AddElement, Zenon
<1>3. c \notin {a} \union {b} /\ ({a} \union {b}) \union {c} = {a, b, c}
  BY Zenon
<1>4. Cardinality({a, b, c}) = 1 + 1 + 1
  BY <1>2, <1>3, FS_AddElement, Zenon
<1> QED
  BY <1>4, SMT

\* A refresh evaluates the closed days of its window and counts what runs.
LEMMA RefreshLeavesRunningAlways == PlanningInv => RefreshLeavesRunningPeriods
<1> SUFFICES ASSUME PlanningInv, scene = "planning"
             PROVE  RefreshesWindow(ClosedDaysWindow(x1 + 12, 3), x1 + 12)
  BY Zenon DEF RefreshLeavesRunningPeriods
<1>1. x1 \in Int /\ x2 \subseteq Storable(x1) /\ IsFiniteSet(x2)
  BY Zenon DEF PlanningInv
<1>2. PICK now \in Int : now = x1 + 12
  BY <1>1, SMT
<1>3. PICK window, day :
         /\ window = ClosedDaysWindow(now, 3) /\ day = RangeOf("day", now).start
         /\ day \in Int /\ day <= now /\ window.start = day - 72 /\ window.end = day
         /\ window.start \in Int /\ window.end \in Int /\ window.start < window.end
  <2>1. PICK window, day : /\ window = ClosedDaysWindow(now, 3)
                           /\ day = RangeOf("day", now).start
    BY Zenon
  <2>2. day \in Int /\ day <= now
    BY <2>1, ThreeDays, Zenon
  <2>3. 3 \in Nat
    BY SMT
  <2>4. window.end = day /\ window.start = window.end - 24 * 3
    BY <2>1, <2>3, ClosedDaysAreWhole, Zenon
  <2> QED
    BY <2>1, <2>2, <2>4, SMT
<1>4. PICK stored : /\ stored = {c \in x2 : c.person = "p1"} /\ IsFiniteSet(stored)
                    /\ \A c \in stored : /\ c.period \in RefreshPeriods /\ c.start \in Int
                                         /\ c = Coordinate("p1", c.period, c.start)
                                         /\ RangeOf(c.period, c.start).start = c.start
  <2>1. PICK stored : stored = {c \in x2 : c.person = "p1"}
    BY Zenon
  <2>2. IsFiniteSet(stored)
    <3>1. stored \in SUBSET x2
      BY <2>1, Zenon
    <3> QED
      BY <1>1, <3>1, FS_Subset, Zenon
  <2>3. ASSUME NEW c \in stored
        PROVE  /\ c.period \in RefreshPeriods /\ c.start \in Int
               /\ c = Coordinate("p1", c.period, c.start)
               /\ RangeOf(c.period, c.start).start = c.start
    <3>1. c \in Storable(x1) /\ c.person = "p1"
      BY <1>1, <2>1, Zenon
    <3> QED
      BY <1>1, <3>1, StorableFits, Zenon
  <2> QED
    BY <2>1, <2>2, <2>3, Zenon
<1>5. PICK plan : plan = PlanRecentRefresh("p1", stored, window, now)
  BY Zenon
<1>6. PICK mine : /\ mine = {c \in x2 : c.person = "p1" /\ window.start <= c.start
                                                        /\ c.start < window.end}
                  /\ mine = {c \in stored : window.start <= c.start /\ c.start < window.end}
  BY <1>4, Zenon
<1>7. /\ Cardinality(mine) = Cardinality(plan.hadRow) + plan.openRowCount
      /\ mine \intersect plan.coordinates = plan.hadRow
      /\ \A c \in plan.coordinates :
            \/ c \in stored
            \/ \E period \in RefreshPeriods, t \in Int :
                  c = Coordinate("p1", period, RangeOf(period, t).start)
  <2>1. \A c \in stored : c.period \in RefreshPeriods /\ c.start \in Int
    BY <1>4, Zenon
  <2>2. window.start \in Int /\ window.end \in Int /\ window.start < window.end
    BY <1>3, Zenon
  <2>3. \A c : c \in mine <=> c \in stored /\ window.start <= c.start /\ c.start < window.end
    BY <1>6, Zenon
  <2>4. IsFiniteSet(stored)
    BY <1>4, Zenon
  <2>5. now \in Int
    OBVIOUS
  <2>6. PICK person : person = "p1" /\ plan = PlanRecentRefresh(person, stored, window, now)
    BY <1>5, Zenon
  <2>7. plan = PlanRecentRefresh(person, stored, window, now)
    BY <2>6, Zenon
  <2>8. /\ Cardinality(mine) = Cardinality(plan.hadRow) + plan.openRowCount
        /\ mine \intersect plan.coordinates = plan.hadRow
    BY ONLY <2>1, <2>2, <2>3, <2>4, <2>5, <2>7, RefreshSplitsRows
  <2>9. \A c \in plan.coordinates :
            \/ c \in stored
            \/ \E period \in RefreshPeriods, t \in Int :
                  c = Coordinate(person, period, RangeOf(period, t).start)
    BY ONLY <2>1, <2>2, <2>5, <2>7, RefreshForms
  <2> QED
    BY <2>8, <2>9, <2>6, Zenon
<1>8. /\ \A c \in plan.coordinates : /\ IsPeriodEvaluable(c.period, c.start, now)
                                     /\ window.start <= c.start /\ c.start < window.end
      /\ \A period \in RefreshPeriods, t \in Int :
            LET r == RangeOf(period, t)
            IN  window.start <= r.start /\ r.start < window.end /\ r.end <= now
                  => Coordinate("p1", period, r.start) \in plan.coordinates
  BY <1>3, <1>4, <1>5, RefreshIsOfClosed
<1> DEFINE Day(n) == Coordinate("p1", "day", day - 24 * n)
<1>9. "day" \in RefreshPeriods
  BY Zenon DEF RefreshPeriods
<1>10. ASSUME NEW n \in 1..3
       PROVE  /\ Day(n) \in plan.coordinates /\ Day(n).period = "day"
              /\ Day(n).start = day - 24 * n
  <2>1. PICK t, r : /\ t \in Int /\ t = day - 24 * n /\ r = RangeOf("day", t)
                    /\ r.start = t /\ r.end <= day
    <3>1. day - 24 * n \in Int
      BY <1>3, SMT
    <3> QED
      BY <1>3, <3>1, ThreeDays, Zenon
  <2>2. r.end \in Int
    BY <1>9, <2>1, PeriodFits, Zenon
  <2>3. window.start <= r.start /\ r.start < window.end /\ r.end <= now
    BY <1>3, <2>1, <2>2, SMT
  <2>4. Coordinate("p1", "day", r.start) \in plan.coordinates
    BY <1>8, <1>9, <2>1, <2>3, Zenon
  <2>5. Day(n) \in plan.coordinates
    BY <2>1, <2>4, Zenon
  <2> QED
    BY <2>5, SMT DEF Coordinate
<1>11. ASSUME NEW c \in plan.coordinates, c.period = "day"
       PROVE  c \in {Day(1), Day(2), Day(3)}
  <2>1. PICK s \in Int : c = Coordinate("p1", "day", s) /\ RangeOf("day", s).start = s
    <3>1. CASE c \in stored
      BY <1>4, <1>11, <3>1, Zenon
    <3>2. CASE \E period \in RefreshPeriods, t \in Int :
                  c = Coordinate("p1", period, RangeOf(period, t).start)
      <4>1. PICK period \in RefreshPeriods, t \in Int :
               c = Coordinate("p1", period, RangeOf(period, t).start)
        BY <3>2, Zenon
      <4>2. c.period = period
        BY <4>1, SMT DEF Coordinate
      <4>3. RangeOf(period, t).start \in Int
            /\ RangeOf(period, RangeOf(period, t).start).start = RangeOf(period, t).start
        BY PeriodFits, Zenon
      <4> QED
        BY <1>11, <4>1, <4>2, <4>3, Zenon
    <3> QED
      BY <1>7, <3>1, <3>2, Zenon
  <2>2. c.start = s
    BY <2>1, SMT DEF Coordinate
  <2>3. day - 72 <= s /\ s < day
    BY <1>3, <1>8, <2>2, Zenon
  <2>4. s \in {day - 24, day - 48, day - 72}
    BY <1>3, <2>1, <2>3, ThreeDays, Zenon
  <2>5. s = day - 24 * 1 \/ s = day - 24 * 2 \/ s = day - 24 * 3
    BY <1>3, <2>4, SMT
  <2> QED
    BY <2>1, <2>5, Zenon
<1>12. Cardinality({c \in plan.coordinates : c.period = "day"}) = 3
  <2>1. 1 \in 1..3 /\ 2 \in 1..3 /\ 3 \in 1..3
    BY SMT
  <2>2. day - 24 * 1 # day - 24 * 2 /\ day - 24 * 1 # day - 24 * 3 /\ day - 24 * 2 # day - 24 * 3
    BY <1>3, SMT
  <2>3. Day(1) # Day(2) /\ Day(1) # Day(3) /\ Day(2) # Day(3)
    BY <1>10, <2>1, <2>2, Zenon
  <2> HIDE DEF Day
  <2>4. {c \in plan.coordinates : c.period = "day"} = {Day(1), Day(2), Day(3)}
    BY <1>10, <1>11, <2>1, Zenon
  <2>5. PICK a, b, c : a = Day(1) /\ b = Day(2) /\ c = Day(3) /\ a # b /\ a # c /\ b # c
    BY <2>3, Zenon
  <2>6. Cardinality({a, b, c}) = 3
    BY <2>5, ThreeOfThree, Zenon
  <2> QED
    BY <2>4, <2>5, <2>6, Zenon
<1>13. RefreshesClosed(mine, plan, now)
  BY <1>7, <1>8, <1>12, Zenon DEF RefreshesClosed
<1> QED
  BY <1>2, <1>3, <1>4, <1>5, <1>6, <1>13, Zenon DEF RefreshesWindow

\* For every instant, rows and fates the scene comes to, what is run is what is owed:
\* the gaps of a plan, each once, and again only what failed; the refresh evaluates
\* what is over and leaves what runs (run-unevaluated-fill-batch.ts:179,
\* recent-deletion-coordinates.ts:83).
THEOREM PlanningTheorem == PagesAndFunctions => []RunsOnlyWhatIsOwed
<1>1. PlanningInv => RunsOnlyWhatIsOwed
  BY RerunOwesOnlyFailedAlways, EachHourCollectedOnceAlways, RefreshLeavesRunningAlways
     DEF RunsOnlyWhatIsOwed
<1> QED
  BY <1>1, PlanningInvInductive, PTL DEF PagesAndFunctions

------------------------------------------------------------------------------
(* Scores: every activities and answers the scene comes to. *)

\* Activities, and an answer of the model.
ScoringInv == scene = "scoring" => x1 \in Seq(Activities) /\ x2 \in Answers /\ x3 \in BOOLEAN

\* It holds at first, and every step keeps it.
LEMMA ScoringInvInductive ==
    /\ Init \/ FunctionsInit => ScoringInv
    /\ ScoringInv /\ [Next \/ FunctionsNext]_vars => ScoringInv'
<1>1. ASSUME Init \/ FunctionsInit, scene = "scoring"
      PROVE  x1 \in Seq(Activities) /\ x2 \in Answers /\ x3 \in BOOLEAN
  <2>1. x1 = <<>> /\ x2 \in Answers /\ x3 \in BOOLEAN
    BY <1>1, PagesLeaveFunctions, Zenon DEF FunctionsInit
  <2>2. <<>> \in Seq(Activities)
    BY SMT
  <2> QED
    BY <2>1, <2>2, Zenon
<1>2. ASSUME ScoringInv, [Next \/ FunctionsNext]_vars, scene' = "scoring"
      PROVE  x1' \in Seq(Activities) /\ x2' \in Answers /\ x3' \in BOOLEAN
  <2>1. CASE UNCHANGED vars
    <3>1. scene' = scene /\ x1' = x1 /\ x2' = x2 /\ x3' = x3
      BY <2>1, Zenon DEF vars
    <3> QED
      BY <1>2, <3>1, Zenon DEF ScoringInv
  <2>2. CASE Next
    BY <1>2, <2>2, PagesLeaveFunctions, Zenon
  <2>3. CASE FunctionsNext
    <3>1. scene = "scoring" /\ ScoringNext
      BY <1>2, <2>3, Zenon DEF FunctionsNext
    <3>2. x1 \in Seq(Activities) /\ x2 \in Answers /\ x3 \in BOOLEAN
      BY <1>2, <3>1, Zenon DEF ScoringInv
    <3>3. PICK a \in Activities : x1' = Append(x1, a) /\ x2' = x2 /\ x3' = x3
      BY <3>1, Zenon DEF ScoringNext
    <3>4. Append(x1, a) \in Seq(Activities)
      BY <3>2, SMT
    <3> QED
      BY <3>2, <3>3, <3>4, Zenon
  <2> QED
    BY <1>2, <2>1, <2>2, <2>3, Zenon
<1> QED
  BY <1>1, <1>2, Zenon DEF ScoringInv

\* The activities of this scene have times and titles.
LEMMA ActivitiesFit ==
    ASSUME NEW a \in Activities
    PROVE  a.at \in Nat /\ a.titleLength \in Nat
BY SMT DEF Activities, Activity

\* The elements of a sequence.
LEMMA ElementsAre ==
    ASSUME NEW s
    PROVE  Elements(s) = ToSet(s)
BY Zenon DEF Elements, ToSet

\* Whatever the activities, copies of them change nothing.
LEMMA RepeatsChangeNothingAlways == ScoringInv => RepeatsChangeNothing
<1>1. ASSUME x1 \in Seq(Activities) PROVE Evaluated(x1 \o x1) = Evaluated(x1)
  <2>1. \A a \in Activities : a.at \in Nat
    BY ActivitiesFit, Zenon
  <2>2. \A j \in DOMAIN x1 : \E i \in DOMAIN x1 : x1[j] = x1[i]
    BY Zenon
  <2> QED
    <3>1. EvaluateActivities(x1 \o x1, x3, Generated) = EvaluateActivities(x1, x3, Generated)
      BY <1>1, <2>1, <2>2, CopiesChangeNothing
    <3> QED
      BY <3>1, Zenon DEF Evaluated
<1> QED
  BY <1>1, Zenon DEF ScoringInv, RepeatsChangeNothing

\* What came in the other order is the same.
LEMMA BackIsSame ==
    ASSUME NEW T, NEW s \in Seq(T), NEW t, t = [i \in DOMAIN s |-> s[Len(s) + 1 - i]]
    PROVE  t \in Seq(T) /\ SameActivities(s, t)
<1>1. PICK l \in Nat : l = Len(s) /\ DOMAIN s = 1..l
  BY SMT
<1>2. /\ \A i \in 1..l : l + 1 - i \in 1..l /\ l + 1 - (l + 1 - i) = i
      /\ \A i \in 1..l : s[i] \in T
  BY <1>1, SMT
<1>3. t = [i \in 1..l |-> s[l + 1 - i]] /\ DOMAIN t = 1..l
  BY <1>1, Zenon
<1>4. \A i \in 1..l : t[i] = s[l + 1 - i] /\ t[i] \in T
  BY <1>2, <1>3, Zenon
<1>5. t = [i \in 1..l |-> t[i]]
  BY <1>3, Zenon
<1>6. t \in Seq(T)
  BY <1>4, <1>5, SequenceOf, Zenon
<1>7. ASSUME NEW i \in DOMAIN s PROVE \E j \in DOMAIN t : t[j] = s[i]
  <2>1. PICK k \in 1..l : k = l + 1 - i /\ l + 1 - k = i
    BY <1>1, <1>2, Zenon
  <2> QED
    BY <1>3, <1>4, <2>1, Zenon
<1>8. ASSUME NEW j \in DOMAIN t PROVE \E i \in DOMAIN s : s[i] = t[j]
  BY <1>1, <1>2, <1>3, <1>4, Zenon
<1> QED
  BY <1>6, <1>7, <1>8, Zenon DEF SameActivities

\* Whatever the activities, their order matters only for ties.
LEMMA OrderMattersOnlyForTiesAlways == ScoringInv => OrderMattersOnlyForTies
<1>1. ASSUME x1 \in Seq(Activities),
             ~\E a, b \in Elements(x1) : a # b /\ a.at = b.at /\ Unit(a) = Unit(b),
             NEW back, back = [i \in DOMAIN x1 |-> x1[Len(x1) + 1 - i]]
      PROVE  Unordered(MapResultsToAssessment(Evaluated(back)))
                = Unordered(MapResultsToAssessment(Evaluated(x1)))
  <2>1. \A a \in Activities : a.at \in Nat /\ a.titleLength \in Nat
    BY ActivitiesFit, Zenon
  <2>2. back \in Seq(Activities) /\ SameActivities(x1, back)
    BY <1>1, BackIsSame, Zenon
  <2>3. NoTies(x1)
    BY <1>1, Zenon DEF NoTies, Elements
  <2> QED
    <3>1. Unordered(MapResultsToAssessment(EvaluateActivities(back, x3, Generated)))
             = Unordered(MapResultsToAssessment(EvaluateActivities(x1, x3, Generated)))
      BY ONLY <1>1, <2>1, <2>2, <2>3, OrderChangesNothing
    <3> QED
      BY <3>1, Zenon DEF Evaluated
<1>2. ASSUME NEW stored
      PROVE  [stored EXCEPT !.contributions = Elements(@), !.narrative = Elements(@)]
                = Unordered(stored)
  BY ElementsAre, Zenon DEF Unordered
<1> DEFINE back == [i \in DOMAIN x1 |-> x1[Len(x1) + 1 - i]]
           result(activities) == Unordered(MapResultsToAssessment(Evaluated(activities)))
<1>3. OrderMattersOnlyForTies <=>
         (scene = "scoring" =>
            \/ result(back) = result(x1)
            \/ \E a, b \in Elements(x1) : a # b /\ a.at = b.at /\ Unit(a) = Unit(b))
  BY <1>2, Zenon DEF OrderMattersOnlyForTies
<1>4. ASSUME x1 \in Seq(Activities)
      PROVE  \/ result(back) = result(x1)
             \/ \E a, b \in Elements(x1) : a # b /\ a.at = b.at /\ Unit(a) = Unit(b)
  BY <1>1, <1>4, Zenon
<1> HIDE DEF back, result
<1> QED
  BY <1>3, <1>4, Zenon DEF ScoringInv

\* What the model answered of an activity.
LEMMA AnswersAre ==
    ASSUME x2 \in Answers, NEW a \in Activities, NEW routing
    PROVE  ScoreUnit(Input(a), routing, Generated).contribution
              = IF x2 = "nonsense" THEN "low" ELSE x2
<1> DEFINE d == IF routing THEN InputDifficulty(Input(a)) ELSE "any"
           q == <<Prompt(Input(a)), d>>
<1>1. d \in {"any", "easy", "medium", "hard"}
  BY Zenon DEF InputDifficulty
<1>2. q \in Prompts \X {"any", "easy", "medium", "hard"}
  <2>1. Prompt(Input(a)) \in Prompts
    BY Zenon DEF Prompts
  <2> QED
    BY <1>1, <2>1, Zenon
<1>3. Generated[q] = [difficulty |-> q[2], contribution |-> x2]
  BY <1>2, Zenon DEF Generated
<1> HIDE DEF q, d
<1>4. PICK answer : answer = Generated[q] /\ answer.contribution = x2
  BY <1>3, SMT
<1>5. ScoreUnit(Input(a), routing, Generated).contribution = Classify(answer).contribution
  <2>1. ScoreUnit(Input(a), routing, Generated).contribution
           = Classify(Generated[<<Prompt(Input(a)), IF routing THEN InputDifficulty(Input(a))
                                                    ELSE "any">>]).contribution
    BY SMT DEF ScoreUnit
  <2> QED
    BY <1>4, <2>1, Zenon DEF q, d
<1>6. Classify(answer).contribution
         = IF x2 \in {"zero", "low", "medium", "high"} THEN x2 ELSE "low"
  BY <1>4, SMT DEF Classify
<1>7. (x2 = "nonsense" => x2 \notin {"zero", "low", "medium", "high"})
      /\ (x2 # "nonsense" => x2 \in {"zero", "low", "medium", "high"})
  BY SMT DEF Answers
<1> QED
  BY <1>5, <1>6, <1>7, Zenon

\* Whatever the activities, the floor is final.
LEMMA FloorIsFinalAlways == ScoringInv => FloorIsFinal
<1> DEFINE Of1(r) == {a \in Elements(x1) : Unit(a) = r.unit}
           First(r) == CHOOSE a \in Of1(r) : \A b \in Of1(r) : a.at <= b.at
           Fits(r) ==
              \/ \E a \in Of1(r) : a # First(r) /\ a.at = First(r).at
              \/ IF First(r).titleLength <= 1 \/ x2 = "zero" THEN Score(r.contribution) = 0
                 ELSE Score(r.contribution) >= IF x2 = "medium" THEN 2 ELSE 1
<1>1. ASSUME x1 \in Seq(Activities), x2 \in Answers, NEW r \in Elements(Evaluated(x1))
      PROVE  Fits(r)
  <2>1. PICK results : results = Evaluated(x1)
    BY Zenon
  <2>2. PICK i \in DOMAIN results : r = results[i]
    BY <1>1, <2>1, Zenon DEF Elements
  <2>3. PICK k \in DOMAIN x1 : LevelIsOf(x1, x3, Generated, results, i, x1[k])
    <3>1. \A a \in Activities : a.at \in Nat /\ a.titleLength \in Nat
      BY ActivitiesFit, Zenon
    <3>2. results = EvaluateActivities(x1, x3, Generated)
      BY <2>1, Zenon DEF Evaluated
    <3> QED
      BY <1>1, <3>1, <3>2, LevelsAreOfTheEarliest, Zenon
  <2>4. PICK a \in Activities : a = x1[k]
    BY <1>1, SMT
  <2>5. a \in Of1(r) /\ \A b \in Of1(r) : a.at <= b.at /\ b \in Activities
    <3>1. r.unit = Unit(a) /\ a \in Elements(x1)
      BY <2>2, <2>3, <2>4, Zenon DEF LevelIsOf, Elements
    <3>2. ASSUME NEW b \in Of1(r) PROVE a.at <= b.at /\ b \in Activities
      <4>1. PICK j \in DOMAIN x1 : b = x1[j] /\ Unit(b) = r.unit
        BY Zenon DEF Elements
      <4>2. b \in Activities
        BY <1>1, <4>1, SMT
      <4> QED
        BY <2>3, <2>4, <3>1, <4>1, <4>2, Zenon DEF LevelIsOf
    <3> QED
      BY <3>1, <3>2, Zenon
  <2>6. PICK first : first = First(r)
    BY Zenon
  <2>7. first \in Of1(r) /\ \A b \in Of1(r) : first.at <= b.at
    <3>1. \E c \in Of1(r) : \A b \in Of1(r) : c.at <= b.at
      BY <2>5, Zenon
    <3> HIDE DEF Of1
    <3> QED
      BY <2>6, <3>1, Zenon
  <2>8. a.at = first.at
    <3>1. a.at <= first.at /\ first.at <= a.at /\ first \in Activities
      BY <2>5, <2>7, Zenon
    <3>2. a.at \in Nat /\ first.at \in Nat
      BY <3>1, ActivitiesFit, Zenon
    <3> QED
      BY <3>1, <3>2, SMT
  <2>9. CASE a # first
    BY <2>5, <2>6, <2>8, <2>9, Zenon
  <2>10. CASE a = first
    <3>1. PICK level : level = r.contribution
      BY Zenon
    <3>2. PICK n \in Nat : n = a.titleLength
      BY ActivitiesFit, Zenon
    <3>3. PICK answered : answered = ScoreUnit(Input(a), x3, Generated).contribution
      BY Zenon
    <3>4. answered = IF x2 = "nonsense" THEN "low" ELSE x2
      BY <1>1, <3>3, AnswersAre, Zenon
    <3>5. /\ n <= TITLE_FLOOR => level = "zero"
          /\ n > TITLE_FLOOR => level = answered \/ (level = "high" /\ answered # "zero")
      BY <2>2, <2>3, <2>4, <3>1, <3>2, <3>3, Zenon DEF LevelIsOf
    <3>6. IF n <= 1 \/ x2 = "zero" THEN Score(level) = 0
          ELSE Score(level) >= IF x2 = "medium" THEN 2 ELSE 1
      <4>1. Score("zero") = 0 /\ Score("low") = 1 /\ Score("medium") = 2 /\ Score("high") = 3
        BY SMT DEF Score
      <4>2. x2 \in {"zero", "medium", "nonsense"}
        BY <1>1 DEF Answers
      <4>3. n <= 1 => level = "zero"
        BY <3>5, SMT DEF TITLE_FLOOR
      <4>4. ~(n <= 1) => level = answered \/ (level = "high" /\ answered # "zero")
        BY <3>2, <3>5, SMT DEF TITLE_FLOOR
      <4>5. CASE x2 = "zero"
        <5>1. level = "zero"
          BY <3>4, <4>3, <4>4, <4>5, SMT
        <5> QED
          BY <4>1, <4>5, <5>1, Zenon
      <4>6. CASE x2 # "zero" /\ n <= 1
        BY <4>1, <4>3, <4>6, Zenon
      <4>7. CASE x2 = "medium" /\ ~(n <= 1)
        <5>1. level = "medium" \/ level = "high"
          BY <3>4, <4>4, <4>7, SMT
        <5>2. Score(level) >= 2
          BY <4>1, <5>1, SMT
        <5> QED
          BY <4>7, <5>2, SMT
      <4>8. CASE x2 = "nonsense" /\ ~(n <= 1)
        <5>1. level = "low" \/ level = "high"
          BY <3>4, <4>4, <4>8, SMT
        <5>2. Score(level) >= 1
          BY <4>1, <5>1, SMT
        <5> QED
          BY <4>8, <5>2, SMT
      <4> QED
        BY <4>2, <4>5, <4>6, <4>7, <4>8, Zenon
    <3>7. First(r).titleLength = n /\ r.contribution = level
      BY <2>6, <2>10, <3>1, <3>2, Zenon
    <3> HIDE DEF First, Of1
    <3> QED
      BY <3>6, <3>7, Zenon
  <2> QED
    BY <2>9, <2>10, Zenon
<1>2. FloorIsFinal <=> (scene = "scoring" => \A r \in Elements(Evaluated(x1)) : Fits(r))
  BY Zenon DEF FloorIsFinal
<1> HIDE DEF Fits
<1> QED
  BY <1>1, <1>2, Zenon DEF ScoringInv

\* Whatever the activities, two share a unit only by their number.
LEMMA UnitsSharedOnlyByNumberAlways == ScoringInv => UnitsSharedOnlyByNumber
<1>1. ASSUME x1 \in Seq(Activities),
             ~\E a, b \in Elements(x1) : a # b /\ a.key = b.key /\ a.id = b.id
      PROVE  Len(Evaluated(x1)) = Cardinality(Elements(x1))
  <2>1. \A a \in Activities : a.at \in Nat
    BY ActivitiesFit, Zenon
  <2>2. \A i, j \in DOMAIN x1 : x1[i].key = x1[j].key /\ x1[i].id = x1[j].id => x1[i] = x1[j]
    BY <1>1, Zenon DEF Elements
  <2> QED
    BY <1>1, <2>1, <2>2, ElementsAre, UnitsAreShared, Zenon DEF Evaluated
<1> QED
  BY <1>1, Zenon DEF ScoringInv, UnitsSharedOnlyByNumber

\* For every activities, answers and routing the scene comes to, copies and the order
\* of the answers change nothing of what is stored but for ties, a trivial unit ends at
\* zero whatever its author's others are lifted to, and two works share a unit only by
\* their number (evaluation-dedup.ts:84, evaluation-quality-adjust.ts:119).
THEOREM ScoringTheorem == PagesAndFunctions => []ScoresAreOfTheWork
<1>1. ScoringInv => ScoresAreOfTheWork
  BY RepeatsChangeNothingAlways, OrderMattersOnlyForTiesAlways, FloorIsFinalAlways,
     UnitsSharedOnlyByNumberAlways DEF ScoresAreOfTheWork
<1> QED
  BY <1>1, ScoringInvInductive, PTL DEF PagesAndFunctions

------------------------------------------------------------------------------
(* The ranges that are fetched again. *)

\* What does not change from one to the next does not change.
StaysSame(g, a, b) == \A i \in Nat : a < i /\ i <= b => g[i] = g[i - 1]

\* It is the same all along.
LEMMA SteadyIs ==
    ASSUME NEW g, NEW a \in Nat, NEW b \in Nat, StaysSame(g, a, b), NEW i \in a..b
    PROVE  g[i] = g[a]
<1> DEFINE S == {k \in a..b : g[k] # g[a]}
<1>1. ASSUME S # {} PROVE FALSE
  <2>1. PICK m \in S : \A k \in S : m <= k
    <3>1. S \in SUBSET Nat
      BY SMT
    <3> HIDE DEF S
    <3> QED
      BY <1>1, <3>1, LeastOfSet, Zenon
  <2>2. m # a /\ m \in a..b
    BY Zenon
  <2>3. m - 1 \in a..b /\ ~(m <= m - 1) /\ m \in Nat /\ a < m /\ m <= b
    BY <2>2, SMT
  <2>4. g[m] = g[m - 1]
    BY <2>3, Zenon DEF StaysSame
  <2>5. g[m - 1] = g[a]
    BY <2>1, <2>3, Zenon
  <2> QED
    BY <2>4, <2>5, Zenon
<1> QED
  BY <1>1, Zenon

\* Numbers that rise, and where those that follow one another begin and end.
Rises(f, n) ==
    /\ \A k \in 1..n : f[k] \in Nat
    /\ \A j, k \in 1..n : j < k => f[j] < f[k]
HeadsOf(f, n) == {i \in 1..n : i = 1 \/ f[i] # f[i - 1] + 1}
TailsOf(h, n) == [k \in DOMAIN h |-> IF k = Len(h) THEN n ELSE h[k + 1] - 1]
IsRun(f, n, h, tail, m, k) ==
    /\ h[k] \in 1..n /\ tail[k] \in 1..n /\ h[k] <= tail[k]
    /\ k = 1 => h[k] = 1
    /\ k = m => tail[k] = n
    /\ k < m => h[k + 1] = tail[k] + 1 /\ f[tail[k]] + 1 < f[h[k + 1]]
    /\ \A i \in 1..n : h[k] < i /\ i <= tail[k] => f[i] = f[i - 1] + 1
AreRuns(f, n, h, tail, m) ==
    /\ m \in Nat /\ m <= n /\ (m = 0 <=> n = 0)
    /\ Len(h) = m /\ DOMAIN h = 1..m
    /\ \A k \in 1..m : IsRun(f, n, h, tail, m, k)
    /\ \A i \in 1..n : \E k \in 1..m : h[k] <= i /\ i <= tail[k]
    /\ m = Cardinality(HeadsOf(f, n))

\* They are cut into runs, each from a head to before the next.
LEMMA RunsAre ==
    ASSUME NEW f, NEW n \in Nat, Rises(f, n), NEW h, h = Ascending(HeadsOf(f, n)),
           NEW tail, tail = TailsOf(h, n)
    PROVE  AreRuns(f, n, h, tail, Len(h))
<1>1. PICK H : H = HeadsOf(f, n)
  BY Zenon
<1>2. /\ H \in SUBSET Nat /\ (\A i \in H : i <= n /\ i \in 1..n)
      /\ n > 0 => 1 \in H
      /\ \A i \in 1..n : i \notin H => i # 1 /\ f[i] = f[i - 1] + 1
      /\ \A i \in H : i = 1 \/ f[i] # f[i - 1] + 1
  BY <1>1, SMT DEF HeadsOf
<1>3. IsAscending(h, H)
  BY <1>1, <1>2, AscendingRises, Zenon
<1>4. PICK m \in Nat : m = Len(h) /\ DOMAIN h = 1..m
  BY <1>3, SMT DEF IsAscending
<1>5. /\ \A k \in 1..m : h[k] \in H
      /\ \A i \in H : \E k \in 1..m : h[k] = i
      /\ \A j, k \in 1..m : j < k => h[j] < h[k]
  BY <1>3, <1>4, Zenon DEF IsAscending, ToSet
<1>6. \A k \in 1..m : h[k] \in 1..n
  BY <1>2, <1>5, Zenon
<1>7. ASSUME n > 0 PROVE m > 0 /\ h[1] = 1
  <2>1. PICK k \in 1..m : h[k] = 1
    BY <1>2, <1>5, <1>7, Zenon
  <2>2. m > 0 /\ 1 \in 1..m /\ (k # 1 => 1 < k)
    BY SMT
  <2>3. PICK v \in 1..n : v = h[1] /\ (1 < k => v < 1)
    BY <1>5, <1>6, <2>1, <2>2, Zenon
  <2>4. ~(v < 1)
    BY SMT
  <2> QED
    BY <2>1, <2>2, <2>3, <2>4, Zenon
<1>8. m = 0 <=> n = 0
  <2>1. ASSUME n = 0, m # 0 PROVE FALSE
    <3>1. 1 \in 1..m /\ 1..n = {}
      BY <2>1, SMT
    <3> QED
      BY <1>6, <3>1, Zenon
  <2>2. n # 0 => n > 0
    BY SMT
  <2>3. m > 0 => m # 0
    BY SMT
  <2> QED
    BY <1>7, <2>1, <2>2, <2>3, Zenon
<1>9. \A k \in 1..m : tail[k] = IF k = m THEN n ELSE h[k + 1] - 1
  BY <1>4, Zenon DEF TailsOf
<1>10. ASSUME NEW k \in 1..m
       PROVE  /\ tail[k] \in 1..n /\ h[k] <= tail[k]
              /\ k = m => tail[k] = n
              /\ k < m => k + 1 \in 1..m /\ tail[k] = h[k + 1] - 1 /\ h[k + 1] \in 1..n
                          /\ h[k] < h[k + 1]
  <2>1. PICK v \in 1..n : v = h[k]
    BY <1>6, Zenon
  <2>2. CASE k = m
    <3>1. tail[k] = n
      BY <1>9, <2>2, Zenon
    <3> QED
      BY <2>1, <2>2, <3>1, SMT
  <2>3. CASE k # m
    <3>1. k < m /\ k + 1 \in 1..m /\ k < k + 1
      BY <2>3, SMT
    <3>2. PICK w \in 1..n : w = h[k + 1] /\ v < w /\ tail[k] = w - 1
      BY <1>5, <1>6, <1>9, <2>1, <2>3, <3>1, Zenon
    <3> QED
      BY <2>1, <2>3, <3>1, <3>2, SMT
  <2> QED
    BY <2>2, <2>3, Zenon
<1>11. ASSUME NEW k \in 1..m, NEW i \in 1..n, h[k] < i, i <= tail[k]
       PROVE  f[i] = f[i - 1] + 1
  <2>1. ASSUME i \in H PROVE FALSE
    <3>1. PICK j \in 1..m : h[j] = i
      BY <1>5, <2>1, Zenon
    <3>2. PICK v \in 1..n : v = h[k] /\ v < i
      BY <1>6, <1>11, Zenon
    <3>3. j < k \/ j = k \/ (k < j /\ k < m /\ (k + 1 = j \/ k + 1 < j))
      BY SMT
    <3>4. CASE j < k
      <4>1. i < v
        BY <1>5, <3>1, <3>2, <3>4, Zenon
      <4> QED
        BY <3>2, <4>1, SMT
    <3>5. CASE j = k
      <4>1. i = v
        BY <3>1, <3>2, <3>5, Zenon
      <4> QED
        BY <3>2, <4>1, SMT
    <3>6. CASE k < m /\ (k + 1 = j \/ k + 1 < j)
      <4>1. PICK w \in 1..n : w = h[k + 1] /\ tail[k] = w - 1 /\ k + 1 \in 1..m
        BY <1>10, <3>6, Zenon
      <4>2. w = i \/ w < i
        BY <1>5, <3>1, <3>6, <4>1, Zenon
      <4> QED
        BY <1>11, <4>1, <4>2, SMT
    <3> QED
      BY <3>3, <3>4, <3>5, <3>6, Zenon
  <2> QED
    BY <1>2, <2>1, Zenon
<1>12. ASSUME NEW k \in 1..m, k < m
       PROVE  h[k + 1] = tail[k] + 1 /\ f[tail[k]] + 1 < f[h[k + 1]]
  <2>1. PICK v \in 1..n, t \in 1..n, w \in 1..n :
            v = h[k] /\ t = tail[k] /\ w = h[k + 1] /\ t = w - 1 /\ v < w /\ w \in H
    <3>1. k + 1 \in 1..m
      BY <1>10, <1>12, Zenon
    <3> QED
      BY <1>5, <1>6, <1>10, <1>12, <3>1, Zenon
  <2>2. t < w /\ w # 1 /\ w = t + 1
    BY <2>1, SMT
  <2>3. f[w] # f[t] + 1 /\ f[t] < f[w] /\ f[t] \in Nat /\ f[w] \in Nat
    BY <1>2, <2>1, <2>2, Zenon DEF Rises
  <2>4. f[t] + 1 < f[w]
    BY <2>3, SMT
  <2> QED
    BY <2>1, <2>2, <2>4, Zenon
<1>13. ASSUME NEW i \in 1..n PROVE \E k \in 1..m : h[k] <= i /\ i <= tail[k]
  <2> DEFINE K == {k \in 1..m : h[k] <= i}
  <2>1. 1 \in K
    <3>1. n > 0 /\ 1 <= i
      BY SMT
    <3>2. 1 \in 1..m /\ h[1] <= i
      BY <1>7, <3>1, SMT
    <3> QED
      BY <3>2, Zenon
  <2>2. PICK R : R = K
    BY Zenon
  <2>3. R \in SUBSET Nat /\ (\A k \in R : k <= m) /\ R # {}
    BY <2>1, <2>2, SMT
  <2>4. Greatest(R) \in R /\ \A k \in R : k <= Greatest(R)
    BY <2>3, GreatestIs
  <2>5. PICK k \in 1..m : h[k] <= i /\ \A j \in K : j <= k
    BY <2>2, <2>4, Zenon
  <2>6. CASE k = m
    <3>1. tail[k] = n /\ i <= n
      BY <1>10, <2>6, SMT
    <3> QED
      BY <2>5, <3>1, Zenon
  <2>7. CASE k # m
    <3>1. k < m /\ ~(k + 1 <= k)
      BY <2>7, SMT
    <3>2. PICK w \in 1..n : w = h[k + 1] /\ tail[k] = w - 1 /\ k + 1 \in 1..m
      BY <1>10, <3>1, Zenon
    <3>3. ~(w <= i)
      BY <2>5, <3>1, <3>2, Zenon
    <3>4. i <= tail[k]
      BY <3>2, <3>3, SMT
    <3> QED
      BY <2>5, <3>4, Zenon
  <2> QED
    BY <2>6, <2>7, Zenon
<1>14. m = Cardinality(H) /\ m <= n
  <2>1. ASSUME NEW j \in 1..m, NEW k \in 1..m, h[j] = h[k] PROVE j = k
    <3>1. PICK v \in 1..n : v = h[j] /\ v = h[k] /\ ~(v < v)
      <4>1. \A v \in 1..n : ~(v < v)
        BY SMT
      <4> QED
        BY <1>6, <2>1, <4>1, Zenon
    <3>2. j < k \/ k < j \/ j = k
      BY SMT
    <3> QED
      BY <1>5, <3>1, <3>2, Zenon
  <2>2. h \in Seq(Nat) /\ ToSet(h) = H
    BY <1>3, Zenon DEF IsAscending
  <2>3. IsFiniteSet(ToSet(h)) /\ Cardinality(ToSet(h)) = Len(h)
    BY <1>4, <2>1, <2>2, OnceCounts, Zenon
  <2>4. IsFiniteSet(1..n) /\ Cardinality(1..n) = n
    <3>1. n \in Int /\ 1 \in Int
      BY SMT
    <3>2. IsFiniteSet(1..n) /\ Cardinality(1..n) = IF 1 > n THEN 0 ELSE n - 1 + 1
      BY <3>1, FS_Interval, Zenon
    <3> QED
      BY <3>2, SMT
  <2>5. H \in SUBSET (1..n)
    BY <1>2, Zenon
  <2>6. Cardinality(H) <= Cardinality(1..n)
    BY <2>4, <2>5, FS_Subset, Zenon
  <2> QED
    BY <1>4, <2>2, <2>3, <2>4, <2>6, Zenon
<1>15. ASSUME NEW k \in 1..m PROVE IsRun(f, n, h, tail, m, k)
  <2>1. k = 1 => h[k] = 1
    <3>1. k = 1 => n > 0
      <4>1. PICK v \in 1..n : v = h[k]
        BY <1>6, Zenon
      <4> QED
        BY <4>1, SMT
    <3> QED
      BY <1>7, <3>1, Zenon
  <2> QED
    BY <1>6, <1>10, <1>11, <1>12, <2>1, Zenon DEF IsRun
<1> QED
  BY <1>1, <1>4, <1>8, <1>13, <1>14, <1>15, Zenon DEF AreRuns

\* The chunks that failed, and which of the plan they are.
AreFailed(failed, plan, total, x, f, n) ==
    /\ IsPlan(plan, total) /\ n \in Nat /\ Len(failed) = n /\ DOMAIN failed = 1..n
    /\ Rises(f, n)
    /\ \A k \in 1..n : f[k] \in x /\ f[k] \in DOMAIN plan /\ failed[k] = plan[f[k]]
    /\ \A p \in x : \E k \in 1..n : f[k] = p

\* They are in the order of the plan.
LEMMA FailedRise ==
    ASSUME NEW plan, NEW total, IsPlan(plan, total), NEW x \in SUBSET DOMAIN plan,
           NEW failed \in Seq(ToSet(plan)), NEW f, Takes(failed, plan, x, f)
    PROVE  AreFailed(failed, plan, total, x, f, Len(failed))
<1>1. PICK n \in Nat : n = Len(failed) /\ DOMAIN failed = 1..n
  BY SMT
<1>2. /\ f \in [1..n -> x] /\ \A p \in x : \E k \in 1..n : f[k] = p
      /\ \A j, k \in 1..n : j < k => f[j] < f[k]
      /\ \A k \in 1..n : failed[k] = plan[f[k]]
  BY <1>1, Zenon DEF Takes
<1>3. \A p \in DOMAIN plan : p \in Nat
  BY SMT DEF IsPlan
<1>4. \A k \in 1..n : f[k] \in x
  BY <1>2, Zenon
<1>5. Rises(f, n)
  BY <1>2, <1>3, <1>4, Zenon DEF Rises
<1> QED
  BY <1>1, <1>2, <1>4, <1>5, Zenon DEF AreFailed

\* Where a chunk of the plan lies.
LEMMA ChunkLies ==
    ASSUME NEW plan, NEW total, IsPlan(plan, total), NEW p \in DOMAIN plan
    PROVE  /\ p \in Nat /\ p # 0 /\ p - 1 \in 0..Len(plan) /\ p \in 0..Len(plan) /\ p - 1 < p
           /\ plan[p].index = p - 1 /\ plan[p].offset = EndOf(plan, p - 1)
           /\ plan[p].offset + plan[p].size = EndOf(plan, p)
           /\ EndOf(plan, p - 1) \in Nat /\ EndOf(plan, p) \in Nat
           /\ EndOf(plan, p) = EndOf(plan, p - 1) + plan[p].size
           /\ EndOf(plan, p - 1) < EndOf(plan, p)
<1>1. p \in Nat /\ p > 0 /\ p # 0 /\ p - 1 \in 0..Len(plan) /\ p \in 0..Len(plan) /\ p - 1 < p
  BY SMT DEF IsPlan
<1>2. /\ EndOf(plan, p - 1) \in Nat /\ EndOf(plan, p) \in Nat
      /\ EndOf(plan, p) = EndOf(plan, p - 1) + plan[p].size
      /\ EndOf(plan, p - 1) < EndOf(plan, p)
  BY <1>1, EndsRise
<1>3. plan[p].offset + plan[p].size = EndOf(plan, p)
  BY <1>1, Zenon DEF EndOf
<1>4. plan[p].index = p - 1 /\ plan[p].offset = EndOf(plan, p - 1)
  BY Zenon DEF IsPlan
<1> QED
  BY <1>1, <1>2, <1>3, <1>4, Zenon

\* Ranges of bytes, from lo to before hi, that do not touch.
IsFetched(range, lo, hi, count) ==
    /\ lo \in Nat /\ hi \in Nat /\ lo < hi
    /\ range.first = lo /\ range.last = hi - 1 /\ range.length = hi - lo
    /\ range.chunkCount = count

\* A range of the refetch.
LEMMA RangeIs ==
    ASSUME NEW lo \in Nat, NEW hi \in Nat, lo < hi, NEW count, NEW range,
           NEW last, last = hi - 1,
           range = [first |-> lo, last |-> last, length |-> last - lo + 1, chunkCount |-> count]
    PROVE  IsFetched(range, lo, hi, count)
<1>1. PICK end \in Int : end = last /\ end = hi - 1
  BY SMT
<1>2. PICK length \in Nat : length = last - lo + 1 /\ length = hi - lo
  BY <1>1, SMT
<1>3. range = [first |-> lo, last |-> end, length |-> length, chunkCount |-> count]
  BY <1>1, <1>2, Zenon
<1>4. range.first = lo /\ range.last = end /\ range.length = length /\ range.chunkCount = count
  BY <1>3, SMT
<1> QED
  BY <1>1, <1>2, <1>4, Zenon DEF IsFetched

\* Coalesced, the failed chunks are ranges that do not touch.
AreCoalesced(ranges, plan, f, h, tail, m) ==
    /\ Len(ranges) = m /\ DOMAIN ranges = 1..m /\ (ranges = <<>> <=> m = 0)
    /\ \A k \in 1..m : IsFetched(ranges[k], EndOf(plan, f[h[k]] - 1), EndOf(plan, f[tail[k]]),
                                tail[k] - h[k] + 1)

\* Each run of failed chunks is one range.
LEMMA CoalescedAre ==
    ASSUME NEW reconcile, NEW plan, NEW total, NEW x, NEW f, NEW n,
           AreFailed(reconcile.failed, plan, total, x, f, n),
           NEW h, h = Ascending(HeadsOf(f, n)), NEW tail, tail = TailsOf(h, n),
           NEW m, AreRuns(f, n, h, tail, m)
    PROVE  AreCoalesced(Coalesce(reconcile), plan, f, h, tail, m)
<1> DEFINE failed == reconcile.failed
<1>1. /\ IsPlan(plan, total) /\ n \in Nat /\ Len(failed) = n /\ DOMAIN failed = 1..n
      /\ \A k \in 1..n : f[k] \in DOMAIN plan /\ failed[k] = plan[f[k]]
  BY Zenon DEF AreFailed
<1>2. m \in Nat /\ Len(h) = m /\ DOMAIN h = 1..m /\ \A k \in 1..m : IsRun(f, n, h, tail, m, k)
  BY Zenon DEF AreRuns
<1> DEFINE heads == {i \in DOMAIN failed : i = 1 \/ failed[i - 1].index + 1 # failed[i].index}
<1>3. heads = HeadsOf(f, n)
  <2>1. ASSUME NEW i \in 1..n, i # 1
        PROVE  failed[i - 1].index + 1 = failed[i].index <=> f[i] = f[i - 1] + 1
    <3>1. i - 1 \in 1..n
      BY <1>1, <2>1, SMT
    <3>2. PICK p \in DOMAIN plan, q \in DOMAIN plan :
              /\ p = f[i - 1] /\ q = f[i] /\ failed[i - 1] = plan[p] /\ failed[i] = plan[q]
      BY <1>1, <3>1, Zenon
    <3>3. p \in Nat /\ q \in Nat /\ plan[p].index = p - 1 /\ plan[q].index = q - 1
      BY <1>1, ChunkLies, Zenon
    <3>4. (p - 1) + 1 = q - 1 <=> q = p + 1
      BY <3>3, SMT
    <3> QED
      BY <3>2, <3>3, <3>4, Zenon
  <2> QED
    BY <1>1, <2>1, Zenon DEF HeadsOf
<1> DEFINE range(k) == [first |-> failed[h[k]].offset,
                        last |-> ByteRange(failed[tail[k]]).last,
                        length |-> ByteRange(failed[tail[k]]).last - failed[h[k]].offset + 1,
                        chunkCount |-> tail[k] - h[k] + 1]
<1>4. Coalesce(reconcile) = [k \in 1..m |-> range(k)]
  <2> DEFINE head == Ascending(heads)
             end == [k \in DOMAIN head |->
                        IF k = Len(head) THEN Len(failed) ELSE head[k + 1] - 1]
  <2>1. Coalesce(reconcile)
           = [k \in DOMAIN head |->
                [first |-> failed[head[k]].offset,
                 last |-> ByteRange(failed[end[k]]).last,
                 length |-> ByteRange(failed[end[k]]).last - failed[head[k]].offset + 1,
                 chunkCount |-> end[k] - head[k] + 1]]
    BY Zenon DEF Coalesce
  <2> HIDE DEF heads
  <2>2. h = head
    BY <1>3, Zenon
  <2> HIDE DEF head
  <2>3. tail = end
    BY <1>1, <2>2, Zenon DEF TailsOf
  <2> HIDE DEF end
  <2> QED
    BY <1>2, <2>1, <2>2, <2>3, Zenon
<1> HIDE DEF heads, failed
<1>5. ASSUME NEW k \in 1..m
      PROVE  IsFetched(range(k), EndOf(plan, f[h[k]] - 1), EndOf(plan, f[tail[k]]),
                      tail[k] - h[k] + 1)
  <2>1. PICK a \in 1..n, b \in 1..n : a = h[k] /\ b = tail[k] /\ a <= b
    BY <1>2, Zenon DEF IsRun
  <2>2. PICK p \in DOMAIN plan, q \in DOMAIN plan :
            p = f[a] /\ q = f[b] /\ failed[a] = plan[p] /\ failed[b] = plan[q]
    BY <1>1, Zenon
  <2>3. a < b \/ a = b
    BY <2>1, SMT
  <2>4. p < q \/ p = q
    BY <2>2, <2>3, Zenon DEF AreFailed, Rises
  <2>5. PICK lo \in Nat, hi \in Nat, mid \in Nat :
            /\ lo = EndOf(plan, p - 1) /\ mid = EndOf(plan, p) /\ hi = EndOf(plan, q)
            /\ plan[p].offset = lo /\ plan[q].offset + plan[q].size = hi /\ lo < mid
            /\ p \in 0..Len(plan) /\ q \in 0..Len(plan)
    <3>1. /\ EndOf(plan, p - 1) \in Nat /\ EndOf(plan, p) \in Nat /\ p \in 0..Len(plan)
          /\ plan[p].offset = EndOf(plan, p - 1) /\ EndOf(plan, p - 1) < EndOf(plan, p)
      BY <1>1, ChunkLies, Zenon
    <3>2. /\ EndOf(plan, q) \in Nat /\ plan[q].offset + plan[q].size = EndOf(plan, q)
          /\ q \in 0..Len(plan)
      BY <1>1, ChunkLies, Zenon
    <3> QED
      BY <3>1, <3>2, Zenon
  <2>6. mid < hi \/ mid = hi
    <3>1. p < q => mid < hi
      BY <1>1, <2>5, EndsRise
    <3> QED
      BY <2>4, <2>5, <3>1, Zenon
  <2>7. lo < hi
    BY <2>5, <2>6, SMT
  <2>8. PICK last, count, length : /\ last = hi - 1 /\ count = tail[k] - h[k] + 1
                                   /\ length = last - lo + 1
    BY Zenon
  <2>9. ByteRange(failed[b]).last = last
    <3>1. PICK v, w : /\ v = plan[q].offset /\ w = plan[q].offset + (plan[q].size - 1)
                      /\ ByteRange(plan[q]) = [first |-> v, last |-> w]
      BY Zenon DEF ByteRange
    <3>2. PICK r : r = ByteRange(plan[q]) /\ r = [first |-> v, last |-> w]
      BY <3>1, Zenon
    <3>3. r.last = w
      BY <3>2, SMT
    <3>4. ByteRange(failed[b]).last = w
      BY <2>2, <3>2, <3>3, Zenon
    <3>5. w = last
      <4>1. PICK o \in Nat, s \in Nat : o = plan[q].offset /\ s = plan[q].size /\ o + s = hi
        BY <1>1, <2>5, Zenon DEF IsPlan
      <4>2. o + (s - 1) = hi - 1
        BY <4>1, SMT
      <4> QED
        BY <2>8, <3>1, <4>1, <4>2, Zenon
    <3> QED
      BY <3>4, <3>5, Zenon
  <2>10. range(k) = [first |-> lo, last |-> last, length |-> last - lo + 1, chunkCount |-> count]
    BY <2>1, <2>2, <2>5, <2>8, <2>9, Zenon
  <2>11. IsFetched(range(k), lo, hi, count)
    <3>1. PICK r : r = range(k)
      BY Zenon
    <3>2. r = [first |-> lo, last |-> last, length |-> last - lo + 1, chunkCount |-> count]
      BY <2>10, <3>1, Zenon
    <3>3. IsFetched(r, lo, hi, count)
      BY <2>7, <2>8, <3>2, RangeIs, Zenon
    <3> QED
      BY <3>1, <3>3, Zenon
  <2> QED
    BY <2>1, <2>2, <2>5, <2>8, <2>11, Zenon
<1> HIDE DEF range
<1>6. Len(Coalesce(reconcile)) = m /\ (Coalesce(reconcile) = <<>> <=> m = 0)
  <2>1. PICK c : c = Coalesce(reconcile) /\ c = [k \in 1..m |-> c[k]]
    BY <1>4, Zenon
  <2>2. c \in Seq(ToSet(c)) /\ Len(c) = m
    BY <1>2, <2>1, ValuesOfSequence, Zenon
  <2>3. c = <<>> <=> m = 0
    BY <2>2, SMT
  <2> QED
    BY <2>1, <2>2, <2>3, Zenon
<1> QED
  BY <1>4, <1>5, <1>6, Zenon DEF AreCoalesced

\* What the first of some numbers add up to.
AreSums(p, s, l) ==
    /\ p[0] = 0 /\ \A n \in 0..l : p[n] \in Nat
    /\ \A n \in 1..l : p[n] = p[n - 1] + s[n]

\* There are such sums.
LEMMA SumsFit ==
    ASSUME NEW s, NEW l \in Nat, \A n \in 1..l : s[n] \in Nat
    PROVE  \E p : AreSums(p, s, l)
<1>1. PICK p : IsTotalled(s, l, p)
  BY TotalsExist, Zenon
<1>2. \A n \in 0..l : p[n] = IF n = 0 THEN 0 ELSE p[n - 1] + s[n]
  BY <1>1, Zenon DEF IsTotalled
<1> DEFINE S == {n \in 0..l : p[n] \notin Nat}
<1>3. p[0] = 0
  BY <1>2, SMT
<1>4. ASSUME S # {} PROVE FALSE
  <2>1. PICK m \in S : \A k \in S : m <= k
    <3>1. S \in SUBSET Nat
      BY SMT
    <3> HIDE DEF S
    <3> QED
      BY <1>4, <3>1, LeastOfSet, Zenon
  <2>2. m # 0 /\ m \in 0..l
    <3>1. 0 \in Nat
      BY SMT
    <3> QED
      BY <1>3, <2>1, <3>1, Zenon
  <2>3. PICK k \in 0..l : k = m - 1 /\ k \notin S /\ m \in 1..l
    <3>1. m - 1 \in 0..l /\ ~(m <= m - 1) /\ m \in 1..l
      BY <2>2, SMT
    <3> QED
      BY <2>1, <3>1, Zenon
  <2>4. PICK a \in Nat, b \in Nat : p[k] = a /\ s[m] = b
    BY <2>3, Zenon
  <2>5. p[m] = a + b
    BY <1>2, <2>2, <2>3, <2>4, Zenon
  <2>6. a + b \in Nat
    BY SMT
  <2> QED
    BY <2>1, <2>5, <2>6, Zenon
<1>5. ASSUME NEW n \in 1..l PROVE p[n] = p[n - 1] + s[n]
  <2>1. n \in 0..l /\ n # 0
    BY SMT
  <2> QED
    BY <1>2, <2>1, Zenon
<1> QED
  BY <1>3, <1>4, <1>5, Zenon DEF AreSums

\* The bytes of the ranges are those of the failed chunks.
AddUp(w, plan, f, h, tail, m, bytes) ==
    /\ w[0] = 0 /\ w[m] = bytes /\ \A k \in 0..m : w[k] \in Nat
    /\ \A k \in 1..m :
          w[k] = w[k - 1] + (EndOf(plan, f[tail[k]]) - EndOf(plan, f[h[k]] - 1))

\* They do, run by run.
LEMMA RangesAddUp ==
    ASSUME NEW failed, NEW plan, NEW total, NEW x, NEW f, NEW n,
           AreFailed(failed, plan, total, x, f, n),
           NEW h, NEW tail, NEW m, AreRuns(f, n, h, tail, m)
    PROVE  \E w : AddUp(w, plan, f, h, tail, m, SizeOf(failed))
<1>1. /\ IsPlan(plan, total) /\ n \in Nat /\ Len(failed) = n /\ DOMAIN failed = 1..n
      /\ \A k \in 1..n : f[k] \in DOMAIN plan /\ failed[k] = plan[f[k]]
  BY Zenon DEF AreFailed
<1>2. /\ m \in Nat /\ (m = 0 <=> n = 0) /\ \A k \in 1..m : IsRun(f, n, h, tail, m, k)
  BY Zenon DEF AreRuns
<1> DEFINE s == [i \in 1..n |-> failed[i].size]
<1>3. SizeOf(failed) = Total(s) /\ Len(s) = n
  <2>1. SizeOf(failed) = Total(s)
    BY <1>1, Zenon DEF SizeOf
  <2>2. Len(s) = n
    BY <1>1, SMT
  <2> QED
    BY <2>1, <2>2, Zenon
<1>4. ASSUME NEW i \in 1..n
      PROVE  /\ s[i] \in Nat /\ f[i] \in Nat
             /\ EndOf(plan, f[i]) \in Nat /\ EndOf(plan, f[i] - 1) \in Nat
             /\ EndOf(plan, f[i]) = EndOf(plan, f[i] - 1) + s[i]
  <2>1. PICK p \in DOMAIN plan : p = f[i] /\ failed[i] = plan[p]
    BY <1>1, Zenon
  <2>2. plan[p].size \in Nat
    BY <1>1, Zenon DEF IsPlan
  <2>3. /\ p \in Nat /\ EndOf(plan, p) \in Nat /\ EndOf(plan, p - 1) \in Nat
        /\ EndOf(plan, p) = EndOf(plan, p - 1) + plan[p].size
    BY <1>1, ChunkLies, Zenon
  <2>4. s[i] = plan[p].size
    BY <2>1, Zenon
  <2> QED
    BY <2>1, <2>2, <2>3, <2>4, Zenon
<1> HIDE DEF s
<1>5. PICK p : AreSums(p, s, n)
  BY <1>1, <1>4, SumsFit, Zenon
<1>6. /\ p[0] = 0 /\ \A i \in 0..n : p[i] \in Nat
      /\ \A i \in 1..n : p[i] = p[i - 1] + s[i]
  BY <1>5, Zenon DEF AreSums
<1>7. SizeOf(failed) = p[n]
  <2>1. n \in Nat /\ Len(s) = n /\ p[0] = 0 /\ \A i \in 1..n : p[i] = p[i - 1] + s[i]
    BY <1>1, <1>3, <1>6, Zenon
  <2>2. Total(s) = p[n]
    BY ONLY <2>1, TotalIs
  <2> QED
    BY <1>3, <2>2, Zenon
<1> DEFINE w == [k \in 0..m |-> IF k = 0 THEN 0 ELSE p[tail[k]]]
<1>8. w[0] = 0 /\ \A k \in 1..m : k \in 0..m /\ k # 0 /\ w[k] = p[tail[k]] /\ w[k] \in Nat
  <2>1. 0 \in 0..m
    BY <1>2, SMT
  <2>2. ASSUME NEW k \in 1..m PROVE k \in 0..m /\ k # 0 /\ w[k] = p[tail[k]] /\ w[k] \in Nat
    <3>1. PICK t \in 1..n : t = tail[k]
      BY <1>2, Zenon DEF IsRun
    <3>2. k \in 0..m /\ k # 0 /\ t \in 0..n
      BY <1>1, <1>2, SMT
    <3> QED
      BY <1>6, <3>1, <3>2, Zenon
  <2> QED
    BY <2>1, <2>2, Zenon
<1>9. w[m] = p[n]
  <2>1. m # 0 => m \in 1..m
    BY <1>2, SMT
  <2>2. m # 0 => tail[m] = n
    BY <1>2, <2>1, Zenon DEF IsRun
  <2> HIDE DEF w
  <2> QED
    BY <1>2, <1>6, <1>8, <2>1, <2>2, Zenon
<1> HIDE DEF w
<1>10. ASSUME NEW k \in 1..m
       PROVE  w[k] = w[k - 1] + (EndOf(plan, f[tail[k]]) - EndOf(plan, f[h[k]] - 1))
  <2>1. PICK a \in 1..n, b \in 1..n :
            /\ a = h[k] /\ b = tail[k] /\ a <= b
            /\ \A i \in 1..n : a < i /\ i <= b => f[i] = f[i - 1] + 1
    BY <1>2, Zenon DEF IsRun
  <2>2. w[k - 1] = p[a - 1]
    <3>1. CASE k = 1
      <4>1. a = 1 /\ k - 1 = 0 /\ a - 1 = 0
        <5>1. a = 1
          BY <1>2, <2>1, <3>1, Zenon DEF IsRun
        <5> QED
          BY <3>1, <5>1, SMT
      <4> QED
        BY <1>6, <1>8, <4>1, Zenon
    <3>2. CASE k # 1
      <4>1. PICK j \in 1..m : j = k - 1 /\ j < m /\ j + 1 = k
        <5>1. k - 1 \in 1..m /\ k - 1 < m /\ (k - 1) + 1 = k
          BY <1>2, <3>2, SMT
        <5> QED
          BY <5>1, Zenon
      <4>2. PICK t \in 1..n : t = tail[j] /\ a = t + 1
        <5>1. IsRun(f, n, h, tail, m, j) /\ h[j + 1] = a
          BY <1>2, <2>1, <4>1, Zenon
        <5>2. tail[j] \in 1..n /\ h[j + 1] = tail[j] + 1
          BY <4>1, <5>1, Zenon DEF IsRun
        <5> QED
          BY <5>1, <5>2, Zenon
      <4>3. a - 1 = t
        BY <4>2, SMT
      <4> QED
        BY <1>8, <4>1, <4>2, <4>3, Zenon
    <3> QED
      BY <3>1, <3>2, Zenon
  <2> DEFINE g == [i \in 1..n |-> EndOf(plan, f[i]) - p[i]]
  <2>3. \A i \in 1..n : g[i] = EndOf(plan, f[i]) - p[i]
    BY Zenon
  <2> HIDE DEF g
  <2>4. StaysSame(g, a, b)
    <3>1. ASSUME NEW i \in Nat, a < i, i <= b PROVE g[i] = g[i - 1]
      <4>1. i \in 1..n /\ i - 1 \in 1..n /\ i - 1 \in 0..n
        BY <1>1, <2>1, <3>1, SMT
      <4>2. PICK v \in Nat, u \in Nat : v = f[i] /\ u = f[i - 1] /\ v = u + 1
        BY <1>4, <2>1, <3>1, <4>1, Zenon
      <4>3. v - 1 = u
        BY <4>2, SMT
      <4>4. PICK d \in Nat, e \in Nat, q \in Nat :
                /\ d = s[i] /\ e = EndOf(plan, u) /\ q = p[i - 1]
                /\ EndOf(plan, v) = e + d /\ p[i] = q + d
        <5>1. /\ s[i] \in Nat /\ EndOf(plan, f[i - 1]) \in Nat
              /\ EndOf(plan, f[i]) = EndOf(plan, f[i] - 1) + s[i]
          BY <1>4, <4>1, Zenon
        <5>2. p[i - 1] \in Nat /\ p[i] = p[i - 1] + s[i]
          BY <1>6, <4>1, Zenon
        <5>3. EndOf(plan, u) \in Nat /\ EndOf(plan, v) = EndOf(plan, u) + s[i]
          BY <4>2, <4>3, <5>1, Zenon
        <5> QED
          BY <5>1, <5>2, <5>3, Zenon
      <4>5. (e + d) - (q + d) = e - q
        BY <4>4, SMT
      <4> QED
        BY <2>3, <4>1, <4>2, <4>4, <4>5, Zenon
    <3> QED
      BY <3>1, Zenon DEF StaysSame
  <2>5. g[b] = g[a]
    <3>1. a \in Nat /\ b \in Nat /\ b \in a..b
      BY <2>1, SMT
    <3> QED
      BY <2>4, <3>1, SteadyIs, Zenon
  <2>6. PICK lo \in Nat, mid \in Nat, hi \in Nat, d \in Nat, q \in Nat, r \in Nat, t \in Nat :
            /\ lo = EndOf(plan, f[a] - 1) /\ mid = EndOf(plan, f[a]) /\ hi = EndOf(plan, f[b])
            /\ mid = lo + d /\ q = p[a - 1] /\ r = p[a] /\ r = q + d /\ t = p[b]
    <3>1. a - 1 \in 0..n /\ a \in 0..n /\ b \in 0..n
      BY <1>1, SMT
    <3>2. /\ EndOf(plan, f[a] - 1) \in Nat /\ EndOf(plan, f[a]) \in Nat
          /\ EndOf(plan, f[b]) \in Nat /\ s[a] \in Nat
          /\ EndOf(plan, f[a]) = EndOf(plan, f[a] - 1) + s[a]
      BY <1>4, Zenon
    <3>3. p[a - 1] \in Nat /\ p[a] \in Nat /\ p[b] \in Nat /\ p[a] = p[a - 1] + s[a]
      BY <1>6, <3>1, Zenon
    <3> QED
      BY <3>2, <3>3, Zenon
  <2>7. hi - t = mid - r
    BY <2>3, <2>5, <2>6, Zenon
  <2>8. t = q + (hi - lo)
    BY <2>6, <2>7, SMT
  <2> QED
    BY <1>8, <2>1, <2>2, <2>6, <2>8, Zenon
<1>11. \A k \in 0..m : w[k] \in Nat
  <2>1. 0 \in Nat /\ \A k \in 0..m : k = 0 \/ k \in 1..m
    BY <1>2, SMT
  <2> QED
    BY <1>8, <2>1, Zenon
<1>12. AddUp(w, plan, f, h, tail, m, SizeOf(failed))
  BY <1>7, <1>8, <1>9, <1>10, <1>11, Zenon DEF AddUp
<1> QED
  BY <1>12, Zenon

\* Ranges of bytes, the k-th from lo[k] to before hi[k], that do not touch, and how
\* many bytes the first of them have.
IsBytes(range, lo, hi) ==
    /\ lo \in Nat /\ hi \in Nat /\ lo < hi
    /\ range.first = lo /\ range.last = hi - 1 /\ range.length = hi - lo
AreSpread(ranges, lo, hi, w, m, bytes) ==
    /\ m \in Nat /\ DOMAIN ranges = 1..m /\ Len(ranges) = m /\ (ranges = <<>> <=> m = 0)
    /\ \A k \in 1..m : IsBytes(ranges[k], lo[k], hi[k])
    /\ \A k \in 1..m : k < m => hi[k] < lo[k + 1]
    /\ w[0] = 0 /\ w[m] = bytes /\ \A k \in 0..m : w[k] \in Nat
    /\ \A k \in 1..m : w[k] = w[k - 1] + (hi[k] - lo[k])

LowEnds(plan, f, h, m) == [k \in 1..m |-> EndOf(plan, f[h[k]] - 1)]
HighEnds(plan, f, tail, m) == [k \in 1..m |-> EndOf(plan, f[tail[k]])]

\* The ranges of the failed chunks are such ranges.
LEMMA SpreadIs ==
    ASSUME NEW failed, NEW plan, NEW total, NEW x, NEW f, NEW n,
           AreFailed(failed, plan, total, x, f, n),
           NEW h, NEW tail, NEW m, AreRuns(f, n, h, tail, m),
           NEW ranges, AreCoalesced(ranges, plan, f, h, tail, m),
           NEW w, NEW bytes, AddUp(w, plan, f, h, tail, m, bytes)
    PROVE  AreSpread(ranges, LowEnds(plan, f, h, m), HighEnds(plan, f, tail, m), w, m, bytes)
<1>1. IsPlan(plan, total) /\ n \in Nat /\ \A k \in 1..n : f[k] \in DOMAIN plan
  BY Zenon DEF AreFailed
<1>2. m \in Nat /\ \A k \in 1..m : IsRun(f, n, h, tail, m, k)
  BY Zenon DEF AreRuns
<1>3. PICK lo, hi : lo = LowEnds(plan, f, h, m) /\ hi = HighEnds(plan, f, tail, m)
  BY Zenon
<1>4. \A k \in 1..m : lo[k] = EndOf(plan, f[h[k]] - 1) /\ hi[k] = EndOf(plan, f[tail[k]])
  BY <1>3, Zenon DEF LowEnds, HighEnds
<1>5. ASSUME NEW k \in 1..m PROVE IsBytes(ranges[k], lo[k], hi[k])
  <2>1. IsFetched(ranges[k], lo[k], hi[k], tail[k] - h[k] + 1)
    BY <1>4, Zenon DEF AreCoalesced
  <2> QED
    BY <2>1, Zenon DEF IsFetched, IsBytes
<1>6. ASSUME NEW k \in 1..m, k < m PROVE hi[k] < lo[k + 1]
  <2>1. k + 1 \in 1..m
    BY <1>2, <1>6, SMT
  <2>2. PICK a \in 1..n, b \in 1..n :
            a = tail[k] /\ b = h[k + 1] /\ f[a] + 1 < f[b]
    BY <1>2, <1>6, <2>1, Zenon DEF IsRun
  <2>3. PICK p \in DOMAIN plan, q \in DOMAIN plan : p = f[a] /\ q = f[b]
    BY <1>1, Zenon
  <2>4. /\ p \in Nat /\ q \in Nat /\ p \in 0..Len(plan) /\ q - 1 \in 0..Len(plan)
    BY <1>1, ChunkLies, Zenon
  <2>5. p < q - 1
    BY <2>2, <2>3, <2>4, SMT
  <2>6. EndOf(plan, p) < EndOf(plan, q - 1)
    BY <1>1, <2>4, <2>5, EndsRise
  <2> QED
    BY <1>4, <2>1, <2>2, <2>3, <2>6, Zenon
<1>7. \A k \in 1..m : w[k] = w[k - 1] + (hi[k] - lo[k])
  BY <1>4, Zenon DEF AddUp
<1> QED
  BY <1>2, <1>3, <1>5, <1>6, <1>7, Zenon DEF AreSpread, AreCoalesced, AddUp

\* The gaps of such ranges.
AreGaps(gap, lo, hi, q) ==
    /\ gap \in Seq(Nat) /\ DOMAIN gap = 1..q /\ Len(gap) = q
    /\ \A k \in 1..q : gap[k] \in Nat /\ gap[k] >= 1 /\ gap[k] = lo[k + 1] - hi[k]
IsLess(q, m) == q \in Nat /\ q = IF m = 0 THEN 0 ELSE m - 1

\* There is one gap less than there are ranges.
LEMMA LessExists ==
    ASSUME NEW m \in Nat
    PROVE  IsLess(Greatest({m - 1, 0}), m)
<1>1. Greatest({m - 1, 0}) = IF m - 1 > 0 THEN m - 1 ELSE 0
  <2>1. m - 1 \in Int
    BY SMT
  <2> QED
    BY <2>1, GreaterOfTwo
<1>2. PICK q : q = Greatest({m - 1, 0})
  BY Zenon
<1>3. q \in Nat /\ q = IF m = 0 THEN 0 ELSE m - 1
  BY <1>1, <1>2, SMT
<1> QED
  BY <1>2, <1>3, Zenon DEF IsLess

\* The gaps are where a range has ended and the next has not begun.
LEMMA GapsAre ==
    ASSUME NEW ranges, NEW lo, NEW hi, NEW w, NEW m, NEW bytes,
           AreSpread(ranges, lo, hi, w, m, bytes), NEW q, IsLess(q, m)
    PROVE  AreGaps(GapBytes(ranges), lo, hi, q)
<1>1. m \in Nat /\ Len(ranges) = m /\ q \in Nat /\ (q = IF m = 0 THEN 0 ELSE m - 1)
  BY Zenon DEF AreSpread, IsLess
<1>2. Greatest({Len(ranges) - 1, 0}) = q
  <2>1. PICK g : g = Greatest({m - 1, 0}) /\ g = Greatest({Len(ranges) - 1, 0})
    BY <1>1, Zenon
  <2>2. IsLess(g, m)
    BY <1>1, <2>1, LessExists, Zenon
  <2> QED
    BY <1>1, <2>1, <2>2, Zenon DEF IsLess
<1>3. PICK gap : /\ gap = GapBytes(ranges) /\ gap = [k \in 1..q |-> gap[k]]
                 /\ \A k \in 1..q : gap[k] = ranges[k + 1].first - ranges[k].last - 1
  <2>1. PICK gap : gap = GapBytes(ranges)
    BY Zenon
  <2>2. gap = [k \in 1..Greatest({Len(ranges) - 1, 0}) |->
                  ranges[k + 1].first - ranges[k].last - 1]
    BY <2>1, Zenon DEF GapBytes
  <2>3. gap = [k \in 1..q |-> ranges[k + 1].first - ranges[k].last - 1]
    BY <1>2, <2>2, Zenon
  <2>4. gap = [k \in 1..q |-> gap[k]]
    BY <2>3, Zenon
  <2> QED
    BY <2>1, <2>3, <2>4, Zenon
<1>4. ASSUME NEW k \in 1..q
      PROVE  gap[k] \in Nat /\ gap[k] >= 1 /\ gap[k] = lo[k + 1] - hi[k]
  <2>1. k \in 1..m /\ k + 1 \in 1..m /\ k < m
    BY <1>1, SMT
  <2>2. IsBytes(ranges[k], lo[k], hi[k]) /\ IsBytes(ranges[k + 1], lo[k + 1], hi[k + 1])
        /\ hi[k] < lo[k + 1]
    BY <2>1, Zenon DEF AreSpread
  <2>3. PICK a \in Nat, b \in Nat, c \in {ranges[k].last} :
            /\ a = hi[k] /\ b = lo[k + 1] /\ a < b /\ c = ranges[k].last
            /\ c = a - 1 /\ ranges[k + 1].first = b
    BY <2>2, Zenon DEF IsBytes
  <2>4. gap[k] = b - c - 1
    BY <1>3, <2>3, Zenon
  <2>5. gap[k] \in Nat /\ gap[k] >= 1 /\ gap[k] = b - a
    BY <2>3, <2>4, SMT
  <2> QED
    BY <2>3, <2>5, Zenon
<1>5. Len(gap) = q /\ DOMAIN gap = 1..q
  BY <1>1, <1>3, ValuesOfSequence, Zenon
<1>6. gap \in Seq(Nat)
  <2>1. gap \in [1..q -> Nat]
    BY <1>3, <1>4, <1>5, Zenon
  <2> QED
    BY <1>1, <2>1, SMT
<1> QED
  BY <1>3, <1>4, <1>5, <1>6, Zenon DEF AreGaps

\* What lies between the ranges, and they themselves, is what they span.
IsSpanned(gap, bytes, lo, hi, m) ==
    Total(gap) + bytes = IF m = 0 THEN 0 ELSE hi[m] - lo[1]

\* It is so of ranges that do not touch.
LEMMA GapsAndBytesAreSpanned ==
    ASSUME NEW ranges, NEW lo, NEW hi, NEW w, NEW m, NEW bytes,
           AreSpread(ranges, lo, hi, w, m, bytes), NEW q, IsLess(q, m),
           NEW gap, AreGaps(gap, lo, hi, q)
    PROVE  IsSpanned(gap, bytes, lo, hi, m)
<1>0. PICK sum, span : sum = Total(gap) /\ span = IF m = 0 THEN 0 ELSE hi[m] - lo[1]
  BY Zenon
<1> SUFFICES sum + bytes = span
  BY <1>0, Zenon DEF IsSpanned
<1>1. /\ m \in Nat /\ q \in Nat /\ (q = IF m = 0 THEN 0 ELSE m - 1) /\ Len(gap) = q
      /\ w[0] = 0 /\ w[m] = bytes /\ bytes \in Nat
  <2>1. m \in Nat /\ (\A k \in 0..m : w[k] \in Nat) /\ w[m] = bytes
    BY Zenon DEF AreSpread
  <2>2. m \in 0..m
    BY <2>1, SMT
  <2> QED
    BY <2>1, <2>2, Zenon DEF AreSpread, IsLess, AreGaps
<1>2. CASE m = 0
  <2> DEFINE e == [k \in 0..0 |-> 0]
  <2>1. q = 0 /\ e[0] = 0 /\ \A k \in 1..q : e[k] = e[k - 1] + gap[k]
    BY <1>1, <1>2, SMT
  <2> HIDE DEF e
  <2>2. Total(gap) = e[q]
    BY ONLY <1>1, <2>1, TotalIs
  <2>3. bytes = 0 /\ span = 0 /\ sum = 0
    BY <1>0, <1>1, <1>2, <2>1, <2>2, Zenon
  <2> QED
    BY <2>3, SMT
<1>3. CASE m # 0
  <2>1. q = m - 1 /\ 0 \in 0..q /\ q \in 0..q /\ 0 + 1 = 1 /\ q + 1 = m /\ 1 \in 1..m /\ m \in 1..m
    BY <1>1, <1>3, SMT
  <2> DEFINE e == [k \in 0..q |-> (lo[k + 1] - lo[1]) - w[k]]
  <2>2. \A k \in 0..q : e[k] = (lo[k + 1] - lo[1]) - w[k]
    BY Zenon
  <2> HIDE DEF e
  <2>3. \A k \in 1..m : lo[k] \in Nat /\ hi[k] \in Nat
    BY Zenon DEF AreSpread, IsBytes
  <2>4. e[0] = 0
    <3>1. PICK a \in Nat : a = lo[1] /\ a = lo[0 + 1]
      BY <2>1, <2>3, Zenon
    <3>2. (a - a) - 0 = 0
      BY SMT
    <3> QED
      BY <1>1, <2>1, <2>2, <3>1, <3>2, Zenon
  <2>5. ASSUME NEW k \in 1..q PROVE e[k] = e[k - 1] + gap[k]
    <3>1. /\ k \in 0..q /\ k - 1 \in 0..q /\ k \in 1..m /\ k + 1 \in 1..m /\ (k - 1) + 1 = k
          /\ k - 1 \in 0..m
      BY <1>1, <2>1, SMT
    <3>2. PICK a \in Nat, b \in Nat, c \in Nat, d \in Nat :
              a = lo[1] /\ b = lo[k] /\ c = hi[k] /\ d = lo[k + 1]
      BY <2>1, <2>3, <3>1, Zenon
    <3>3. PICK v \in Nat : v = w[k - 1] /\ w[k] = v + (c - b)
      BY <3>1, <3>2, Zenon DEF AreSpread
    <3>4. gap[k] = d - c
      BY <3>2, Zenon DEF AreGaps
    <3>5. e[k] = (d - a) - (v + (c - b)) /\ e[k - 1] = (b - a) - v
      BY <2>2, <3>1, <3>2, <3>3, Zenon
    <3>6. (d - a) - (v + (c - b)) = ((b - a) - v) + (d - c)
      BY SMT
    <3> QED
      BY <3>4, <3>5, <3>6, Zenon
  <2>6. Total(gap) = e[q]
    BY ONLY <1>1, <2>4, <2>5, TotalIs
  <2>7. PICK a \in Nat, b \in Nat, c \in Nat : a = lo[1] /\ b = lo[m] /\ c = hi[m]
    BY <2>1, <2>3, Zenon
  <2>8. PICK v \in Nat : v = w[q] /\ bytes = v + (c - b)
    <3>1. q \in 0..m /\ m - 1 = q
      BY <1>1, <2>1, SMT
    <3> QED
      BY <1>1, <2>1, <2>7, <3>1, Zenon DEF AreSpread
  <2>9. sum = (b - a) - v /\ span = c - a
    BY <1>0, <1>3, <2>1, <2>2, <2>6, <2>7, <2>8, Zenon
  <2> QED
    BY <2>8, <2>9, SMT
<1> QED
  BY <1>2, <1>3, Zenon

\* Positive numbers add up to as many at least as there are, and to each of them.
IsOfAll(sum, s) ==
    sum \in Nat /\ Len(s) <= sum /\ \A n \in DOMAIN s : s[n] <= sum

\* It is so of every sequence of them.
LEMMA TotalAtLeast ==
    ASSUME NEW s \in Seq(Nat), \A n \in DOMAIN s : s[n] >= 1
    PROVE  IsOfAll(Total(s), s)
<1>1. PICK l \in Nat : l = Len(s) /\ DOMAIN s = 1..l
  BY SMT
<1>2. \A n \in 1..l : s[n] \in Nat /\ s[n] >= 1
  BY <1>1, SMT
<1>3. PICK p : AreSums(p, s, l)
  BY <1>2, SumsFit, Zenon
<1>4. /\ p[0] = 0 /\ \A i \in 0..l : p[i] \in Nat
      /\ \A i \in 1..l : p[i] = p[i - 1] + s[i]
  BY <1>3, Zenon DEF AreSums
<1>5. Total(s) = p[l]
  BY ONLY <1>1, <1>4, TotalIs
<1> DEFINE Fits(n) == n <= p[n] /\ \A k \in 1..n : s[k] <= p[n]
           S == {n \in 0..l : ~Fits(n)}
<1>6. ASSUME S # {} PROVE FALSE
  <2>1. PICK m \in S : \A k \in S : m <= k
    <3>1. S \in SUBSET Nat
      BY SMT
    <3> HIDE DEF S
    <3> QED
      BY <1>6, <3>1, LeastOfSet, Zenon
  <2>2. m \in 0..l /\ ~Fits(m)
    BY Zenon
  <2>3. m # 0
    <3>1. Fits(0)
      <4>1. 0 <= 0 /\ \A k \in 1..0 : FALSE
        BY SMT
      <4> QED
        BY <1>4, <4>1, Zenon
    <3> QED
      BY <2>2, <3>1, Zenon
  <2>4. PICK k \in 0..l : k = m - 1 /\ k \notin S /\ m \in 1..l /\ k + 1 = m
    <3>1. m - 1 \in 0..l /\ ~(m <= m - 1) /\ m \in 1..l /\ (m - 1) + 1 = m
      BY <2>2, <2>3, SMT
    <3> QED
      BY <2>1, <3>1, Zenon
  <2>5. Fits(k)
    BY <2>4, Zenon
  <2>6. PICK a \in Nat, b \in Nat : a = p[k] /\ b = s[m] /\ b >= 1 /\ p[m] = a + b /\ k <= a
    BY <1>2, <1>4, <2>4, <2>5, Zenon
  <2>7. m <= a + b /\ b <= a + b
    BY <2>4, <2>6, SMT
  <2>8. ASSUME NEW j \in 1..m PROVE s[j] <= a + b
    <3>1. j \in 1..k \/ j = m
      BY <2>4, SMT
    <3>2. CASE j \in 1..k
      <4>1. j \in 1..l
        BY <2>4, <3>2, SMT
      <4>2. PICK c \in Nat : c = s[j] /\ c <= a
        BY <1>2, <2>5, <2>6, <3>2, <4>1, Zenon
      <4>3. c <= a + b
        BY <4>2, SMT
      <4> QED
        BY <4>2, <4>3, Zenon
    <3>3. CASE j = m
      BY <2>6, <2>7, <3>3, Zenon
    <3> QED
      BY <3>1, <3>2, <3>3, Zenon
  <2> QED
    BY <2>2, <2>6, <2>7, <2>8, Zenon
<1>7. l \in 0..l
  BY SMT
<1>8. Fits(l) /\ p[l] \in Nat
  BY <1>4, <1>6, <1>7, Zenon
<1> QED
  BY <1>1, <1>5, <1>8, Zenon DEF IsOfAll

\* What is said of the gaps.
GapsAgree(gaps, bytes, m) ==
    /\ gaps.spanned = gaps.bytes + bytes
    /\ gaps.largest <= gaps.bytes /\ gaps.count <= gaps.bytes
    /\ (gaps.spanned > 0 /\ gaps.count = 0) <=> m = 1

\* It agrees with the ranges.
LEMMA GapsFit ==
    ASSUME NEW ranges, NEW lo, NEW hi, NEW w, NEW m, NEW bytes,
           AreSpread(ranges, lo, hi, w, m, bytes)
    PROVE  GapsAccept(ranges) /\ GapsAgree(Gaps(ranges), bytes, m)
<1>1. /\ m \in Nat /\ Len(ranges) = m /\ (ranges = <<>> <=> m = 0)
      /\ \A k \in 1..m : IsBytes(ranges[k], lo[k], hi[k])
  BY Zenon DEF AreSpread
<1>2. PICK q : q = Greatest({m - 1, 0}) /\ IsLess(q, m)
  BY <1>1, LessExists, Zenon
<1>3. PICK gap : gap = GapBytes(ranges) /\ AreGaps(gap, lo, hi, q)
  BY <1>2, GapsAre, Zenon
<1>4. /\ gap \in Seq(Nat) /\ DOMAIN gap = 1..q /\ Len(gap) = q /\ q \in Nat
      /\ \A k \in 1..q : gap[k] \in Nat /\ gap[k] >= 1
  BY <1>2, <1>3, Zenon DEF AreGaps, IsLess
<1>5. GapsAccept(ranges)
  BY <1>3, <1>4, Zenon DEF GapsAccept
<1>6. PICK sum : sum = Total(gap) /\ IsOfAll(sum, gap)
  BY <1>4, TotalAtLeast, Zenon
<1>7. sum \in Nat /\ q <= sum /\ \A k \in 1..q : gap[k] <= sum
  BY <1>4, <1>6, Zenon DEF IsOfAll
<1>8. PICK span : span = IF m = 0 THEN 0 ELSE hi[m] - lo[1]
  BY Zenon
<1>9. sum + bytes = span
  <2>1. IsSpanned(gap, bytes, lo, hi, m)
    BY <1>2, <1>3, GapsAndBytesAreSpanned, Zenon
  <2> QED
    BY <1>6, <1>8, <2>1, Zenon DEF IsSpanned
<1>10. PICK largest \in Nat : largest = Greatest(ToSet(gap)) /\ largest <= sum
  <2>1. PICK R : R = ToSet(gap)
    BY Zenon
  <2>2. R \in SUBSET Nat /\ \A v \in R : v <= sum
    BY <1>4, <1>7, <2>1, Zenon DEF ToSet
  <2>3. CASE R = {}
    <3>1. Greatest(R) = 0
      BY <2>3, Zenon DEF Greatest
    <3>2. 0 \in Nat /\ 0 <= sum
      BY <1>7, SMT
    <3> QED
      BY <2>1, <3>1, <3>2, Zenon
  <2>4. CASE R # {}
    <3>1. Greatest(R) \in R
      BY <1>7, <2>2, <2>4, GreatestIs
    <3> QED
      BY <2>1, <2>2, <3>1, Zenon
  <2> QED
    BY <2>3, <2>4, Zenon
<1>11. (IF ranges = <<>> THEN 0 ELSE ranges[Len(ranges)].last - ranges[1].first + 1) = span
  <2>1. CASE m = 0
    BY <1>1, <1>8, <2>1, Zenon
  <2>2. CASE m # 0
    <3>1. 1 \in 1..m /\ m \in 1..m
      BY <1>1, <2>2, SMT
    <3>2. PICK a \in Nat, b \in Nat : /\ a = lo[1] /\ b = hi[m] /\ ranges[1].first = a
                                      /\ ranges[m].last = b - 1
      BY <1>1, <3>1, Zenon DEF IsBytes
    <3>3. b - 1 - a + 1 = b - a
      BY SMT
    <3> QED
      BY <1>1, <1>8, <2>2, <3>2, <3>3, Zenon
  <2> QED
    BY <2>1, <2>2, Zenon
<1>12. Gaps(ranges) = [count |-> q, bytes |-> sum, largest |-> largest, spanned |-> span]
  <2>1. Gaps(ranges)
          = [count |-> Greatest({Len(ranges) - 1, 0}),
             bytes |-> Total(GapBytes(ranges)),
             largest |-> Greatest(ToSet(GapBytes(ranges))),
             spanned |-> IF ranges = <<>> THEN 0
                         ELSE ranges[Len(ranges)].last - ranges[1].first + 1]
    BY Zenon DEF Gaps
  <2> QED
    BY <1>1, <1>2, <1>3, <1>6, <1>10, <1>11, <2>1, Zenon
<1>13. PICK g : g = Gaps(ranges) /\ g.count = q /\ g.bytes = sum /\ g.largest = largest
                /\ g.spanned = span
  <2>1. PICK g : g = [count |-> q, bytes |-> sum, largest |-> largest, spanned |-> span]
    BY Zenon
  <2>2. g.count = q /\ g.bytes = sum /\ g.largest = largest /\ g.spanned = span
    BY <2>1, SMT
  <2> QED
    BY <1>12, <2>1, <2>2, Zenon
<1>14. bytes \in Nat /\ (m > 0 => bytes > 0) /\ (m = 0 => bytes = 0)
  <2>1. bytes = w[m] /\ w[0] = 0 /\ \A k \in 0..m : w[k] \in Nat
    BY Zenon DEF AreSpread
  <2>2. m \in 0..m
    BY <1>1, SMT
  <2>3. ASSUME m > 0 PROVE bytes > 0
    <3>1. m \in 1..m /\ m - 1 \in 0..m
      BY <1>1, <2>3, SMT
    <3>2. PICK v \in Nat, a \in Nat, b \in Nat :
              /\ v = w[m - 1] /\ a = lo[m] /\ b = hi[m] /\ a < b
      BY <1>1, <2>1, <3>1, Zenon DEF IsBytes
    <3>3. bytes = v + (b - a)
      BY <2>1, <3>1, <3>2, Zenon DEF AreSpread
    <3> QED
      BY <3>2, <3>3, SMT
  <2> QED
    BY <2>1, <2>2, <2>3, Zenon
<1>15. span > 0 /\ q = 0 <=> m = 1
  <2>1. q = IF m = 0 THEN 0 ELSE m - 1
    BY <1>2, Zenon DEF IsLess
  <2>2. m = 0 => span = 0
    BY <1>8, Zenon
  <2> QED
    BY <1>1, <1>7, <1>9, <1>14, <2>1, <2>2, SMT
<1>16. GapsAgree(g, bytes, m)
  BY <1>7, <1>9, <1>10, <1>13, <1>15, Zenon DEF GapsAgree
<1> QED
  BY <1>5, <1>13, <1>16, Zenon

\* The lengths of the ranges are the bytes that are fetched again, and the smallest
\* is no longer than the largest.
LengthsAgree(ranges, bytes) ==
    /\ Total(Lengths(ranges)) = bytes
    /\ Fragmentation(ranges).smallest <= Fragmentation(ranges).largest

\* It is so of ranges that do not touch.
LEMMA LengthsFit ==
    ASSUME NEW ranges, NEW lo, NEW hi, NEW w, NEW m, NEW bytes,
           AreSpread(ranges, lo, hi, w, m, bytes)
    PROVE  LengthsAgree(ranges, bytes)
<1>1. /\ m \in Nat /\ DOMAIN ranges = 1..m
      /\ \A k \in 1..m : IsBytes(ranges[k], lo[k], hi[k])
  BY Zenon DEF AreSpread
<1>2. PICK s : /\ s = Lengths(ranges) /\ s = [k \in 1..m |-> s[k]]
               /\ \A k \in 1..m : s[k] = ranges[k].length
  <2>1. PICK s : s = Lengths(ranges)
    BY Zenon
  <2>2. s = [k \in 1..m |-> ranges[k].length]
    BY <1>1, <2>1, Zenon DEF Lengths
  <2> QED
    BY <2>1, <2>2, Zenon
<1>3. ASSUME NEW k \in 1..m
      PROVE  s[k] = hi[k] - lo[k] /\ s[k] \in Nat /\ s[k] >= 1
  <2>1. PICK a \in Nat, b \in Nat : a = lo[k] /\ b = hi[k] /\ a < b /\ s[k] = b - a
    BY <1>1, <1>2, Zenon DEF IsBytes
  <2>2. b - a \in Nat /\ b - a >= 1
    BY <2>1, SMT
  <2> QED
    BY <2>1, <2>2, Zenon
<1>4. Len(s) = m /\ DOMAIN s = 1..m
  BY <1>1, <1>2, ValuesOfSequence, Zenon
<1>5. s \in Seq(Nat)
  <2>1. s \in [1..m -> Nat]
    BY <1>2, <1>3, <1>4, Zenon
  <2> QED
    BY <1>1, <2>1, SMT
<1>6. Total(s) = bytes
  <2>1. w[0] = 0 /\ w[m] = bytes /\ \A k \in 1..m : w[k] = w[k - 1] + s[k]
    BY <1>3, Zenon DEF AreSpread
  <2>2. Total(s) = w[m]
    BY ONLY <1>1, <1>4, <2>1, TotalIs
  <2> QED
    BY <2>1, <2>2, Zenon
<1>7. PICK sum \in Nat : \A k \in 1..m : s[k] <= sum
  <2>1. IsOfAll(Total(s), s)
    BY <1>3, <1>4, <1>5, TotalAtLeast, Zenon
  <2> QED
    BY <1>4, <2>1, Zenon DEF IsOfAll
<1>8. PICK R : R = ToSet(s)
  BY Zenon
<1>9. R \in SUBSET Nat /\ R \in SUBSET Int /\ \A v \in R : v <= sum
  <2>1. R \in SUBSET Nat /\ \A v \in R : v <= sum
    BY <1>3, <1>4, <1>7, <1>8, Zenon DEF ToSet
  <2>2. \A v \in Nat : v \in Int
    BY SMT
  <2> QED
    BY <2>1, <2>2, Zenon
<1>10. PICK longest \in Nat, least \in Nat :
         longest = Greatest(R) /\ least = Least(R) /\ least <= longest
  <2>1. CASE R = {}
    <3>1. Greatest(R) = 0 /\ Least(R) = 0
      BY <2>1, Zenon DEF Greatest, Least
    <3>2. 0 \in Nat /\ 0 <= 0
      BY SMT
    <3> QED
      BY <3>1, <3>2, Zenon
  <2>2. CASE R # {}
    <3>1. Greatest(R) \in R /\ \A v \in R : v <= Greatest(R)
      BY <1>9, <2>2, GreatestIs
    <3>2. PICK v \in R : \A u \in R : v <= u
      BY <1>9, <2>2, LeastOfSet, Zenon
    <3>3. Min(R) = v
      BY <1>9, <3>2, MinIs, Zenon
    <3>4. Least(R) = v
      BY <2>2, <3>3, Zenon DEF Least
    <3> QED
      BY <1>9, <3>1, <3>2, <3>4, Zenon
  <2> QED
    BY <2>1, <2>2, Zenon
<1>11. PICK r : r = Fragmentation(ranges) /\ r.largest = longest /\ r.smallest = least
  <2> DEFINE greatest == Greatest(ToSet(Lengths(ranges)))
             firsts == {k \in DOMAIN ranges : ranges[k].length = greatest}
             chunks == IF ranges = <<>> THEN 0 ELSE ranges[Min(firsts)].chunkCount
  <2>1. Fragmentation(ranges) = [largest |-> greatest, smallest |-> Least(ToSet(Lengths(ranges))),
                                 largestChunks |-> chunks]
    BY Zenon DEF Fragmentation
  <2>2. PICK c : c = chunks
    BY Zenon
  <2>3. greatest = longest /\ Least(ToSet(Lengths(ranges))) = least
    BY <1>2, <1>8, <1>10, Zenon
  <2> HIDE DEF chunks, greatest, firsts
  <2>4. PICK r : r = [largest |-> longest, smallest |-> least, largestChunks |-> c]
    BY Zenon
  <2>5. r.largest = longest /\ r.smallest = least
    BY <2>4, SMT
  <2> QED
    BY <2>1, <2>2, <2>3, <2>4, <2>5, Zenon
<1> QED
  BY <1>2, <1>6, <1>10, <1>11, Zenon DEF LengthsAgree

\* The chunks of the ranges are those that failed.
CountsOf(ranges) == [k \in DOMAIN ranges |-> ranges[k].chunkCount]
AreCounted(ranges, n) == Total(CountsOf(ranges)) = n

\* All of them are counted.
LEMMA ChunksAreCounted ==
    ASSUME NEW plan, NEW f, NEW n \in Nat, NEW h, NEW tail, NEW m, AreRuns(f, n, h, tail, m),
           NEW ranges, AreCoalesced(ranges, plan, f, h, tail, m)
    PROVE  AreCounted(ranges, n)
<1>1. m \in Nat /\ (m = 0 <=> n = 0) /\ \A k \in 1..m : IsRun(f, n, h, tail, m, k)
  BY Zenon DEF AreRuns
<1>2. DOMAIN ranges = 1..m /\ \A k \in 1..m : ranges[k].chunkCount = tail[k] - h[k] + 1
  BY Zenon DEF AreCoalesced, IsFetched
<1>3. PICK s : /\ s = CountsOf(ranges) /\ s = [k \in 1..m |-> s[k]]
               /\ \A k \in 1..m : s[k] = tail[k] - h[k] + 1
  <2>1. PICK s : s = CountsOf(ranges)
    BY Zenon
  <2>2. s = [k \in 1..m |-> ranges[k].chunkCount]
    BY <1>2, <2>1, Zenon DEF CountsOf
  <2> QED
    BY <1>2, <2>1, <2>2, Zenon
<1>4. Len(s) = m
  BY <1>1, <1>3, ValuesOfSequence, Zenon
<1> DEFINE e == [k \in 0..m |-> IF k = 0 THEN 0 ELSE tail[k]]
<1>5. e[0] = 0 /\ \A k \in 1..m : e[k] = tail[k]
  <2>1. 0 \in 0..m /\ \A k \in 1..m : k \in 0..m /\ k # 0
    BY <1>1, SMT
  <2> QED
    BY <2>1, Zenon
<1> HIDE DEF e
<1>6. e[m] = n
  <2>1. m # 0 => m \in 1..m
    BY <1>1, SMT
  <2>2. m # 0 => tail[m] = n
    BY <1>1, <2>1, Zenon DEF IsRun
  <2> QED
    BY <1>1, <1>5, <2>1, <2>2, Zenon
<1>7. ASSUME NEW k \in 1..m PROVE e[k] = e[k - 1] + s[k]
  <2>1. PICK a \in 1..n, b \in 1..n : a = h[k] /\ b = tail[k]
    BY <1>1, Zenon DEF IsRun
  <2>2. e[k - 1] = a - 1
    <3>1. CASE k = 1
      <4>1. a = 1
        BY <1>1, <2>1, <3>1, Zenon DEF IsRun
      <4>2. k - 1 = 0 /\ a - 1 = 0
        BY <3>1, <4>1, SMT
      <4> QED
        BY <1>5, <4>2, Zenon
    <3>2. CASE k # 1
      <4>1. PICK j \in 1..m : j = k - 1 /\ j < m /\ j + 1 = k
        <5>1. k - 1 \in 1..m /\ k - 1 < m /\ (k - 1) + 1 = k
          BY <1>1, <3>2, SMT
        <5> QED
          BY <5>1, Zenon
      <4>2. PICK t \in 1..n : t = tail[j] /\ a = t + 1
        <5>1. IsRun(f, n, h, tail, m, j) /\ h[j + 1] = a
          BY <1>1, <2>1, <4>1, Zenon
        <5>2. tail[j] \in 1..n /\ h[j + 1] = tail[j] + 1
          BY <4>1, <5>1, Zenon DEF IsRun
        <5> QED
          BY <5>1, <5>2, Zenon
      <4>3. a - 1 = t
        BY <4>2, SMT
      <4> QED
        BY <1>5, <4>1, <4>2, <4>3, Zenon
    <3> QED
      BY <3>1, <3>2, Zenon
  <2>3. s[k] = b - a + 1 /\ b = (a - 1) + (b - a + 1)
    <3>1. b = (a - 1) + (b - a + 1)
      BY <2>1, SMT
    <3> QED
      BY <1>3, <2>1, <3>1, Zenon
  <2> QED
    BY <1>5, <2>1, <2>2, <2>3, Zenon
<1>8. Total(s) = e[m]
  BY ONLY <1>1, <1>4, <1>5, <1>7, TotalIs
<1> QED
  BY <1>3, <1>6, <1>8, Zenon DEF AreCounted

AreSaved(n, m, x) == n - m = Cardinality({i \in x : i + 1 \in x})
\* As many ranges are saved as damaged chunks have the next one damaged too.
LEMMA SavedAre ==
    ASSUME NEW failed, NEW plan, NEW total, NEW x, NEW f, NEW n,
           AreFailed(failed, plan, total, x, f, n),
           NEW h, NEW tail, NEW m, AreRuns(f, n, h, tail, m)
    PROVE  AreSaved(n, m, x)
<1>1. /\ n \in Nat /\ Rises(f, n) /\ (\A k \in 1..n : f[k] \in x)
      /\ \A p \in x : \E k \in 1..n : f[k] = p
  BY Zenon DEF AreFailed
<1>2. \A k \in 1..n : f[k] \in Nat
  BY <1>1, Zenon DEF Rises
<1>3. PICK H : H = HeadsOf(f, n) /\ Cardinality(H) = m
  BY Zenon DEF AreRuns
<1> DEFINE F == (1..n) \ H
           G == {i \in x : i + 1 \in x}
           b == [j \in F |-> f[j - 1]]
<1>4. IsFiniteSet(F) /\ Cardinality(F) = n - m
  <2>1. IsFiniteSet(1..n) /\ Cardinality(1..n) = n
    <3>1. n \in Int /\ 1 \in Int
      BY <1>1, SMT
    <3>2. IsFiniteSet(1..n) /\ Cardinality(1..n) = IF 1 > n THEN 0 ELSE n - 1 + 1
      BY <3>1, FS_Interval, Zenon
    <3> QED
      BY <1>1, <3>2, SMT
  <2>2. (1..n) \cap H = H
    BY <1>3, Zenon DEF HeadsOf
  <2>3. /\ IsFiniteSet((1..n) \ H)
        /\ Cardinality((1..n) \ H) = Cardinality(1..n) - Cardinality((1..n) \cap H)
    BY <2>1, FS_Difference, Zenon
  <2> QED
    BY <1>3, <2>1, <2>2, <2>3, Zenon
<1>5. ASSUME NEW j \in F
      PROVE  j \in 1..n /\ j - 1 \in 1..n /\ f[j] = f[j - 1] + 1 /\ b[j] = f[j - 1] /\ b[j] \in G
  <2>1. j \in 1..n /\ j # 1 /\ f[j] = f[j - 1] + 1
    BY <1>3, Zenon DEF HeadsOf
  <2>2. j - 1 \in 1..n
    BY <1>1, <2>1, SMT
  <2>3. f[j - 1] \in G
    BY <1>1, <2>1, <2>2, Zenon
  <2> QED
    BY <2>1, <2>2, <2>3, Zenon
<1>6. b \in [F -> G]
  BY <1>5, Zenon
<1>7. ASSUME NEW i \in F, NEW j \in F, b[i] = b[j] PROVE i = j
  <2>1. PICK u \in Nat, v \in Nat : u = f[i] /\ v = f[j] /\ u = v
    BY <1>2, <1>5, <1>7, Zenon
  <2>2. i < j \/ j < i \/ i = j
    BY <1>1, <1>5, SMT
  <2>3. u < v \/ v < u \/ i = j
    BY <1>1, <1>5, <2>1, <2>2, Zenon DEF Rises
  <2> QED
    BY <2>1, <2>3, SMT
<1>8. ASSUME NEW i \in G PROVE \E j \in F : b[j] = i
  <2>1. PICK k \in 1..n, j \in 1..n : f[k] = i /\ f[j] = i + 1
    BY <1>1, Zenon
  <2>2. i \in Nat
    BY <1>2, <2>1, Zenon
  <2>3. k < j
    <3>1. j < k \/ j = k \/ k < j
      BY <1>1, SMT
    <3>2. j < k => i + 1 < i
      BY <1>1, <2>1, Zenon DEF Rises
    <3>3. j = k => i + 1 = i
      BY <2>1, Zenon
    <3>4. ~(i + 1 < i) /\ i + 1 # i
      BY <2>2, SMT
    <3> QED
      BY <3>1, <3>2, <3>3, <3>4, Zenon
  <2>4. j - 1 \in 1..n /\ (k = j - 1 \/ k < j - 1) /\ j - 1 < j /\ j # 1
    BY <1>1, <2>3, SMT
  <2>5. f[j - 1] = i
    <3>1. PICK v \in Nat : v = f[j - 1] /\ v < i + 1 /\ (k < j - 1 => i < v)
      <4>1. f[j - 1] \in Nat /\ f[j - 1] < f[j] /\ (k < j - 1 => f[k] < f[j - 1])
        <5>1. \A p, q \in 1..n : p < q => f[p] < f[q]
          BY <1>1, Zenon DEF Rises
        <5> QED
          BY <1>2, <2>4, <5>1, Zenon
      <4>2. PICK v : v = f[j - 1]
        BY Zenon
      <4> QED
        BY <2>1, <4>1, <4>2, Zenon
    <3>2. ~(i < v)
      BY <2>2, <3>1, SMT
    <3> QED
      BY <2>1, <2>4, <3>1, <3>2, Zenon
  <2>6. j \in F
    BY <1>3, <2>1, <2>4, <2>5, Zenon DEF HeadsOf
  <2> QED
    BY <2>5, <2>6, Zenon
<1>9. ExistsBijection(F, G)
  <2> HIDE DEF b, F, G
  <2> QED
    BY <1>6, <1>7, <1>8, Zenon
       DEF ExistsBijection, Bijection, Injection, Surjection, IsInjective
<1>10. Cardinality(G) = Cardinality(F)
  <2> HIDE DEF F, G
  <2> QED
    BY <1>4, <1>9, FS_Bijection, Zenon
<1> QED
  BY <1>4, <1>10, Zenon DEF AreSaved

\* From its first chunk on, a run goes up by one.
LEMMA RunRises ==
    ASSUME NEW f, NEW n \in Nat, Rises(f, n), NEW h, NEW tail, NEW m, AreRuns(f, n, h, tail, m),
           NEW k \in 1..m, NEW j \in 1..n, h[k] <= j, j <= tail[k]
    PROVE  f[j] - j = f[h[k]] - h[k]
<1>1. PICK a \in 1..n, b \in 1..n :
         /\ a = h[k] /\ b = tail[k]
         /\ \A i \in 1..n : a < i /\ i <= b => f[i] = f[i - 1] + 1
  <2>1. IsRun(f, n, h, tail, m, k)
    BY Zenon DEF AreRuns
  <2>2. PICK a \in 1..n, b \in 1..n : a = h[k] /\ b = tail[k]
    BY <2>1, Zenon DEF IsRun
  <2>3. \A i \in 1..n : a < i /\ i <= b => f[i] = f[i - 1] + 1
    BY <2>1, <2>2, Zenon DEF IsRun
  <2> QED
    BY <2>2, <2>3, Zenon
<1>2. \A i \in 1..n : f[i] \in Nat
  BY Zenon DEF Rises
<1> DEFINE g == [i \in 1..n |-> f[i] - i]
<1>3. \A i \in 1..n : g[i] = f[i] - i
  BY Zenon
<1> HIDE DEF g
<1>4. StaysSame(g, a, b)
  <2>1. ASSUME NEW i \in Nat, a < i, i <= b PROVE g[i] = g[i - 1]
    <3>1. i \in 1..n /\ i - 1 \in 1..n
      BY <1>1, <2>1, SMT
    <3>2. PICK u \in Nat : u = f[i - 1] /\ f[i] = u + 1
      BY <1>1, <1>2, <2>1, <3>1, Zenon
    <3>3. (u + 1) - i = u - (i - 1)
      BY <3>1, SMT
    <3> QED
      BY <1>3, <3>1, <3>2, <3>3, Zenon
  <2> QED
    BY <2>1, Zenon DEF StaysSame
<1>5. a \in Nat /\ b \in Nat /\ a <= j /\ j <= b
  <2>1. a \in Nat /\ b \in Nat
    BY SMT
  <2> QED
    BY <1>1, <2>1, Zenon
<1>6. j \in a..b
  BY <1>5, SMT
<1>7. g[j] = g[a]
  BY <1>4, <1>5, <1>6, SteadyIs, Zenon
<1> QED
  BY <1>1, <1>3, <1>7, Zenon

\* The bytes of the ranges are the bytes of the damaged chunks.
Covers(plan, total) ==
    \A b \in 0..(total - 1) : \E i \in DOMAIN plan : EndOf(plan, i - 1) <= b /\ b < EndOf(plan, i)
AreTheBytes(ranges, plan, m, x) ==
    \A b : (\E k \in 1..m : b \in ranges[k].first .. ranges[k].last)
             <=> \E i \in x : b \in EndOf(plan, i - 1) .. (EndOf(plan, i) - 1)

\* No other byte is fetched again, and none is left out.
LEMMA BytesAreDamaged ==
    ASSUME NEW failed, NEW plan, NEW total \in Nat, NEW x \in SUBSET DOMAIN plan, NEW f, NEW n,
           AreFailed(failed, plan, total, x, f, n), Covers(plan, total),
           NEW h, NEW tail, NEW m, AreRuns(f, n, h, tail, m),
           NEW ranges, AreCoalesced(ranges, plan, f, h, tail, m)
    PROVE  AreTheBytes(ranges, plan, m, x)
<1>1. /\ n \in Nat /\ Rises(f, n) /\ (\A k \in 1..n : f[k] \in x /\ f[k] \in DOMAIN plan)
      /\ IsPlan(plan, total) /\ \A p \in x : \E k \in 1..n : f[k] = p
  BY Zenon DEF AreFailed
<1>2. /\ m \in Nat /\ \A k \in 1..m : IsRun(f, n, h, tail, m, k)
      /\ \A i \in 1..n : \E k \in 1..m : h[k] <= i /\ i <= tail[k]
  BY Zenon DEF AreRuns
<1>3. ASSUME NEW p \in DOMAIN plan, NEW q \in DOMAIN plan, p < q
      PROVE  EndOf(plan, p) <= EndOf(plan, q - 1)
  <2>1. p \in Nat /\ q \in Nat /\ p \in 0..Len(plan) /\ q - 1 \in 0..Len(plan)
    BY <1>1, ChunkLies, Zenon
  <2>2. p < q - 1 \/ p = q - 1
    BY <1>3, <2>1, SMT
  <2>3. /\ EndOf(plan, p) \in Nat
        /\ p < q - 1 => EndOf(plan, p) < EndOf(plan, q - 1)
    BY <1>1, <2>1, EndsRise
  <2>4. EndOf(plan, q - 1) \in Nat
    BY <1>1, <2>1, EndsRise
  <2> QED
    BY <2>2, <2>3, <2>4, SMT
<1>4. ASSUME NEW k \in 1..m
      PROVE  \E a, b \in 1..n, p, q \in DOMAIN plan, lo, hi \in Nat :
                /\ a = h[k] /\ b = tail[k] /\ a <= b /\ p = f[a] /\ q = f[b]
                /\ lo = EndOf(plan, p - 1) /\ hi = EndOf(plan, q)
                /\ ranges[k].first = lo /\ ranges[k].last = hi - 1 /\ hi <= total
                /\ q - b = p - a /\ p \in Nat /\ q \in Nat
  <2>1. PICK a \in 1..n, b \in 1..n : a = h[k] /\ b = tail[k] /\ a <= b
    BY <1>2, Zenon DEF IsRun
  <2>2. PICK p \in DOMAIN plan, q \in DOMAIN plan : p = f[a] /\ q = f[b] /\ p \in Nat /\ q \in Nat
    BY <1>1, ChunkLies, Zenon
  <2>3. IsFetched(ranges[k], EndOf(plan, p - 1), EndOf(plan, q), tail[k] - h[k] + 1)
    BY <2>1, <2>2, Zenon DEF AreCoalesced
  <2>4. EndOf(plan, q) <= total
    <3>1. q \in 0..Len(plan) /\ plan # <<>>
      <4>1. plan = <<>> => DOMAIN plan = {}
        BY SMT
      <4> QED
        BY <1>1, <4>1, ChunkLies, Zenon
    <3> QED
      BY <1>1, <3>1, EndsRise
  <2>5. f[b] - b = f[a] - a
    <3>1. h[k] <= b /\ b <= tail[k]
      <4>1. b <= b
        BY <1>1, SMT
      <4> QED
        BY <2>1, <4>1, Zenon
    <3>2. f[b] - b = f[h[k]] - h[k]
      BY <1>1, <3>1, RunRises
    <3> QED
      BY <2>1, <3>2, Zenon
  <2>6. PICK lo \in Nat, hi \in Nat :
            /\ lo = EndOf(plan, p - 1) /\ hi = EndOf(plan, q)
            /\ ranges[k].first = lo /\ ranges[k].last = hi - 1
    BY <2>3, Zenon DEF IsFetched
  <2>7. q - b = p - a /\ hi <= total
    BY <2>2, <2>4, <2>5, <2>6, Zenon
  <2> QED
    BY <2>1, <2>2, <2>6, <2>7, Zenon
<1>5. ASSUME NEW b, NEW k \in 1..m, b \in ranges[k].first .. ranges[k].last
      PROVE  \E i \in x : b \in EndOf(plan, i - 1) .. (EndOf(plan, i) - 1)
  <2>1. PICK s \in 1..n, t \in 1..n, p \in DOMAIN plan, q \in DOMAIN plan, lo \in Nat, hi \in Nat :
            /\ s = h[k] /\ t = tail[k] /\ s <= t /\ p = f[s] /\ q = f[t]
            /\ lo = EndOf(plan, p - 1) /\ hi = EndOf(plan, q)
            /\ ranges[k].first = lo /\ ranges[k].last = hi - 1 /\ hi <= total
            /\ q - t = p - s /\ p \in Nat /\ q \in Nat
    BY <1>4, Zenon
  <2>2. b \in lo..(hi - 1)
    BY <1>5, <2>1, Zenon
  <2>3. b \in 0..(total - 1) /\ lo <= b /\ b < hi /\ b \in Nat
    BY <2>1, <2>2, SMT
  <2>4. PICK i \in DOMAIN plan : EndOf(plan, i - 1) <= b /\ b < EndOf(plan, i)
    BY <2>3, Zenon DEF Covers
  <2>5. PICK c \in Nat, d \in Nat : /\ i \in Nat /\ c = EndOf(plan, i - 1) /\ d = EndOf(plan, i)
                                    /\ c <= b /\ b < d
    <3>1. i \in Nat /\ EndOf(plan, i - 1) \in Nat /\ EndOf(plan, i) \in Nat
      BY <1>1, ChunkLies, Zenon
    <3> QED
      BY <2>4, <3>1, Zenon
  <2>6. ~(i < p)
    <3>1. i < p => d <= lo
      BY <1>3, <2>1, <2>5, Zenon
    <3>2. ~(d <= lo)
      BY <2>3, <2>5, SMT
    <3> QED
      BY <3>1, <3>2, Zenon
  <2>7. ~(q < i)
    <3>1. q < i => hi <= c
      BY <1>3, <2>1, <2>5, Zenon
    <3>2. ~(hi <= c)
      BY <2>3, <2>5, SMT
    <3> QED
      BY <3>1, <3>2, Zenon
  <2>8. PICK j \in 1..n : s <= j /\ j <= t /\ j = s + (i - p)
    <3>1. /\ s + (i - p) \in 1..n /\ s <= s + (i - p) /\ s + (i - p) <= t
      BY <1>1, <2>1, <2>5, <2>6, <2>7, SMT
    <3> QED
      BY <3>1, Zenon
  <2>9. f[j] = i
    <3>1. f[j] - j = p - s
      <4>1. h[k] <= j /\ j <= tail[k]
        BY <2>1, <2>8, Zenon
      <4>2. f[j] - j = f[h[k]] - h[k]
        BY <1>1, <4>1, RunRises
      <4> QED
        BY <2>1, <4>2, Zenon
    <3>2. PICK v \in Nat : v = f[j]
      BY <1>1, Zenon DEF Rises
    <3>3. v = i
      BY <1>1, <2>1, <2>5, <2>8, <3>1, <3>2, SMT
    <3> QED
      BY <3>2, <3>3, Zenon
  <2>10. b \in c..(d - 1)
    BY <2>3, <2>5, SMT
  <2>11. i \in x
    BY <1>1, <2>9, Zenon
  <2> QED
    BY <2>5, <2>10, <2>11, Zenon
<1>6. ASSUME NEW b, NEW i \in x, b \in EndOf(plan, i - 1) .. (EndOf(plan, i) - 1)
      PROVE  \E k \in 1..m : b \in ranges[k].first .. ranges[k].last
  <2>1. PICK j \in 1..n : f[j] = i
    BY <1>1, Zenon
  <2>2. PICK k \in 1..m : h[k] <= j /\ j <= tail[k]
    BY <1>2, Zenon
  <2>3. PICK s \in 1..n, t \in 1..n, p \in DOMAIN plan, q \in DOMAIN plan, lo \in Nat, hi \in Nat :
            /\ s = h[k] /\ t = tail[k] /\ s <= t /\ p = f[s] /\ q = f[t]
            /\ lo = EndOf(plan, p - 1) /\ hi = EndOf(plan, q)
            /\ ranges[k].first = lo /\ ranges[k].last = hi - 1 /\ hi <= total
            /\ q - t = p - s /\ p \in Nat /\ q \in Nat
    BY <1>4, Zenon
  <2>4. PICK c \in Nat, d \in Nat : /\ i \in DOMAIN plan /\ i \in Nat
                                    /\ c = EndOf(plan, i - 1) /\ d = EndOf(plan, i) /\ c < d
    <3>1. i \in DOMAIN plan
      BY Zenon
    <3>2. /\ i \in Nat /\ EndOf(plan, i - 1) \in Nat /\ EndOf(plan, i) \in Nat
          /\ EndOf(plan, i - 1) < EndOf(plan, i)
      BY <1>1, <3>1, ChunkLies, Zenon
    <3> QED
      BY <3>1, <3>2, Zenon
  <2>5. b \in c..(d - 1)
    BY <1>6, <2>4, Zenon
  <2>6. lo <= c
    <3>1. s < j \/ s = j
      <4>1. s <= j
        BY <2>2, <2>3, Zenon
      <4> QED
        BY <1>1, <4>1, SMT
    <3>2. s < j => p < i
      BY <1>1, <2>1, <2>3, Zenon DEF Rises
    <3>3. PICK e \in Nat : e = EndOf(plan, p) /\ lo < e
      <4>1. EndOf(plan, p) \in Nat /\ EndOf(plan, p - 1) < EndOf(plan, p)
        BY <1>1, ChunkLies, Zenon
      <4> QED
        BY <2>3, <4>1, Zenon
    <3>4. p < i => e <= c
      BY <1>3, <2>4, <3>3, Zenon
    <3>5. s = j => lo = c
      BY <2>1, <2>3, <2>4, Zenon
    <3> QED
      BY <3>1, <3>2, <3>3, <3>4, <3>5, SMT
  <2>7. d <= hi
    <3>1. j < t \/ j = t
      <4>1. j <= t
        BY <2>2, <2>3, Zenon
      <4> QED
        BY <1>1, <4>1, SMT
    <3>2. j < t => i < q
      BY <1>1, <2>1, <2>3, Zenon DEF Rises
    <3>3. PICK e \in Nat : e = EndOf(plan, q - 1) /\ e < hi
      BY <1>1, <2>3, ChunkLies, Zenon
    <3>4. i < q => d <= e
      BY <1>3, <2>4, <3>3, Zenon
    <3>5. j = t => d = hi
      BY <2>1, <2>3, <2>4, Zenon
    <3> QED
      BY <3>1, <3>2, <3>3, <3>4, <3>5, SMT
  <2>8. b \in lo..(hi - 1)
    BY <2>5, <2>6, <2>7, SMT
  <2> QED
    BY <2>3, <2>8, Zenon
<1> QED
  BY <1>5, <1>6, Zenon DEF AreTheBytes

\* Every byte has its chunk, by the ends of the chunks.
LEMMA PlanCovers ==
    ASSUME NEW total \in Nat, NEW size \in Nat, size > 0
    PROVE  Covers(BuildPlan(total, size), total)
<1>1. PICK plan : plan = BuildPlan(total, size) /\ IsPlan(plan, total)
  BY PlanFits, Zenon
<1>2. ASSUME NEW b \in 0..(total - 1)
      PROVE  \E i \in DOMAIN plan : EndOf(plan, i - 1) <= b /\ b < EndOf(plan, i)
  <2>1. PICK i \in DOMAIN plan : ByteRange(plan[i]).first <= b /\ b <= ByteRange(plan[i]).last
    <3>1. \E i \in DOMAIN BuildPlan(total, size) :
             /\ ByteRange(BuildPlan(total, size)[i]).first <= b
             /\ b <= ByteRange(BuildPlan(total, size)[i]).last
      BY EveryByteHasItsChunk
    <3> QED
      BY <1>1, <3>1, Zenon
  <2>2. PICK o \in Nat, s \in Nat :
            /\ o = plan[i].offset /\ s = plan[i].size
            /\ o = EndOf(plan, i - 1) /\ o + s = EndOf(plan, i)
    <3>1. plan[i].offset \in Nat /\ plan[i].size \in Nat
      BY <1>1, Zenon DEF IsPlan
    <3>2. plan[i].offset = EndOf(plan, i - 1) /\ plan[i].offset + plan[i].size = EndOf(plan, i)
      BY <1>1, ChunkLies, Zenon
    <3> QED
      BY <3>1, <3>2, Zenon
  <2>3. PICK r : r = ByteRange(plan[i]) /\ r = [first |-> o, last |-> o + s - 1]
    BY <2>2, Zenon DEF ByteRange
  <2>4. r.first = o /\ r.last = o + s - 1
    BY <2>3, SMT
  <2>5. o <= b /\ b <= o + s - 1
    BY <2>1, <2>3, <2>4, Zenon
  <2>6. o <= b /\ b < o + s
    BY <2>2, <2>5, SMT
  <2> QED
    BY <2>2, <2>6, Zenon
<1> QED
  BY <1>1, <1>2, Zenon DEF Covers

\* With two attempts in all, one more may be made only if one failed.
BudgetIs(c, n) == RetryBudget(2, c, n).canRetry <=> c = 1

\* That is one, of what failed so far.
LEMMA BudgetFits ==
    ASSUME NEW c \in Nat, NEW n, n = c
    PROVE  BudgetIs(c, n)
<1>1. PICK q : q = Greatest({2 - c, 0}) /\ q = IF 2 - c > 0 THEN 2 - c ELSE 0
  <2>1. 2 - c \in Int
    BY SMT
  <2>2. Greatest({2 - c, 0}) = IF 2 - c > 0 THEN 2 - c ELSE 0
    BY <2>1, GreaterOfTwo
  <2> QED
    BY <2>2, Zenon
<1>2. q > 0 /\ n > 0 <=> c = 1
  BY <1>1, SMT
<1>3. PICK may \in BOOLEAN, last \in BOOLEAN : may = (q > 0 /\ n > 0) /\ last = (q = 1)
  BY Zenon
<1>4. may <=> c = 1
  BY <1>2, <1>3, Zenon
<1>5. RetryBudget(2, c, n) = [remaining |-> q, canRetry |-> q > 0 /\ n > 0, lastAttempt |-> q = 1]
  BY <1>1, Zenon DEF RetryBudget
<1>6. PICK r : r = RetryBudget(2, c, n)
               /\ r = [remaining |-> q, canRetry |-> may, lastAttempt |-> last]
  BY <1>3, <1>5, Zenon
<1>7. r.canRetry = may
  BY <1>6, SMT
<1> QED
  BY <1>4, <1>6, <1>7, Zenon DEF BudgetIs

\* The ranges of a dump whose chunks at x are damaged.
RangesAreOfDamage(total, size, x) ==
    LET plan == BuildPlan(total, size)
        reconcile == Reconcile(plan, [i \in DOMAIN plan |-> i \notin x])
        ranges == Coalesce(reconcile)
        gaps == Gaps(ranges)
        fragments == Fragmentation(ranges)
        savings == Savings(ranges, reconcile)
        budget == RetryBudget(2, Cardinality(x), Len(reconcile.failed))
        Bytes(r) == r.first .. r.last
    IN  /\ UNION {Bytes(ranges[k]) : k \in DOMAIN ranges}
            = UNION {Bytes(ByteRange(plan[i])) : i \in x}
        /\ GapsAccept(ranges)
        /\ FragmentationAccepts(ranges, reconcile)
        /\ gaps.spanned = gaps.bytes + reconcile.refetchBytes
        /\ gaps.largest <= gaps.bytes /\ gaps.count <= gaps.bytes
        /\ fragments.smallest <= fragments.largest
        /\ savings.saved = Cardinality({i \in x : i + 1 \in x})
        /\ savings.fullyCoalesced <=> gaps.spanned > 0 /\ gaps.count = 0
        /\ budget.canRetry <=> Cardinality(x) = 1

\* Whatever is damaged: the ranges that are fetched again are its bytes, joined as far as
\* they can be, and what is said of their gaps, sizes, savings and of a further attempt
\* agrees with them: for every dump and every size of chunks
\* (export-chunk-refetch-coalesce.ts:241).
THEOREM DamagedBytesAreRanges ==
    ASSUME NEW total \in Nat, NEW size \in Nat, size > 0,
           NEW x \in SUBSET DOMAIN BuildPlan(total, size)
    PROVE  RangesAreOfDamage(total, size, x)
<1> DEFINE plan == BuildPlan(total, size)
           reconcile == Reconcile(plan, [i \in DOMAIN plan |-> i \notin x])
           ranges == Coalesce(reconcile)
           gaps == Gaps(ranges)
           fragments == Fragmentation(ranges)
           savings == Savings(ranges, reconcile)
           budget == RetryBudget(2, Cardinality(x), Len(reconcile.failed))
           Bytes(r) == r.first .. r.last
           bytes == reconcile.refetchBytes
<1>1. IsPlan(plan, total) /\ Covers(plan, total) /\ x \in SUBSET DOMAIN plan
  BY PlanFits, PlanCovers, Zenon
<1>2. reconcile = Reconcile(plan, [i \in DOMAIN plan |-> i \notin x])
  BY Zenon
<1>3. ranges = Coalesce(reconcile)
  BY Zenon
<1> HIDE DEF plan, reconcile, ranges
<1>4. PICK f : /\ reconcile.failed \in Seq(ToSet(plan))
               /\ Takes(reconcile.failed, plan, x, f)
               /\ bytes = SizeOf(reconcile.failed)
               /\ IsFiniteSet(x) /\ Len(reconcile.failed) = Cardinality(x)
  BY ONLY <1>1, <1>2, FailedAre
<1>5. PICK n \in Nat : n = Len(reconcile.failed) /\ n = Cardinality(x)
                       /\ AreFailed(reconcile.failed, plan, total, x, f, n)
  <2>1. AreFailed(reconcile.failed, plan, total, x, f, Len(reconcile.failed))
    BY <1>1, <1>4, FailedRise, Zenon
  <2>2. Len(reconcile.failed) \in Nat
    BY <2>1, Zenon DEF AreFailed
  <2> QED
    BY <1>4, <2>1, <2>2, Zenon
<1>6. PICK h, tail, m : /\ h = Ascending(HeadsOf(f, n)) /\ tail = TailsOf(h, n)
                        /\ m = Len(h) /\ AreRuns(f, n, h, tail, m)
  <2>1. Rises(f, n)
    BY <1>5, Zenon DEF AreFailed
  <2>2. PICK h, tail : h = Ascending(HeadsOf(f, n)) /\ tail = TailsOf(h, n)
    BY Zenon
  <2>3. AreRuns(f, n, h, tail, Len(h))
    BY <2>1, <2>2, RunsAre, Zenon
  <2> QED
    BY <2>2, <2>3, Zenon
<1>7. AreCoalesced(ranges, plan, f, h, tail, m)
  BY <1>3, <1>5, <1>6, CoalescedAre, Zenon
<1>8. PICK w : AddUp(w, plan, f, h, tail, m, bytes)
  BY <1>4, <1>5, <1>6, RangesAddUp, Zenon
<1>9. PICK lo, hi : AreSpread(ranges, lo, hi, w, m, bytes)
  <2>1. AreSpread(ranges, LowEnds(plan, f, h, m), HighEnds(plan, f, tail, m), w, m, bytes)
    BY <1>5, <1>6, <1>7, <1>8, SpreadIs, Zenon
  <2> QED
    BY <2>1, Zenon
<1>10. /\ m \in Nat /\ DOMAIN ranges = 1..m /\ Len(ranges) = m /\ (m = 0 <=> n = 0)
  BY <1>6, <1>9, Zenon DEF AreSpread, AreRuns
<1>11. UNION {Bytes(ranges[k]) : k \in DOMAIN ranges} = UNION {Bytes(ByteRange(plan[i])) : i \in x}
  <2>1. AreTheBytes(ranges, plan, m, x)
    BY <1>1, <1>5, <1>6, <1>7, BytesAreDamaged, Zenon
  <2>2. ASSUME NEW i \in x
        PROVE  Bytes(ByteRange(plan[i])) = EndOf(plan, i - 1) .. (EndOf(plan, i) - 1)
    <3>1. PICK o \in Nat, s \in Nat :
              /\ o = plan[i].offset /\ s = plan[i].size
              /\ o = EndOf(plan, i - 1) /\ o + s = EndOf(plan, i)
      <4>1. plan[i].offset \in Nat /\ plan[i].size \in Nat
        BY <1>1, Zenon DEF IsPlan
      <4>2. plan[i].offset = EndOf(plan, i - 1) /\ plan[i].offset + plan[i].size = EndOf(plan, i)
        <5>1. i \in DOMAIN plan
          BY <1>1, Zenon
        <5> QED
          BY <1>1, <5>1, ChunkLies, Zenon
      <4> QED
        BY <4>1, <4>2, Zenon
    <3>2. PICK r : r = ByteRange(plan[i]) /\ r = [first |-> o, last |-> o + s - 1]
      BY <3>1, Zenon DEF ByteRange
    <3>3. r.first = o /\ r.last = o + s - 1
      BY <3>2, SMT
    <3>4. o + s - 1 = (o + s) - 1
      BY <3>1, SMT
    <3> QED
      BY <3>1, <3>2, <3>3, <3>4, Zenon
  <2>3. ASSUME NEW b
        PROVE  b \in UNION {Bytes(ranges[k]) : k \in DOMAIN ranges}
                 <=> \E k \in 1..m : b \in ranges[k].first .. ranges[k].last
    BY <1>10, Zenon
  <2>4. ASSUME NEW b
        PROVE  b \in UNION {Bytes(ByteRange(plan[i])) : i \in x}
                 <=> \E i \in x : b \in EndOf(plan, i - 1) .. (EndOf(plan, i) - 1)
    <3>1. b \in UNION {Bytes(ByteRange(plan[i])) : i \in x}
            <=> \E i \in x : b \in Bytes(ByteRange(plan[i]))
      BY Zenon
    <3> HIDE DEF Bytes
    <3> QED
      BY <2>2, <3>1, Zenon
  <2>5. \A b : b \in UNION {Bytes(ranges[k]) : k \in DOMAIN ranges}
                 <=> b \in UNION {Bytes(ByteRange(plan[i])) : i \in x}
    <3>1. ASSUME NEW b
          PROVE  (\E k \in 1..m : b \in ranges[k].first .. ranges[k].last)
                   <=> \E i \in x : b \in EndOf(plan, i - 1) .. (EndOf(plan, i) - 1)
      BY <2>1, Zenon DEF AreTheBytes
    <3> HIDE DEF Bytes
    <3> QED
      BY <2>3, <2>4, <3>1, Zenon
  <2>6. PICK S, T : /\ S = UNION {Bytes(ranges[k]) : k \in DOMAIN ranges}
                    /\ T = UNION {Bytes(ByteRange(plan[i])) : i \in x}
    BY Zenon
  <2>7. \A b : b \in S <=> b \in T
    BY <2>5, <2>6, Zenon
  <2> QED
    BY <2>6, <2>7, Zenon
<1>12. GapsAccept(ranges) /\ GapsAgree(gaps, bytes, m)
  BY <1>9, GapsFit, Zenon
<1>13. FragmentationAccepts(ranges, reconcile) /\ fragments.smallest <= fragments.largest
  <2>1. LengthsAgree(ranges, bytes)
    BY <1>9, LengthsFit, Zenon
  <2>2. AreCounted(ranges, n)
    BY <1>6, <1>7, ChunksAreCounted, Zenon
  <2> QED
    BY <1>5, <2>1, <2>2, Zenon DEF FragmentationAccepts, LengthsAgree, AreCounted, CountsOf
<1>14. PICK g : g = gaps /\ GapsAgree(g, bytes, m)
  BY <1>12, Zenon
<1>15. savings.saved = n - m /\ (savings.fullyCoalesced <=> m = 1)
  <2>1. PICK joined \in BOOLEAN, saved \in {n - m} :
          joined = (reconcile.failed # <<>> /\ Len(ranges) = 1)
    BY Zenon
  <2>2. savings = [saved |-> Len(reconcile.failed) - Len(ranges),
                   fullyCoalesced |-> reconcile.failed # <<>> /\ Len(ranges) = 1]
    BY Zenon DEF Savings
  <2>3. savings = [saved |-> saved, fullyCoalesced |-> joined]
    BY <1>5, <1>10, <2>1, <2>2, Zenon
  <2>4. PICK s : s = savings /\ s = [saved |-> saved, fullyCoalesced |-> joined]
    BY <2>3, Zenon
  <2>5. s.saved = saved /\ s.fullyCoalesced = joined
    BY <2>4, SMT
  <2>6. reconcile.failed # <<>> <=> n # 0
    BY <1>4, <1>5, SMT
  <2>7. m = 1 => m # 0
    BY SMT
  <2> QED
    BY <1>10, <2>1, <2>4, <2>5, <2>6, <2>7, Zenon
<1>16. n - m = Cardinality({i \in x : i + 1 \in x})
  <2>1. AreSaved(n, m, x)
    BY <1>5, <1>6, SavedAre, Zenon
  <2> QED
    BY <2>1, Zenon DEF AreSaved
<1>17. budget.canRetry <=> Cardinality(x) = 1
  <2>1. BudgetIs(n, n)
    BY BudgetFits, Zenon
  <2> QED
    BY <1>5, <2>1, Zenon DEF BudgetIs
<1>18. /\ gaps.spanned = gaps.bytes + bytes
       /\ gaps.largest <= gaps.bytes /\ gaps.count <= gaps.bytes
       /\ gaps.spanned > 0 /\ gaps.count = 0 <=> m = 1
  BY <1>14, Zenon DEF GapsAgree
<1> HIDE DEF gaps, fragments, savings, budget, Bytes
<1>19. /\ UNION {Bytes(ranges[k]) : k \in DOMAIN ranges}
            = UNION {Bytes(ByteRange(plan[i])) : i \in x}
       /\ GapsAccept(ranges)
       /\ FragmentationAccepts(ranges, reconcile)
       /\ gaps.spanned = gaps.bytes + bytes
       /\ gaps.largest <= gaps.bytes /\ gaps.count <= gaps.bytes
       /\ fragments.smallest <= fragments.largest
       /\ savings.saved = Cardinality({i \in x : i + 1 \in x})
       /\ savings.fullyCoalesced <=> gaps.spanned > 0 /\ gaps.count = 0
       /\ budget.canRetry <=> Cardinality(x) = 1
  BY <1>11, <1>12, <1>13, <1>15, <1>16, <1>17, <1>18, Zenon
<1> QED
  BY <1>19, Zenon
     DEF RangesAreOfDamage, plan, reconcile, ranges, gaps, fragments, savings, budget, Bytes

------------------------------------------------------------------------------
(* Chunks: what arrives of a dump. *)

\* A cut of a dump, and chunks of its plan.
ArrivingInv == scene = "arriving" => x1 \in Cuts /\ x2 \in Seq(ToSet(PlanOf(x1)))

\* It holds at first, and every step keeps it.
LEMMA ArrivingInvInductive ==
    /\ Init \/ FunctionsInit => ArrivingInv
    /\ ArrivingInv /\ [Next \/ FunctionsNext]_vars => ArrivingInv'
<1>1. ASSUME Init \/ FunctionsInit, scene = "arriving"
      PROVE  x1 \in Cuts /\ x2 \in Seq(ToSet(PlanOf(x1)))
  <2>1. x1 \in Cuts /\ x2 = <<>>
    BY <1>1, PagesLeaveFunctions, Zenon DEF FunctionsInit
  <2>2. \A T : <<>> \in Seq(T)
    BY SMT
  <2> QED
    BY <2>1, <2>2, Zenon
<1>2. ASSUME ArrivingInv, [Next \/ FunctionsNext]_vars, scene' = "arriving"
      PROVE  x1' \in Cuts /\ x2' \in Seq(ToSet(PlanOf(x1')))
  <2>1. CASE UNCHANGED vars
    <3>1. scene' = scene /\ x1' = x1 /\ x2' = x2
      BY <2>1, Zenon DEF vars
    <3> QED
      BY <1>2, <3>1, Zenon DEF ArrivingInv
  <2>2. CASE Next
    BY <1>2, <2>2, PagesLeaveFunctions, Zenon
  <2>3. CASE FunctionsNext
    <3>1. scene = "arriving" /\ ArrivingNext
      BY <1>2, <2>3, Zenon DEF FunctionsNext
    <3>2. x1 \in Cuts /\ x2 \in Seq(ToSet(PlanOf(x1)))
      BY <1>2, <3>1, Zenon DEF ArrivingInv
    <3>3. x1' = x1
      BY <3>1, Zenon DEF ArrivingNext
    <3>4. PICK i \in DOMAIN PlanOf(x1) : x2' = Append(x2, PlanOf(x1)[i])
      BY <3>1, Zenon DEF ArrivingNext
    <3>5. PICK T : T = ToSet(PlanOf(x1))
      BY Zenon
    <3>6. PICK c \in T : c = PlanOf(x1)[i]
      BY <3>5, Zenon DEF ToSet
    <3>7. Append(x2, c) \in Seq(T)
      BY <3>2, <3>5, SMT
    <3> QED
      BY <3>2, <3>3, <3>4, <3>5, <3>6, <3>7, Zenon
  <2> QED
    BY <1>2, <2>1, <2>2, <2>3, Zenon
<1> QED
  BY <1>1, <1>2, Zenon DEF ArrivingInv

\* In whatever order the chunks of a dump arrive, and however often, those that are kept
\* and those that are asked for again are the dump, and it is said to be whole only if it
\* is (import-chunk-retransmit-request.ts:236, import-chunk-upload-progress.ts:250).
THEOREM ArrivingTheorem == PagesAndFunctions => []ArrivedAndAskedAreDump
<1>1. ASSUME ArrivingInv, scene = "arriving"
      PROVE  /\ x1.total \in Nat /\ x1.size \in Nat /\ x1.size > 0
             /\ PlanOf(x1) = BuildPlan(x1.total, x1.size)
             /\ x2 \in Seq(ToSet(PlanOf(x1)))
  <2>1. x1 \in Cuts /\ x2 \in Seq(ToSet(PlanOf(x1)))
    BY <1>1, Zenon DEF ArrivingInv
  <2>2. x1.total \in Nat /\ x1.size \in Nat /\ x1.size > 0
    BY <2>1, SMT DEF Cuts
  <2> QED
    BY <2>1, <2>2, Zenon DEF PlanOf
<1>2. ArrivingInv => RetransmitCompletesDump
  <2>1. ASSUME ArrivingInv, scene = "arriving" PROVE RetransmitCompletesDump
    BY <1>1, <2>1, ArrivedAndAskedAreWhole, Zenon DEF RetransmitCompletesDump
  <2> QED
    BY <2>1, Zenon DEF RetransmitCompletesDump
<1>3. ArrivingInv => UploadCompleteUnlessDoubled
  <2>1. ASSUME ArrivingInv, scene = "arriving", x1.total > 0 PROVE UploadCompleteUnlessDoubled
    <3> DEFINE plan == PlanOf(x1)
               order == ReassemblyOrder(x2, x1.total)
               upload == UploadProgress(x2, x1.total, Len(plan))
    <3>1. /\ order.complete => upload.complete
          /\ upload.complete /\ ~order.complete => order.doubled # {}
          /\ upload.status = "stalled-incomplete"
               => order.missing # {} \/ order.doubled # {}
          /\ upload.resumeOffset = order.nextOffset
      <4>1. PICK total \in Nat, size \in Nat : total = x1.total /\ size = x1.size
        BY <1>1, <2>1, Zenon
      <4>2. PICK p, a : p = PlanOf(x1) /\ a = x2
        BY Zenon
      <4>3. size > 0 /\ total > 0 /\ p = BuildPlan(total, size) /\ a \in Seq(ToSet(p))
        BY <1>1, <2>1, <4>1, <4>2, Zenon
      <4> DEFINE o == ReassemblyOrder(a, total)
                 u == UploadProgress(a, total, Len(p))
      <4>4. /\ o.complete => u.complete
            /\ u.complete /\ ~o.complete => o.doubled # {}
            /\ u.status = "stalled-incomplete" => o.missing # {} \/ o.doubled # {}
            /\ u.resumeOffset = o.nextOffset
        BY ONLY <4>3, UploadIsShownAsItIs
      <4>5. o = order /\ u = upload
        BY <4>1, <4>2, Zenon
      <4> HIDE DEF o, u, order, upload
      <4> QED
        BY <4>4, <4>5, Zenon
    <3> HIDE DEF order, upload
    <3> QED
      BY <3>1, Zenon DEF UploadCompleteUnlessDoubled, order, upload
  <2> QED
    BY <2>1, Zenon DEF UploadCompleteUnlessDoubled
<1>4. ArrivingInv => ArrivedAndAskedAreDump
  BY <1>2, <1>3, Zenon DEF ArrivedAndAskedAreDump
<1> QED
  BY <1>4, ArrivingInvInductive, PTL DEF PagesAndFunctions

------------------------------------------------------------------------------
(* Chunks: what fails of a dump that is sent. *)

\* A cut of a dump, and places of its plan.
SendingInv == scene = "sending" => x1 \in Cuts /\ x2 \in SUBSET DOMAIN PlanOf(x1)

\* It holds at first, and every step keeps it.
LEMMA SendingInvInductive ==
    /\ Init \/ FunctionsInit => SendingInv
    /\ SendingInv /\ [Next \/ FunctionsNext]_vars => SendingInv'
<1>1. ASSUME Init \/ FunctionsInit, scene = "sending"
      PROVE  x1 \in Cuts /\ x2 \in SUBSET DOMAIN PlanOf(x1)
  <2>1. x1 \in Cuts /\ x2 = {}
    BY <1>1, PagesLeaveFunctions, Zenon DEF FunctionsInit
  <2> QED
    BY <2>1, Zenon
<1>2. ASSUME SendingInv, [Next \/ FunctionsNext]_vars, scene' = "sending"
      PROVE  x1' \in Cuts /\ x2' \in SUBSET DOMAIN PlanOf(x1')
  <2>1. CASE UNCHANGED vars
    <3>1. scene' = scene /\ x1' = x1 /\ x2' = x2
      BY <2>1, Zenon DEF vars
    <3> QED
      BY <1>2, <3>1, Zenon DEF SendingInv
  <2>2. CASE Next
    BY <1>2, <2>2, PagesLeaveFunctions, Zenon
  <2>3. CASE FunctionsNext
    <3>1. scene = "sending" /\ SendingNext
      BY <1>2, <2>3, Zenon DEF FunctionsNext
    <3>2. x1 \in Cuts /\ x2 \in SUBSET DOMAIN PlanOf(x1)
      BY <1>2, <3>1, Zenon DEF SendingInv
    <3>3. x1' = x1
      BY <3>1, Zenon DEF SendingNext
    <3>4. PICK i \in DOMAIN PlanOf(x1) : x2' = x2 \union {i}
      BY <3>1, Zenon DEF SendingNext
    <3> QED
      BY <3>2, <3>3, <3>4, Zenon
  <2> QED
    BY <1>2, <2>1, <2>2, <2>3, Zenon
<1> QED
  BY <1>1, <1>2, Zenon DEF SendingInv

\* Whatever is damaged or broken off of a dump that is sent, what is sent again makes it
\* whole, and what is said of its chunks agrees with that
\* (export-chunk-refetch-coalesce.ts:241, export-chunk-resume-plan.ts:173).
THEOREM SendingTheorem == PagesAndFunctions => []SentAgainIsDump
<1>1. ASSUME SendingInv, scene = "sending"
      PROVE  /\ x1.total \in Nat /\ x1.size \in Nat /\ x1.size > 0
             /\ PlanOf(x1) = BuildPlan(x1.total, x1.size)
             /\ Dump(x1) = [i \in 1..x1.total |-> i]
             /\ x2 \in SUBSET DOMAIN BuildPlan(x1.total, x1.size)
  <2>1. x1 \in Cuts /\ x2 \in SUBSET DOMAIN PlanOf(x1)
    BY <1>1, Zenon DEF SendingInv
  <2>2. x1.total \in Nat /\ x1.size \in Nat /\ x1.size > 0
    BY <2>1, SMT DEF Cuts
  <2> QED
    BY <2>1, <2>2, Zenon DEF PlanOf, Dump
<1>2. SendingInv => RefetchRepairsDump
  <2>1. ASSUME SendingInv, scene = "sending" PROVE RefetchRepairsDump
    <3>1. RefetchRepairs(x1.total, x1.size, x2)
      BY <1>1, <2>1, DamagedIsRepaired, Zenon
    <3> QED
      BY <3>1, Zenon DEF RefetchRepairsDump, RefetchRepairs, PlanOf, Dump
  <2> QED
    BY <2>1, Zenon DEF RefetchRepairsDump
<1>3. SendingInv => RangesAreDamagedBytes
  <2>1. ASSUME SendingInv, scene = "sending" PROVE RangesAreDamagedBytes
    <3>1. RangesAreOfDamage(x1.total, x1.size, x2)
      BY <1>1, <2>1, DamagedBytesAreRanges, Zenon
    <3> QED
      BY <3>1, Zenon DEF RangesAreDamagedBytes, RangesAreOfDamage, PlanOf, Dump
  <2> QED
    BY <2>1, Zenon DEF RangesAreDamagedBytes
<1>4. SendingInv => ResumeContinuesStream
  <2>1. ASSUME SendingInv, scene = "sending" PROVE ResumeContinuesStream
    <3>1. ResumeGoesOn(x1.total, x1.size)
      BY <1>1, <2>1, ResumedGoesOn, Zenon
    <3> QED
      BY <3>1, Zenon DEF ResumeContinuesStream, ResumeGoesOn, PlanOf, Dump
  <2> QED
    BY <2>1, Zenon DEF ResumeContinuesStream
<1>5. SendingInv => SentAgainIsDump
  BY <1>2, <1>3, <1>4, Zenon DEF SentAgainIsDump
<1> QED
  BY <1>5, SendingInvInductive, PTL DEF PagesAndFunctions

\* What goes wrong of a dump on its way in chunks, at the one end or the other, is made good
\* by what is sent again, and nothing that is said of it says otherwise
\* (export-chunk-refetch-coalesce.ts:241, import-chunk-upload-progress.ts:250).
THEOREM ResendingTheorem == PagesAndFunctions => []ResendingCompletesDump
<1>1. SentAgainIsDump /\ ArrivedAndAskedAreDump => ResendingCompletesDump
  BY Zenon DEF ResendingCompletesDump
<1> QED
  BY <1>1, SendingTheorem, ArrivingTheorem, PTL

==============================================================================
