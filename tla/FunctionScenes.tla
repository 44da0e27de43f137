---------------------------- MODULE FunctionScenes ----------------------------
(***************************************************************************)
(* The pure algorithms of the system on every input of small sets, as      *)
(* further scenes of the pool of Pages: the state is the input of the      *)
(* functions, and a step goes to a neighbouring input.                     *)
(***************************************************************************)
EXTENDS Pages, FillPlanning, EvaluationScoring, ChunkTransfer, TLC

Asked(kind, start, end, selector) ==
    [scope |-> kind, start |-> start, end |-> end, selector |-> selector]

Elements(s) == {s[i] : i \in DOMAIN s}

\* Around the turns of the clocks and of months.
Hours == (UTC(2026, 2, 28, 0) .. UTC(2026, 3, 2, 0))
         \union (UTC(2026, 3, 7, 0) .. UTC(2026, 3, 10, 0))
         \union (UTC(2026, 4, 3, 0) .. UTC(2026, 4, 7, 0))
         \union (UTC(2026, 9, 25, 0) .. UTC(2026, 9, 28, 0))
         \union (UTC(2026, 10, 30, 0) .. UTC(2026, 11, 3, 0))
CalendarInit == x1 \in Zones /\ x2 \in {t \in Hours : t - 1 \notin Hours}
CalendarNext == /\ x2 + 1 \in Hours
                /\ x2' = x2 + 1
                /\ UNCHANGED x1

\* Two days asked for, of two persons, one named twice; rows of them that are
\* there, and two of the fates where the rows are of days, as the plan is.
Noons == {UTC(2026, 3, 3, 3), UTC(2026, 3, 2, 3)}
Roster == <<"p1", "p2", "p1">>
AskedRange(now) == [start |-> now - 48, end |-> now]
Storable(now) ==
    {Coordinate("p1", "day", RangeOf("day", now - 24 * n).start) : n \in 0..2}
    \union {Coordinate("p1", period, RangeOf(period, now).start) :
               period \in {"week", "month"}}
    \union {Coordinate("p2", "day", now - 24)}
PlanningInit == x1 \in Noons /\ x2 = {} /\ x3 = <<>>
PlanningNext ==
    /\ \/ /\ x3 = <<>>
          /\ \E c \in Storable(x1) \ x2 : x2' = x2 \union {c}
          /\ UNCHANGED x3
       \/ /\ Len(x3) < 2
          /\ \A c \in x2 : c.period = "day"
          /\ \E fate \in Fates : x3' = Append(x3, fate)
          /\ UNCHANGED x2
    /\ UNCHANGED x1

\* A dump, its chunks and the damaged ones; or the chunks that arrived of it.
Cuts == [total : 0..5, size : 1..3]
PlanOf(cut) == BuildPlan(cut.total, cut.size)
Dump(cut) == [i \in 1..cut.total |-> i]
SendingNext == /\ \E i \in DOMAIN PlanOf(x1) \ x2 : x2' = x2 \union {i}
               /\ UNCHANGED x1
ArrivingNext == /\ Len(x2) < 4
                /\ \E chunk \in {PlanOf(x1)[i] : i \in DOMAIN PlanOf(x1)} : x2' = Append(x2, chunk)
                /\ UNCHANGED x1

\* What the services hold and how their calls fail, with two names of each kind:
\* one of the environment, one that rows of two spellings register.
Gather == INSTANCE ActivityCollection WITH MaxPages <- 2, PageSize <- 1
Since == 3
Until == 8
Key(n) == [name |-> n, spelling |-> 1]
OtherKey(n) == [name |-> n, spelling |-> 2]
Vars(host, token, allowed, orgs, repos, spaces) ==
    [host |-> host, token |-> token, allowed |-> allowed,
     orgs |-> orgs, repos |-> repos, spaces |-> spaces]
Nothing == Vars("", "", "", <<>>, <<>>, <<>>)
Environment(repos, token) ==
    [GITHUB |-> [list |-> <<Key("hub"), OtherKey("hub")>>,
                 vars |-> ("hub" :> Vars("h1", "ok", "", <<"o">>, repos, <<>>)
                           @@ "lab" :> Vars("", token, "h2", <<>>, <<>>, <<>>)
                           @@ "wiki" :> Nothing @@ "docs" :> Nothing)],
     CONFLUENCE |-> [list |-> <<Key("wiki")>>,
                     vars |-> ("wiki" :> Vars("w1", "ok", "", <<>>, <<>>, <<"s", "t">>)
                               @@ "docs" :> Vars("", token, "w2", <<>>, <<>>, <<>>)
                               @@ "hub" :> Nothing @@ "lab" :> Nothing)]]
Environments == {Environment(<<>>, "ok"), Environment(<<<<"r">>, <<"p", "q">>>>, "ok"),
                 Environment(<<<<"r">>, <<"", "q">>>>, "broken")}
Row(kind, key, made, host, repos, spaces) ==
    [kind |-> kind, key |-> key, active |-> TRUE, made |-> made,
     endpoint |-> [form |-> "host", host |-> host],
     orgs |-> <<"o">>, repos |-> repos, spaces |-> spaces]
LabRow == Row("GITHUB", Key("lab"), 1, "h2", <<<<"o", "r">>>>, <<>>)
LaterLabRow == Row("GITHUB", OtherKey("lab"), 2, "h2", <<<<"q">>>>, <<>>)
DocsRow == Row("CONFLUENCE", Key("docs"), 3, "w2", <<>>, <<"s">>)
RowSets == {{}, {[LabRow EXCEPT !.active = FALSE], LaterLabRow}, {LabRow, LaterLabRow, DocsRow},
            {[DocsRow EXCEPT !.endpoint.host = "w3"]}}
Account(n, id) == [service |-> Key(n), externalId |-> id]
People == {{Account("hub", "a"), Account("lab", "b"), Account("wiki", "c"), Account("docs", "c")},
           {Account("hub", "a"), Account("wiki", "c")}}

Raw == [sha |-> "", number |-> "", pull |-> FALSE, author |-> "a", at |-> 5, id |-> "",
        version |-> 0, name |-> "", fullName |-> "",
        title |-> [length |-> 9, marks |-> {}], message |-> [text |-> "m", long |-> FALSE]]
Commit(sha, at, long) == [Raw EXCEPT !.sha = sha, !.at = at, !.message.long = long]
Work(host, path, raw) == [on |-> <<host, path>>, raw |-> raw]
Page(host, author, version) ==
    Work(host, <<"space", "s">>, [Raw EXCEPT !.id = "p1", !.author = author, !.version = version])
Works ==
    {Work("h1", <<"repos", "o", "r", "commits">>, Commit("c1", 5, TRUE)),
     Work("h1", <<"repos", "o", "q", "commits">>, Commit("c1", 5, TRUE)),
     Work("h1", <<"repos", "o", "q", "commits">>, Commit("c2", 2, TRUE)),
     Work("h1", <<"repos", "o", "r", "commits">>, Commit("c3", 6, TRUE)),
     Work("h1", <<"repos", "o", "r", "commits">>, Commit("c4", 7, FALSE)),
     Work("h1", <<"repos", "o", "r", "pulls">>, [Raw EXCEPT !.number = "1", !.pull = TRUE]),
     Work("h2", <<"repos", "o", "r", "pulls">>,
          [Raw EXCEPT !.number = "1", !.pull = TRUE, !.author = "b", !.at = 4]),
     Work("h1", <<"repos", "p", "q", "issues">>, [Raw EXCEPT !.number = "1"]),
     Page("w1", "c", 1), Page("w2", "d", 2)}
Listed == {Work("h1", <<"orgs", "o">>, [Raw EXCEPT !.name = n[1], !.fullName = n[2], !.at = n[3]]) :
              n \in {<<"x", "", 9>>, <<"", "r", 8>>, <<"q", "", 7>>}}
\* An empty repository answers 409 when its commits are asked for.
Faults == {<<>>} \union
          {(f[1] :> [page |-> f[2], status |-> f[3]]) :
              f \in {<<<<"h1", <<"orgs", "o">>>>, 1, "403">>,
                     <<<<"h1", <<"orgs", "o">>>>, 2, "cross">>,
                     <<<<"h1", <<"repos", "o", "r", "commits">>>>, 1, "403">>,
                     <<<<"h1", <<"repos", "o", "x", "commits">>>>, 1, "409">>,
                     <<<<"w1", <<"space", "t">>>>, 1, "403">>}}
\* The newest first.
ItemsOf(works) ==
    [on \in {w.on : w \in works} |->
        LET here == Gather!SetToSortSeq({w \in works : w.on = on},
                                 LAMBDA v, w : v.raw.at > w.raw.at)
        IN  [i \in DOMAIN here |-> here[i].raw]]
Net == [env |-> x1, rows |-> x3, items |-> ItemsOf(x4 \union Listed), faults |-> x5]
GatheringInit == /\ x1 \in Environments /\ x2 \in RowSets /\ x3 = x2
                 /\ x4 = {} /\ x5 \in Faults /\ x6 \in People
\* Work appears, or an admin changes the rows between their reading and the calls.
GatheringNext ==
    /\ \/ /\ \E w \in Works \ x4 : /\ \/ Cardinality(x4) < IF x3 = x2 THEN 2 ELSE 1
                                      \/ \A v \in x4 : v.on = w.on
                                   /\ x4' = x4 \union {w}
          /\ UNCHANGED x3
       \/ /\ x4 = {} /\ x3 = x2
          /\ \E rows \in RowSets \ {x2} : x3' = rows
          /\ UNCHANGED x4
    /\ UNCHANGED <<x1, x2, x5, x6>>

\* Activities of a person with accounts at three instances, in any order, some of
\* them twice; and what the model answers.
Answers == {"zero", "medium", "nonsense"}
Activity(source, kind, n, place, id, author, at, length, hits) ==
    [source |-> source, kind |-> kind, key |-> Key(n), place |-> place, id |-> id,
     author |-> author, at |-> at, titleLength |-> length, hits |-> hits]
Activities ==
    {Activity("github", "commit", "hub", <<"o", "r">>, "c1", "a", 1, 0, 0),
     Activity("github", "pr", "hub", <<"o", "r">>, "1", "a", 2, 9, 0),
     Activity("github", "pr", "hub", <<"o", "q">>, "1", "a", 1, 2, 0),
     Activity("github", "pr", "hub", <<"o", "r">>, "2", "a", 3, 2, 0),
     Activity("github", "issue", "hub", <<"o", "r">>, "3", "a", 2, 25, 2),
     Activity("github", "issue", "hub", <<"p", "q">>, "2", "a", 3, 90, 0),
     Activity("github", "pr", "lab", <<"o", "r">>, "1", "b", 2, 2, 0),
     Activity("confluence", "page", "wiki", "s", "p1", "c", 2, 1, 3),
     Activity("confluence", "page", "wiki", "s", "p2", "c", 3, 9, 1)}
Prompts == {Prompt(Input(a)) : a \in Activities}
Generated == [q \in Prompts \X {"any", "easy", "medium", "hard"} |->
                 [difficulty |-> q[2], contribution |-> x2]]
Evaluated(activities) == EvaluateActivities(activities, x3, Generated)
ScoringNext == /\ Len(x1) < 3
               /\ \E a \in Activities : x1' = Append(x1, a)
               /\ UNCHANGED <<x2, x3>>

\* Exports of some rows, the files made of them, whole or with one thing changed,
\* and imports of those into a system that has rows of its own.
Transfer == INSTANCE TransferFiles
InTable(entity, instant) ==
    [entity |-> entity, instant |-> instant, fields |-> Transfer!Columns[entity]]
Sources == {InTable("Assessment", 1), InTable("Person", 1), InTable("Person", 2), InTable("Group", 3)}
Targets == {<<>>, <<InTable("Person", 1), InTable("Assessment", 1)>>,
            <<InTable("Group", 3), InTable("Person", 1), InTable("Person", 1)>>,
            <<InTable("AuditLog", 2), InTable("Person", 2)>>}
FileScopes == {Asked("full", 0, 0, {}), Asked("range", 1, 2, {}),
               Asked("range", 1, 4, {"Person"}), Asked("partial", 0, 0, {"Group", "Assessment"})}
FileDamages == {"none", "json", "object", "version", "blank", "dated", "listed", "counted",
                "count", "shifted", "totalled", "total"}
RecordDamages == {"dropped", "doubled", "turned", "item", "entity", "instant", "given",
                  "parses", "plain", "fields", "secret"}
Damages == FileDamages \union RecordDamages
DumpOf(s, rows) == Transfer!BuildFullExportDump(s, Transfer!SelectExportRecords(s, rows).selected, 5)
WithFirst(f, r) == [f EXCEPT !.records[1] = r]
Damaged(f, damage) ==
    IF damage = "none" \/ (damage \in RecordDamages /\ f.records = <<>>) THEN f
    ELSE
    CASE damage \in {"json", "object", "dated", "listed", "counted", "totalled"} ->
            [f EXCEPT ![damage] = FALSE]
      [] damage = "version" -> [f EXCEPT !.schemaVersion = "0"]
      [] damage = "blank" -> [f EXCEPT !.schemaVersion = ""]
      [] damage = "count" -> [f EXCEPT !.entityCounts.Group = @ + 1]
      [] damage = "shifted" -> [f EXCEPT !.entityCounts.Group = @ + 1, !.entityCounts.Person = @ - 1]
      [] damage = "total" -> [f EXCEPT !.recordCount = @ + 1]
      [] damage = "dropped" -> [f EXCEPT !.records = Tail(@)]
      [] damage = "doubled" -> [f EXCEPT !.records = <<f.records[1]>> \o @, !.recordCount = @ + 1,
                                         !.entityCounts[f.records[1].entity] = @ + 1]
      [] damage = "turned" -> [f EXCEPT !.records = Transfer!Reverse(@)]
      [] damage = "item" -> WithFirst(f, [f.records[1] EXCEPT !.object = FALSE])
      [] damage \in {"given", "parses", "plain"} ->
            WithFirst(f, [f.records[1] EXCEPT ![damage] = FALSE])
      [] damage = "entity" -> WithFirst(f, [f.records[1] EXCEPT !.entity = "Person"])
      [] damage = "instant" -> WithFirst(f, [f.records[1] EXCEPT !.instant = 4])
      [] damage = "fields" -> WithFirst(f, [f.records[1] EXCEPT !.fields = {}])
      [] damage = "secret" -> WithFirst(f, [f.records[1] EXCEPT !.fields = @ \union {"apiKey"}])
TransferNext == /\ \/ /\ Len(x1) < 2
                      /\ \E r \in Sources : x1' = Append(x1, r)
                      /\ UNCHANGED x2
                   \/ /\ x1 # <<>> /\ x2 = "none"
                      /\ x2' \in Damages
                      /\ UNCHANGED x1
                /\ UNCHANGED <<x3, x4, x5>>

\* The calls of the page and one of every route, asked by each role.
Routes == INSTANCE ServerRoutes
Calls == INSTANCE PageCalls
Roles == {"anonymous", "User", "Admin", "SuperAdmin"}
Spelled(route) ==
    [method |-> route.method, query |-> route.asks,
     path |-> [i \in DOMAIN route.path |->
                 IF route.path[i] \in Routes!Params THEN "id" ELSE route.path[i]],
     body |-> [f \in {g \in DOMAIN route.body : "absent" \notin route.body[g]} |->
                 CHOOSE kind \in route.body[f] : TRUE]]
Requests == UNION {Calls!Offered(role) : role \in Roles}
            \union {Spelled(Routes!Server[i]) : i \in DOMAIN Routes!Server}

Idle == x4 = 0 /\ x5 = 0 /\ x6 = 0
idle == <<x4, x5, x6>>

FunctionsInit ==
    /\ x7 = 0 /\ x8 = 0 /\ x9 = 0 /\ x10 = 0 /\ x11 = 0 /\ x12 = 0 /\ x13 = 0
    /\ \/ /\ scene = "calendar" /\ CalendarInit
          /\ x3 = 0 /\ Idle
       \/ /\ scene = "planning" /\ PlanningInit /\ Idle
       \/ /\ scene = "gathering" /\ GatheringInit
       \/ /\ scene = "scoring" /\ x1 = <<>> /\ x2 \in Answers /\ x3 \in BOOLEAN /\ Idle
       \/ /\ scene = "transferring" /\ x1 = <<>> /\ x2 = "none" /\ x3 \in FileScopes
          /\ x4 \in Targets /\ x5 \in {"replace", "merge"} /\ x6 = 0
       \/ /\ scene = "routing" /\ x1 = "anonymous" /\ x2 \in Requests /\ x3 = 0 /\ Idle
       \/ /\ scene = "sending" /\ x1 \in Cuts /\ x2 = {} /\ x3 = 0 /\ Idle
       \/ /\ scene = "arriving" /\ x1 \in Cuts /\ x2 = <<>> /\ x3 = 0 /\ Idle

FunctionsNext ==
    /\ UNCHANGED <<scene, x7, x8, x9, x10, x11, x12, x13>>
    /\ \/ /\ scene = "calendar" /\ CalendarNext
          /\ UNCHANGED <<x3, idle>>
       \/ /\ scene = "planning" /\ PlanningNext
          /\ UNCHANGED idle
       \/ /\ scene = "gathering" /\ GatheringNext
       \/ /\ scene = "scoring" /\ ScoringNext
          /\ UNCHANGED idle
       \/ /\ scene = "transferring" /\ TransferNext
          /\ UNCHANGED x6
       \/ /\ scene = "routing"
          /\ x1' \in {role \in Roles :
                       Routes!ROLE_ORDER[role] = Routes!ROLE_ORDER[x1] + 1}
          /\ UNCHANGED <<x2, x3, idle>>
       \/ /\ scene = "sending" /\ SendingNext
          /\ UNCHANGED <<x3, idle>>
       \/ /\ scene = "arriving" /\ ArrivingNext
          /\ UNCHANGED <<x3, idle>>

PagesAndFunctions == (Init \/ FunctionsInit) /\ [][Next \/ FunctionsNext]_vars

------------------------------------------------------------------------------
(* Properties: of the functions, on the inputs of their scene. *)

\* The period of an instant holds it, is that of its own start, meets the next
\* one, and its start comes back from its text; in every zone, whichever way the
\* clocks turn, except next to a midnight that was skipped
\* (period-boundary.ts:85).
PeriodsTile ==
    scene = "calendar" =>
        \A period \in RefreshPeriods :
            LET r == PeriodRange(period, x2, x1)
                \* 23:00 in Havana, one hour before the clocks skip midnight
                skipped == UTC(2026, 3, 8, 4)
            IN  \/ x1 = "America/Havana" /\ skipped \in {r.start, r.end}
                \/ /\ WallClock(r.start, x1).hour = 0
                   /\ r.start <= x2 /\ x2 < r.end
                   /\ PeriodRange(period, r.start, x1) = r
                   /\ PeriodRange(period, r.end - 1, x1) = r
                   /\ ParseInput(FormatIso(r.start, x1), x1) = r.start
                   /\ ParseInput([wall |-> WallClock(r.start, x1),
                                       offset |-> NoOffset], x1) = r.start

\* What the tick, the summaries and the refresh take as closed is over, reaches
\* up to the running period and is as long as was asked
\* (evaluation-tick-runner.service.ts:134, recent-deletion-coordinates.ts:44).
WindowsAreClosed ==
    scene = "calendar" /\ x1 = KST =>
        /\ \A period \in RefreshPeriods, count \in 1..3 :
            LET w == ClosedWindow(period, count, x2)
                starts == PeriodStarts(period, w)
            IN  /\ Len(starts) = count /\ starts[1] = w.start
                /\ \A i \in 1..count : IsPeriodEvaluable(period, starts[i], x2)
                /\ ~IsPeriodEvaluable(period, w.end, x2)
                /\ SummaryDueStart(period, x2) = starts[count]
        /\ \A days \in 1..3 :
            LET w == ClosedDaysWindow(x2, days)
            IN  w.end - w.start = 24 * days /\ w = ClosedWindow("day", days, x2)

\* A backfill's weeks follow one another without a gap and end with the running
\* one (backfill-plan.ts:57).
BackfillWeeksTile ==
    scene = "calendar" /\ x1 = KST =>
        \A weeks \in 1..3 :
            LET plan == BackfillPlan(x2, weeks)
            IN  /\ plan[weeks].start <= x2 /\ x2 < plan[weeks].end
                /\ \A i \in 1..weeks : RangeOf("week", plan[i].start) = plan[i]
                /\ \A i \in 2..weeks : plan[i].start = plan[i - 1].end

\* Periods, the windows of closed ones and the weeks of a backfill cover time
\* without gap or overlap.
PeriodsTileTime == PeriodsTile /\ WindowsAreClosed /\ BackfillWeeksTile

PlanNow(rows) == ComposePlan(Roster, "day", AskedRange(x1), rows)
\* The first two requests have the fates that are given, the others are stored.
FatesOf(requests, given) ==
    [q \in Elements(requests) |->
        LET i == CHOOSE j \in DOMAIN requests : requests[j] = q
        IN  IF i \in DOMAIN given THEN given[i] ELSE "created"]
Coordinates(requests) == {ToContext(q) : q \in requests}
AddsUp(counts, total) ==
    /\ counts.totalCount = total
    /\ counts.evaluatedCount + counts.skippedCount + counts.failedCount = total
OwedAfter(rows, owed) ==
    /\ Coordinates(Elements(FillRequests(PlanNow(x2 \union rows)))) = owed
    /\ rows \intersect x2 = {}
OwesOnlyFailed(fates, outcomes) ==
    /\ OwedAfter(Coordinates({o.request : o \in {p \in Elements(outcomes) :
                                                   Stored(fates[p.request])}}),
                 Coordinates({q \in DOMAIN fates : ~Stored(fates[q])}))
    /\ AddsUp(Aggregate(outcomes), Cardinality(DOMAIN fates))
LeavesOwed(plan, fates) ==
    OwesOnlyFailed(fates, RunBatch(FillRequests(plan), fates))

\* The rows that are there once the requests of a plan were run, as texts that
\* are read back, leave the gaps that failed or were left out and no others; no
\* coordinate is run twice, though a person is named twice, and the counts add
\* up (run-unevaluated-fill-batch.ts:179, dedupe-period-bridge-requests.ts:94).
RerunOwesOnlyFailed ==
    scene = "planning" =>
        LeavesOwed(PlanNow(x2), FatesOf(BridgeRequests(PlanNow(x2)), x3))

WindowsAsked(requests) ==
    [i \in DOMAIN requests |-> [person |-> requests[i].person,
                                window |-> CollectWindow(requests[i])]]
CollectedOnce(calls, asked) ==
    \A person \in {"p1", "p2"}, t \in asked.start .. (asked.end - 1) :
        Cardinality({i \in DOMAIN calls : /\ calls[i].person = person
                                          /\ calls[i].window.since <= t
                                          /\ t < calls[i].window.until})
        = IF Coordinate(person, "day", RangeOf("day", t).start) \in x2
          THEN 0 ELSE 1

\* A filling run collects each hour that was asked for and has no row yet, and
\* no hour twice for one person (build-unevaluated-fill-coordinate-runner.ts:147).
EachHourCollectedOnce ==
    scene = "planning" /\ x3 = <<>> =>
        CollectedOnce(WindowsAsked(BridgeRequests(PlanNow(x2))), AskedRange(x1))

RefreshesClosed(mine, plan, now) ==
    /\ \A c \in plan.coordinates : IsPeriodEvaluable(c.period, c.start, now)
    /\ Cardinality({c \in plan.coordinates : c.period = "day"}) = 3
    /\ Cardinality(mine) = Cardinality(plan.hadRow) + plan.openRowCount
    /\ mine \intersect plan.coordinates = plan.hadRow
RefreshesWindow(window, now) ==
    RefreshesClosed({c \in x2 : c.person = "p1" /\ window.start <= c.start
                                               /\ c.start < window.end},
                    PlanRecentRefresh("p1", {c \in x2 : c.person = "p1"}, window, now),
                    now)

\* The refresh evaluates each closed day of its window, and each row of it whose
\* period is over; rows whose period still runs are counted and left alone
\* (recent-deletion-coordinates.ts:83).
RefreshLeavesRunningPeriods ==
    scene = "planning" /\ x3 = <<>> =>
        RefreshesWindow(ClosedDaysWindow(x1 + 12, 3), x1 + 12)

\* What is run is what is owed: the gaps of a plan, once each, and what is over.
RunsOnlyWhatIsOwed == RerunOwesOnlyFailed /\ EachHourCollectedOnce /\ RefreshLeavesRunningPeriods

\* A dump is whole once the damaged chunks were fetched again, whichever they
\* are (export-dump-refetch-slice.ts:150).
RefetchRepairsDump ==
    scene = "sending" =>
        LET plan == PlanOf(x1)
            slices == Slice(Dump(x1), plan)
            failed == Reconcile(plan, [i \in DOMAIN plan |-> i \notin x2]).failed
            again == SelectSlices(slices, failed)
            Repaired(i) == IF i \in x2
                           THEN CHOOSE s \in {again[k] : k \in DOMAIN again} :
                                   s.chunk.index = i - 1
                           ELSE slices[i]
        IN  /\ Stream(slices) = Dump(x1)
            /\ SlicesMatch(slices, failed)
            /\ Len(again) = Cardinality(x2)
            /\ Stream([i \in DOMAIN plan |-> Repaired(i)]) = Dump(x1)

\* The ranges of a refetch are the damaged bytes, joined as far as they can be,
\* and what is said of their gaps, sizes and savings agrees with them
\* (export-chunk-refetch-coalesce.ts:241).
RangesAreDamagedBytes ==
    scene = "sending" =>
        LET plan == PlanOf(x1)
            reconcile == Reconcile(plan, [i \in DOMAIN plan |-> i \notin x2])
            ranges == Coalesce(reconcile)
            gaps == Gaps(ranges)
            fragments == Fragmentation(ranges)
            savings == Savings(ranges, reconcile)
            budget == RetryBudget(2, Cardinality(x2), Len(reconcile.failed))
            Bytes(r) == r.first .. r.last
        IN  /\ UNION {Bytes(ranges[k]) : k \in DOMAIN ranges}
                = UNION {Bytes(ByteRange(plan[i])) : i \in x2}
            /\ GapsAccept(ranges)
            /\ FragmentationAccepts(ranges, reconcile)
            /\ gaps.spanned = gaps.bytes + reconcile.refetchBytes
            /\ gaps.largest <= gaps.bytes /\ gaps.count <= gaps.bytes
            /\ fragments.smallest <= fragments.largest
            /\ savings.saved = Cardinality({i \in x2 : i + 1 \in x2})
            /\ savings.fullyCoalesced <=> gaps.spanned > 0 /\ gaps.count = 0
            /\ budget.canRetry <=> Cardinality(x2) = 1

\* Wherever a stream breaks off, what is resumed goes on at the next byte and
\* ends with the last; what is said of its progress is never refused as
\* contradictory (export-chunk-resume-plan.ts:173).
ResumeContinuesStream ==
    scene = "sending" /\ x2 = {} =>
        LET plan == PlanOf(x1)
            slices == Slice(Dump(x1), plan)
            Reached(k) == Progress(plan, x1.total, k)
            Resumed(k) == ResumePlan(plan, x1.total, k)
            series == Series([k \in 1..(Len(plan) + 1) |->
                                        Throughput(Reached(k - 1), k - 1)])
        IN  /\ \A k \in 0..Len(plan) :
                 /\ Stream(SubSeq(slices, 1, k)) \o
                      Stream(SelectSlices(slices, Resumed(k).remainingChunks))
                    = Dump(x1)
                 /\ Resumed(k).range = Reached(k).current
                 /\ Resumed(k).fromByte = Reached(k).transferred
                 /\ Resumed(k).needed <=> ~Reached(k).complete
                 /\ ThroughputAccepts(Reached(k))
            /\ series.complete /\ series.monotonic /\ series.stalledSamples = 0

\* Chunks that arrived, the doubled ones dropped and the missing ones sent again,
\* are the dump; and they are called complete only if each arrived just once
\* (import-chunk-retransmit-request.ts:236).
RetransmitCompletesDump ==
    scene = "arriving" =>
        LET plan == PlanOf(x1)
            order == ReassemblyOrder(x2, x1.total)
            kept == Dedup(x2).kept
            request == Retransmit(x2, Len(plan), x1.size)
            again == UNION {r.first .. r.last : r \in request.runs}
            sent == EntriesAt(plan, {i \in DOMAIN plan : plan[i].index \in again})
            all == kept \o sent
        IN  /\ DedupAccepts(x2)
            /\ plan # <<>> => ReassemblyOrder(all, x1.total).complete
            /\ request.estimatedBytes >= SizeOf(sent)
            /\ order.complete <=> /\ plan # <<>> /\ Len(x2) = Len(plan)
                                  /\ request.runs = {}
            /\ order.missing \subseteq again

\* An upload that is shown as complete is, unless chunks came twice, which it
\* does not tell from others (import-chunk-upload-progress.ts:250).
UploadCompleteUnlessDoubled ==
    scene = "arriving" /\ x1.total > 0 =>
        LET plan == PlanOf(x1)
            order == ReassemblyOrder(x2, x1.total)
            upload == UploadProgress(x2, x1.total, Len(plan))
        IN  /\ order.complete => upload.complete
            /\ upload.complete /\ ~order.complete => order.doubled # {}
            /\ upload.status = "stalled-incomplete"
                 => order.missing # {} \/ order.doubled # {}
            /\ upload.resumeOffset = order.nextOffset

\* Whatever is damaged or broken off of a dump that is sent, what is sent again makes
\* it whole, and what is said of its chunks agrees with that.
SentAgainIsDump == RefetchRepairsDump /\ RangesAreDamagedBytes /\ ResumeContinuesStream

\* In whatever order the chunks of a dump arrive, and however often, those that are
\* kept and those that are asked for again are the dump, and it is said to be whole
\* only if it is.
ArrivedAndAskedAreDump == RetransmitCompletesDump /\ UploadCompleteUnlessDoubled

\* What goes wrong of a dump on its way in chunks, at the one end or the other, is made
\* good by what is sent again, and nothing that is said of it says otherwise.
ResendingCompletesDump == SentAgainIsDump /\ ArrivedAndAskedAreDump

\* The definition of a name that counts, of what is listed or registered of it.
InForce(kind, n) ==
    IF n \in {x1[kind].list[i].name : i \in DOMAIN x1[kind].list}
    THEN {x1[kind].vars[n]}
    ELSE LET rows == {r \in x2 : r.kind = kind /\ r.active /\ r.key.name = n}
         IN  {[host |-> r.endpoint.host, orgs |-> r.orgs, repos |-> r.repos,
               spaces |-> r.spaces] : r \in {s \in rows : \A t \in rows : s.made <= t.made}}
ReposOf(c) ==
    IF c.repos = <<>>
    THEN {t \in Elements(c.orgs) \X {"x", "r", "q"} :
             \E w \in Listed : /\ w.on = <<c.host, <<"orgs", t[1]>>>>
                              /\ t[2] \in {w.raw.name, w.raw.fullName}}
    ELSE {t \in Elements(c.repos) : Len(t) = 2}
         \union {<<o, t[1]>> : o \in Elements(c.orgs), t \in {u \in Elements(c.repos) : Len(u) = 1}}
\* The person's works of the period, where they are looked for.
Meant(n) ==
    {w \in x4 : /\ Account(n, w.raw.author) \in x6
                /\ Since <= w.raw.at /\ w.raw.at < Until
                /\ \/ \E c \in InForce("GITHUB", n), e \in {"commits", "pulls", "issues"} :
                         \E r \in ReposOf(c) : w.on = <<c.host, <<"repos", r[1], r[2], e>>>>
                   \/ \E c \in InForce("CONFLUENCE", n) :
                         \E s \in Elements(c.spaces) : w.on = <<c.host, <<"space", s>>>>}
SameWork(v, w) ==
    \/ v.raw.sha # "" /\ v.raw.sha = w.raw.sha
    \/ v.raw.id # "" /\ v.raw.id = w.raw.id
    \/ v.raw.number # "" /\ v.raw.number = w.raw.number /\ v.on[2] = w.on[2]
StandsFor(a, w) ==
    \/ a.kind = "commit" /\ (a.id = w.raw.sha \/ (a.print # "" /\ a.author = w.raw.author
                                                  /\ a.print = w.raw.message.text))
    \/ a.kind \in {"pr", "issue"} /\ a.id = w.raw.number /\ a.place = <<w.on[2][2], w.on[2][3]>>
    \/ a.kind = "page" /\ a.id = w.raw.id
\* Two newer ones fill the pages, or two other repositories.
Capped(w) ==
    \/ Cardinality({v \in x4 : v.on = w.on /\ v.raw.at > w.raw.at}) >= 2
    \/ w.on[1] = "h1" /\ x1.GITHUB.vars["hub"].repos = <<>> /\ w.on[2][3] = "q"

\* It lacks a work of the person in the period only if an answer had more pages
\* than are read (github-adapter.service.ts:307), or the work is kept as another
\* copy, or another instance holds one of the same name (page-dedup.ts:42).
LacksOnlyCapped(activities) ==
    \A n \in Gather!Names(x6) : \A w \in Meant(n) :
        \/ \E a \in Elements(activities) : StandsFor(a, w)
        \/ Capped(w)
        \/ \E v \in x4 : v.on[1] # w.on[1] /\ SameWork(v, w)

\* The collection that is shown without being stored
\* (period-bridge-ephemeral.service.ts:118) finds the same, unless pages of two
\* sites have one id.
FoundAnyway(activities) ==
    \/ Gather!CollectAnyway(x6, Since, Until, x2, Net) = activities
    \/ \E v, w \in x4 : v.raw.id # "" /\ v.on[1] # w.on[1] /\ SameWork(v, w)

IsComplete(collection) ==
    collection.complete => /\ LacksOnlyCapped(collection.activities)
                           /\ FoundAnyway(collection.activities)

\* "Complete" (period-bridge-admin-persist.service.ts:220) is said of a collection
\* that has all it looked for, and the collection that may not refuse finds the
\* same.
CompleteIsComplete ==
    scene = "gathering" => IsComplete(Gather!CollectIfComplete(x6, Since, Until, x2, Net))

\* Activities that are collected twice are evaluated once
\* (evaluation-dedup.ts:118): neither a score nor a mark depends on the copies.
RepeatsChangeNothing ==
    scene = "scoring" => Evaluated(x1 \o x1) = Evaluated(x1)

\* What is stored of an evaluation is the same in whatever order the instances
\* answered, but for activities of one id and one time (evaluation-dedup.ts:84).
OrderMattersOnlyForTies ==
    scene = "scoring" =>
        LET back == [i \in DOMAIN x1 |-> x1[Len(x1) + 1 - i]]
            Result(activities) ==
                LET stored == MapResultsToAssessment(Evaluated(activities))
                IN  [stored EXCEPT !.contributions = Elements(@), !.narrative = Elements(@)]
        IN  \/ Result(back) = Result(x1)
            \/ \E a, b \in Elements(x1) : /\ a # b /\ a.at = b.at
                                          /\ Unit(a) = Unit(b)

\* A unit with a trivial title ends as contributing nothing, whatever of its
\* author's is lifted after (evaluation-notable-contribution-adjust.ts:225); and
\* what is lifted is never the worse for it.
FloorIsFinal ==
    scene = "scoring" =>
        LET results == Elements(Evaluated(x1))
            score(r) == Score(r.contribution)
        IN  \A r \in results :
                LET of == {a \in Elements(x1) : Unit(a) = r.unit}
                    first == CHOOSE a \in of : \A b \in of : a.at <= b.at
                IN  \/ \E a \in of : a # first /\ a.at = first.at
                    \/ IF first.titleLength <= 1 \/ x2 = "zero" THEN score(r) = 0
                       ELSE score(r) >= IF x2 = "medium" THEN 2 ELSE 1

\* Activities fall together in one unit only if an instance gave both the same
\* number (evaluation-input.mapper.ts:46).
UnitsSharedOnlyByNumber ==
    scene = "scoring" =>
        \/ Len(Evaluated(x1)) = Cardinality(Elements(x1))
        \/ \E a, b \in Elements(x1) : a # b /\ a.key = b.key /\ a.id = b.id

\* A score is of the work: copies, the order of answers and the lifting of its
\* author's other work do not change it, and two works share one only if they
\* have one number.
ScoresAreOfTheWork ==
    RepeatsChangeNothing /\ OrderMattersOnlyForTies /\ FloorIsFinal /\ UnitsSharedOnlyByNumber

\* What the previews of an export and of an import tell is what is downloaded and
\* what the calls of the restore count, if the rows stay as they were and nothing
\* cascades (export-job.service.ts:310, import-restore.service.ts:134).
PreviewsForetell ==
    scene = "transferring" /\ x2 = "none" =>
        LET preview == Transfer!PreviewSelection(x3, x1, [e \in Transfer!Entities |-> 2],
                                              [async |-> 3, chunk |-> 1])
            dump == DumpOf(x3, x1)
            plan == Transfer!BuildImportRestorePlan(x4, dump.records, x5)
            flow == preview.deliveryPlan.statusFlow
            told == Transfer!SummarizeRestorePlan(plan)
            run == Transfer!RunImportRestoreSteps(Transfer!GroupImportRestoreOperations(plan), x4)
        IN  /\ preview.selectedCount = dump.recordCount
            /\ preview.selectedCount + preview.excludedCount = Len(x1)
            /\ preview.perEntitySelected = dump.entityCounts
            /\ preview.sizeEstimate.estimatedBytes = 2 * dump.recordCount
            /\ preview.completionResult.selected = Transfer!BuildExportAuditEntry(dump).rowCount
            /\ Transfer!SummarizeImportImpact(dump.records) =
                  [totalRecords |-> preview.selectedCount, perEntity |-> preview.perEntitySelected,
                   instantRange |-> preview.summary.selected.instantRange]
            /\ \A i \in DOMAIN flow :
                  Transfer!DescribeExportJobStatus(flow[i]).next =
                      IF i = Len(flow) THEN "" ELSE flow[i + 1]
            /\ Transfer!BuildRestoreResult(told) =
                  [deleted |-> run.deleted, inserted |-> run.inserted, kept |-> told.kept.total]
            /\ Transfer!BuildImportAuditEntry(plan) =
                  [rowCount |-> run.inserted, deleted |-> run.deleted,
                   inserted |-> run.inserted, kept |-> told.kept.total]
            /\ run.inserted = preview.selectedCount
            /\ Len(run.table) = told.kept.total + told.inserted.total
            /\ Transfer!BuildRestoreConfirmation(told, x5).destructive
                  <=> x5 = "replace" /\ run.deleted > 0

\* What an export writes, an import of the same version reads: the columns it
\* allows, the counts it adds up and the checksum it computes are the export's
\* (import-dump-records-hydrate.ts:101, import-dump-validate.ts:144).
OwnDumpsAreRead ==
    scene = "transferring" /\ x2 = "none" =>
        LET dump == DumpOf(x3, x1)
            f == Transfer!ToFile(dump)
            read == Transfer!PrepareImportRestoreInput(f, {})
        IN  /\ read = [stage |-> "", records |-> dump.records]
            /\ Transfer!SummarizeImportPreflight(
                    Transfer!ValidateImportDumpStructure(f),
                    Transfer!CheckSchemaVersionCompat(f.schemaVersion, {}),
                    Transfer!ValidateImportDumpSize(read.records, dump.recordCount, dump.entityCounts),
                    Transfer!VerifyDumpChecksum(Transfer!AsDump(f, read.records), Transfer!Canonicalize(dump)))

\* A file whose preview was answered has calls that can be built, in an order
\* that is accepted; but a record without a column passes every gate of the
\* preview and fails the restore (import-restore-insert-rows.ts:148).
PreviewedFilesCanBePut ==
    scene = "transferring" =>
        LET read == Transfer!PrepareImportRestoreInput(Damaged(Transfer!ToFile(DumpOf(x3, x1)), x2), {})
            calls == Transfer!GroupImportRestoreOperations(
                        Transfer!BuildImportRestorePlan(x4, read.records, x5))
        IN  read.stage = "" =>
                /\ Transfer!StepsAccept(calls)
                /\ \/ \A i \in DOMAIN calls : Transfer!StepCallBuilds(calls[i])
                   \/ \E i \in DOMAIN read.records : read.records[i].fields = {}

\* A file that passes the gates and the checksum of a dump has the records of that
\* dump, in their order; what is in their columns no gate compares
\* (export-dump-checksum.ts:126).
VerifiedFilesAreTheDumpSent ==
    scene = "transferring" =>
        LET dump == DumpOf(x3, x1)
            f == Damaged(Transfer!ToFile(dump), x2)
            read == Transfer!PrepareImportRestoreInput(f, {})
            keys(records) == [i \in DOMAIN records |-> Transfer!Key(records[i])]
        IN  /\ read.stage = ""
            /\ Transfer!VerifyDumpChecksum(Transfer!AsDump(f, read.records), Transfer!Canonicalize(dump))
            => keys(read.records) = keys(dump.records)

\* The conflicts that are reported of a merge are the rows its plan deletes
\* (import-merge-conflict.ts:97, import-restore-plan.ts:72).
ConflictsAreTheDeletions ==
    scene = "transferring" =>
        LET incoming == Transfer!SelectExportRecords(x3, x1).selected
            conflicts == Transfer!DetectImportMergeConflicts(x4, incoming)
            plan == Transfer!BuildImportRestorePlan(x4, incoming, "merge")
        IN  /\ Gather!MapThenSumSet(LAMBDA c : c.existingCount, conflicts) = Len(plan.toDelete)
            /\ {c.key : c \in conflicts} = Transfer!Keys(plan.toDelete)

\* What is said of a transfer before it is made is what is made of it, of an own
\* file and of a damaged one.
TransfersAreAsAnnounced ==
    /\ PreviewsForetell /\ OwnDumpsAreRead /\ PreviewedFilesCanBePut
    /\ VerifiedFilesAreTheDumpSent /\ ConflictsAreTheDeletions

\* Of the calls the page offers a role, the server refuses none but the
\* creation of an export: paths, fields and tiers are written twice, and each
\* side is tested without the other (group.controller.ts:96, web/src/api/apiClient.ts:61).
RefusedCallsAreExports ==
    scene = "routing" /\ x2 \in Calls!Offered(x1) =>
        (~Routes!Serves(x1, x2) <=> x2.method = "POST" /\ x2.path = <<"admin", "export">>)

\* A change that the page hides from a role while it shows it to others is
\* refused by the server, unless a visitor who is signed out may ask for it
\* (roles.guard.ts:41, AdminView.tsx:433).
HiddenChangesAreRefused ==
    scene = "routing" /\ x2.method # "GET" /\ x2.path[1] # "auth" =>
        \/ \A role \in Roles : x2 \notin Calls!Offered(role)
        \/ x2 \in Calls!Offered(x1) \union Calls!Offered("anonymous")
        \/ ~Routes!Serves(x1, x2)

\* No route is taken by another that is declared before it, and each serves
\* whom it admits (llm-provider-config.controller.ts:123, export.controller.ts:183).
EveryRouteAnswers ==
    scene = "routing" =>
        \A i \in DOMAIN Routes!Server :
            x2 = Spelled(Routes!Server[i]) =>
                /\ Routes!Taken(x2) = i
                /\ Routes!Serves(x1, x2) <=> Routes!Admits(Routes!Server[i], x1)

\* The page and the server agree on who may ask what.
PageAndServerAgree == RefusedCallsAreExports /\ HiddenChangesAreRefused /\ EveryRouteAnswers
==============================================================================
