---------------------------- MODULE FillPlanning ----------------------------
(***************************************************************************)
(* Which coordinates a filling run is asked to evaluate, how they travel   *)
(* as texts and come back as coordinates, what their outcomes are counted  *)
(* as, and which coordinates the refresh of recent days evaluates again.   *)
(* A coordinate is a person, a period, a scope and the instant its period  *)
(* starts.                                                                 *)
(***************************************************************************)
EXTENDS KstPeriods, Entries, FiniteSets, SequencesExt

Coordinate(person, period, start) ==
    [person |-> person, period |-> period, scope |-> "aggregate", start |-> start]

-----------------------------------------------------------------------------
(* The plan.                                                               *)

\* The starts of the periods that meet the range, the earliest first: from the
\* period of the range's start on, while a period starts before its end.
Anchors(period, first, longest) ==
    LET anchor[n \in 0..longest] ==
            IF n = 0 THEN RangeOf(period, first).start
            ELSE RangeOf(period, anchor[n - 1]).end
    IN  anchor
StartsBefore(end, anchor) ==
    LET count == CHOOSE n \in DOMAIN anchor :
                    /\ anchor[n] >= end
                    /\ \A m \in 0..(n - 1) : anchor[m] < end
    IN  [i \in 1..count |-> anchor[i - 1]]
PeriodStarts(period, range) ==
    StartsBefore(range.end, Anchors(period, range.start,
                                    ((range.end - range.start) \div 24) + 2))

\* Every start with every person, in the order they were asked for.
Intended(persons, period, range) ==
    IF persons = <<>> \/ range.start >= range.end THEN <<>>
    ELSE LET starts == PeriodStarts(period, range)
             n == Len(persons)
         IN  [i \in 1..(Len(starts) * n) |->
                 Coordinate(persons[((i - 1) % n) + 1], period,
                            starts[((i - 1) \div n) + 1])]

SelectUnevaluated(intended, persisted) ==
    EntriesAt(intended, {i \in DOMAIN intended : intended[i] \notin persisted})

\* What comes up in a sequence, each where it comes up first.
FirstSeen(seq) ==
    EntriesAt(seq, {i \in DOMAIN seq : \A j \in 1..(i - 1) : seq[j] # seq[i]})

BatchPlan(gaps) ==
    LET persons == FirstSeen([i \in DOMAIN gaps |-> gaps[i].person])
    IN  [batches |->
            [i \in DOMAIN persons |->
                [person |-> persons[i],
                 periods |-> EntriesAt(gaps, {j \in DOMAIN gaps : gaps[j].person = persons[i]})]],
         totalGapCount |-> Len(gaps),
         personCount |-> Len(persons)]

ComposePlan(persons, period, range, persisted) ==
    BatchPlan(SelectUnevaluated(Intended(persons, period, range), persisted))

-----------------------------------------------------------------------------
(* The plan as requests, and the requests as coordinates again.            *)

Text(c) == [person |-> c.person, period |-> c.period, scope |-> c.scope,
            text |-> FormatIso(c.start, KST)]

FillRequests(plan) ==
    FlattenSeq([i \in DOMAIN plan.batches |->
                   [j \in DOMAIN plan.batches[i].periods |->
                       Text(plan.batches[i].periods[j])]])

BridgeRequests(plan) == FirstSeen(FillRequests(plan))

\* A request without an offset is read by Date itself: as of UTC.
ToContext(request) ==
    LET w == request.text.wall
        offset == IF request.text.offset = NoOffset THEN 0 ELSE request.text.offset
    IN  [person |-> request.person, period |-> request.period,
         scope |-> request.scope,
         start |-> UTC(w.year, w.month, w.day, w.hour) - offset]

\* The window a coordinate's activities are taken from.
CollectWindow(request) ==
    LET c == ToContext(request)
    IN  [since |-> c.start, until |-> RangeOf(c.period, c.start).end]

-----------------------------------------------------------------------------
(* Outcomes of a run.                                                      *)

\* What evaluating a coordinate may come to: a row with contributions, a row
\* without, the row that was there, nothing as the collecting was incomplete,
\* an error of the evaluation or of the person's lookup.
Fates == {"created", "empty", "existing", "incomplete", "error", "unresolved"}
Stored(fate) == fate \in {"created", "empty", "existing"}

OutcomeOf(request, fate) ==
    [request |-> request,
     status |-> CASE fate = "created" -> "evaluated"
                  [] fate \in {"empty", "existing", "incomplete"} -> "skipped"
                  [] fate \in {"error", "unresolved"} -> "failed",
     reason |-> CASE fate \in {"created", "empty", "existing"} -> "none"
                  [] fate = "incomplete" -> "collection-incomplete"
                  [] fate \in {"error", "unresolved"} -> "message"]

CountOf(outcomes, status) ==
    Cardinality({i \in DOMAIN outcomes : outcomes[i].status = status})

Aggregate(outcomes) ==
    [totalCount |-> Len(outcomes),
     evaluatedCount |-> CountOf(outcomes, "evaluated"),
     skippedCount |-> CountOf(outcomes, "skipped"),
     failedCount |-> CountOf(outcomes, "failed")]

\* Mutant of RunBatch: a request of an unknown person ends the run.
RunBatch_StopsAtFailure(requests, fates) ==
    LET deduped == FirstSeen(requests)
        run == {i \in DOMAIN deduped :
                  \A j \in 1..(i - 1) : fates[deduped[j]] # "unresolved"}
    IN  [i \in 1..Cardinality(run) |-> OutcomeOf(deduped[i], fates[deduped[i]])]

\* A run over requests, duplicates dropped; fates is by request.
RunBatch(requests, fates) ==
    LET deduped == FirstSeen(requests)
    IN  [i \in DOMAIN deduped |-> OutcomeOf(deduped[i], fates[deduped[i]])]

-----------------------------------------------------------------------------
(* The refresh of recent days.                                             *)

RefreshPeriods == {"day", "week", "month"}

\* The periods that lie in the window and are over: the cursor goes from one
\* period to the next, the first may have begun before the window.
ClosedStarts(period, window, now) ==
    LET cursors == {window.start} \union ToSet(PeriodStarts(period, window))
        ranges == {RangeOf(period, t) : t \in cursors}
    IN  {r.start : r \in {q \in ranges : q.start >= window.start /\ q.end <= now}}

\* Every closed period of the window, and every closed row that starts in it;
\* rows whose period still runs are counted and kept.
PlanRecentRefresh(person, stored, window, now) ==
    LET closed == UNION {{Coordinate(person, period, t) :
                            t \in ClosedStarts(period, window, now)} :
                         period \in RefreshPeriods}
        within == {c \in stored : c.start \in InWindow(window, {c.start})}
        open == {c \in within : RangeOf(c.period, c.start).end > now}
    IN  [coordinates |-> closed \union (within \ open),
         hadRow |-> within \ open,
         openRowCount |-> Cardinality(open)]
=============================================================================
