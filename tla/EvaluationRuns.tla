--------------------------- MODULE EvaluationRuns ----------------------------
(***************************************************************************)
(* Every run of one server process that evaluates or collects, and how     *)
(* they share the event loop: the cron tick                                *)
(* (src/src/scheduling/evaluation-tick-runner.service.ts), the recent-days *)
(* refresh (src/src/scheduling/recent-deletion-runner.service.ts), the     *)
(* HTTP handlers that evaluate, fill or collect, the run-status counter    *)
(* they all report to, and application shutdown.                           *)
(*                                                                         *)
(* JavaScript runs one continuation at a time.  An action is therefore the *)
(* code from one await's resumption to the next await, and a slot of Execs *)
(* is one async call in flight.  `ctl' holds where each call waits, `loc'  *)
(* its local variables; the other variables are fields of the services.    *)
(***************************************************************************)
EXTENDS RunStatus

CONSTANTS
    Execs,      \* async calls that may be in flight at once
    None,       \* the null of `current'
    Persons,
    Windows,    \* number of CLOSED_WINDOWS entries (day, week, month)
    SlotsOf,    \* window -> the (period, periodStart) slots it spans
    MaxClock,   \* bound: the clock's last value
    MaxOpen     \* bound: open-period rows a refresh leaves alone

ASSUME ExecsAssumption == IsFiniteSet(Execs) /\ None \notin Execs
ASSUME WindowsAssumption == Windows \in Nat \ {0}
ASSUME SlotsAssumption ==
    /\ DOMAIN SlotsOf = 1..Windows
    /\ \A w \in 1..Windows : IsFiniteSet(SlotsOf[w])
ASSUME PersonsAssumption == IsFiniteSet(Persons)
ASSUME BoundsAssumption == MaxClock \in Nat /\ MaxOpen \in Nat

VARIABLES
    ctl,             \* exec -> kind of call, await it is at, begin time
    loc,             \* exec -> its local variables
    tickCurrent,     \* EvaluationTickRunnerService.current
    tickStopping,    \* EvaluationTickRunnerService.stopping
    tally,           \* EvaluationTickRunnerService.tally
    refreshCurrent,  \* RecentDeletionRunnerService.current
    refreshStopping, \* RecentDeletionRunnerService.stopping
    results          \* RecentDeletionRunnerService.results

statusVars == <<clock, startedAtMs, lastEvaluationRun>>
tickVars == <<tickCurrent, tickStopping, tally>>
refreshVars == <<refreshCurrent, refreshStopping, results>>
vars == <<statusVars, ctl, loc, tickVars, refreshVars>>

Slots == UNION {SlotsOf[w] : w \in 1..Windows}

EmptyTally == [evaluated |-> 0, skipped |-> 0, failed |-> 0, incomplete |-> {}]
EmptyCount == [deleted |-> 0, refreshed |-> 0, notRefreshed |-> 0]
NoResult == [finished |-> FALSE]
Idle == [kind |-> "none", at |-> "none", began |-> 0]

\* Locals at the start of a call.  `owed' is a history variable: how many
\* outcomes the call's plan obliges its report to mention.
Fresh ==
    [active |-> {}, window |-> 1, gaps |-> [p \in Persons |-> {}],
     person |-> None, identified |-> FALSE, slots |-> {}, hadRow |-> {},
     tally |-> EmptyTally, count |-> EmptyCount, owed |-> 0]

Coordinates(gaps) ==
    {c \in Persons \X Slots : c[2] \in gaps[c[1]]}

AxisOf(kind) == IF kind = "collect" THEN "collection" ELSE "evaluation"

\* Begun and not yet ended: between runStatus.begin and runStatus.end.
Live(e) == ctl[e].at \notin {"none", "lookup", "settled"}

Goes(e, at) == ctl' = [ctl EXCEPT ![e].at = at]
Frees(e) == /\ ctl' = [ctl EXCEPT ![e] = Idle]
            /\ loc' = [loc EXCEPT ![e] = Fresh]

------------------------------------------------------------------------------
(* The cron tick. *)

\* Mutant of StartTick: an overlapping call starts a second execution.
StartTick_Overlaps(e) ==
    /\ ctl[e].at = "none"
    /\ ~tickStopping
    /\ tickCurrent' = e
    /\ tally' = EmptyTally
    /\ Begin("evaluation")
    /\ ctl' = [ctl EXCEPT ![e] = [kind |-> "tick", at |-> "resolving",
                                  began |-> clock]]
    /\ UNCHANGED <<clock, lastEvaluationRun, loc, tickStopping, refreshVars>>

\* run(): the cron callback and POST /schedules/trigger both land here.  When
\* the app is stopping or a tick is in flight the call changes nothing.
StartTick(e) ==
    /\ ctl[e].at = "none"
    /\ ~tickStopping
    /\ tickCurrent = None
    /\ tickCurrent' = e
    /\ tally' = EmptyTally
    /\ Begin("evaluation")
    /\ ctl' = [ctl EXCEPT ![e] = [kind |-> "tick", at |-> "resolving",
                                  began |-> clock]]
    /\ UNCHANGED <<clock, lastEvaluationRun, loc, tickStopping, refreshVars>>

TickAt(e, at) == ctl[e].kind = "tick" /\ ctl[e].at = at

\* The finally block of execute(); `current' is cleared one microtask later.
FinishTick(e, t, owed) ==
    /\ tally' = t
    /\ End("evaluation")
    /\ RecordEvaluationRun("tick", t)
    /\ Goes(e, "settled")
    /\ loc' = [loc EXCEPT ![e] = [Fresh EXCEPT !.owed = owed]]

\* Mutant of AbortTick: end() is not in the finally block.
AbortTick_NoEnd(e) ==
    /\ tally' = [tally EXCEPT !.failed = @ + 1]
    /\ RecordEvaluationRun("tick", tally')
    /\ Goes(e, "settled")
    /\ UNCHANGED <<startedAtMs, loc>>

\* catch in execute(): the failure that ends the run is itself counted.
AbortTick(e) ==
    FinishTick(e, [tally EXCEPT !.failed = @ + 1], loc[e].owed + 1)

\* The loop of execute() over the persons that have gaps.
NextPerson(e, gaps, t, owed) ==
    LET waiting == {p \in Persons : gaps[p] # {}} IN
    \/ /\ waiting = {} \/ tickStopping
       /\ FinishTick(e, t, owed)
    \/ \E p \in waiting :
        /\ ~tickStopping
        /\ tally' = t
        /\ Goes(e, "person")
        /\ loc' = [loc EXCEPT ![e] =
                    [@ EXCEPT !.person = p, !.slots = gaps[p], !.owed = owed,
                              !.gaps = [gaps EXCEPT ![p] = {}]]]
        /\ UNCHANGED <<startedAtMs, lastEvaluationRun>>

TickUnchanged == UNCHANGED <<clock, tickCurrent, tickStopping, refreshVars>>

\* resolveDefaultModelId settles.
TickResolve(e) ==
    /\ TickAt(e, "resolving")
    /\ \/ AbortTick(e)
       \/ /\ Goes(e, "listing")
          /\ UNCHANGED <<startedAtMs, lastEvaluationRun, loc, tally>>
    /\ TickUnchanged

\* persons.findActive settles.
TickList(e) ==
    /\ TickAt(e, "listing")
    /\ \/ AbortTick(e)
       \/ FinishTick(e, tally, loc[e].owed)      \* no active person
       \/ \E active \in SUBSET Persons \ {{}} :
            /\ Goes(e, "planning")
            /\ loc' = [loc EXCEPT ![e].active = active]
            /\ UNCHANGED <<startedAtMs, lastEvaluationRun, tally>>
    /\ TickUnchanged

\* Mutant of PlanWindow: the window loop runs one turn too many.
PlanWindow_OneTooMany(e, gaps, t, owed) ==
    \/ /\ loc[e].window <= Windows
       /\ tally' = t
       /\ loc' = [loc EXCEPT ![e].window = @ + 1, ![e].gaps = gaps,
                             ![e].owed = owed]
       /\ UNCHANGED <<startedAtMs, lastEvaluationRun, ctl>>
    \/ /\ loc[e].window > Windows
       /\ NextPerson(e, gaps, t, owed)

\* One window of planGaps settles; a failed plan gives up that window only.
PlanWindow(e, gaps, t, owed) ==
    \/ /\ loc[e].window < Windows
       /\ tally' = t
       /\ loc' = [loc EXCEPT ![e].window = @ + 1, ![e].gaps = gaps,
                             ![e].owed = owed]
       /\ UNCHANGED <<startedAtMs, lastEvaluationRun, ctl>>
    \/ /\ loc[e].window = Windows
       /\ NextPerson(e, gaps, t, owed)

TickPlan(e) ==
    /\ TickAt(e, "planning")
    /\ \/ \E found \in [loc[e].active -> SUBSET SlotsOf[loc[e].window]] :
            LET gaps == [p \in Persons |->
                            IF p \in loc[e].active
                            THEN loc[e].gaps[p] \union found[p] ELSE {}]
            IN  PlanWindow(e, gaps, tally, Cardinality(Coordinates(gaps))
                                             + tally.failed)
       \/ PlanWindow(e, loc[e].gaps, [tally EXCEPT !.failed = @ + 1],
                     loc[e].owed + 1)
    /\ TickUnchanged

\* Mutant of TickPerson: the stop flag is not read again after the lookup.
TickPerson_IgnoresStop(e) ==
    /\ TickAt(e, "person")
    /\ LET n == Cardinality(loc[e].slots)
           Give(t) == NextPerson(e, loc[e].gaps, t, loc[e].owed)
       IN  \/ Give([tally EXCEPT !.failed = @ + n])
           \/ Give([tally EXCEPT !.skipped = @ + n])
           \/ /\ Goes(e, "coordinate")
              /\ UNCHANGED <<startedAtMs, lastEvaluationRun, loc, tally>>
    /\ TickUnchanged

\* findByIdWithIdentities settles in fillPerson.
TickPerson(e) ==
    /\ TickAt(e, "person")
    /\ LET n == Cardinality(loc[e].slots)
           Give(t) == NextPerson(e, loc[e].gaps, t, loc[e].owed)
       IN  \/ Give([tally EXCEPT !.failed = @ + n])     \* lookup failed
           \/ Give([tally EXCEPT !.skipped = @ + n])    \* no service identity
           \/ /\ tickStopping
              /\ FinishTick(e, tally, loc[e].owed)
           \/ /\ ~tickStopping
              /\ Goes(e, "coordinate")
              /\ UNCHANGED <<startedAtMs, lastEvaluationRun, loc, tally>>
    /\ TickUnchanged

CountOutcome(t, outcome, c) ==
    CASE outcome = "evaluated"  -> [t EXCEPT !.evaluated = @ + 1]
      [] outcome = "skipped"    -> [t EXCEPT !.skipped = @ + 1]
      [] outcome = "failed"     -> [t EXCEPT !.failed = @ + 1]
      [] outcome = "incomplete" -> [t EXCEPT !.skipped = @ + 1,
                                             !.incomplete = @ \union {c}]

\* generateAndPersistIfCollected settles for one coordinate of the person.
TickCoordinate(e) ==
    /\ TickAt(e, "coordinate")
    /\ \E s \in loc[e].slots, outcome \in {"evaluated", "incomplete", "failed"} :
        LET t == CountOutcome(tally, outcome, <<loc[e].person, s>>)
            rest == loc[e].slots \ {s}
        IN  \/ /\ rest = {}
               /\ NextPerson(e, loc[e].gaps, t, loc[e].owed)
            \/ /\ rest # {} /\ tickStopping
               /\ FinishTick(e, t, loc[e].owed)
            \/ /\ rest # {} /\ ~tickStopping
               /\ tally' = t
               /\ loc' = [loc EXCEPT ![e].slots = rest]
               /\ UNCHANGED <<startedAtMs, lastEvaluationRun, ctl>>
    /\ TickUnchanged

\* Mutant of ClearTick: `current' is never cleared.
ClearTick_KeepsCurrent(e) ==
    /\ TickAt(e, "settled")
    /\ Frees(e)
    /\ UNCHANGED <<statusVars, tickVars, refreshVars>>

\* execute().finally(() => current = null).
ClearTick(e) ==
    /\ TickAt(e, "settled")
    /\ tickCurrent' = None
    /\ Frees(e)
    /\ UNCHANGED <<statusVars, tickStopping, tally, refreshVars>>

------------------------------------------------------------------------------
(* The recent-days refresh. *)

RefreshAt(e, at) == ctl[e].kind = "refresh" /\ ctl[e].at = at
Untouched == UNCHANGED <<clock, lastEvaluationRun, tickVars>>

\* startRefresh up to its await: the day count is valid, the person is read.
RequestRefresh(e, p) ==
    /\ ctl[e].at = "none"
    /\ ctl' = [ctl EXCEPT ![e] = [kind |-> "refresh", at |-> "lookup",
                                  began |-> 0]]
    /\ loc' = [loc EXCEPT ![e].person = p]
    /\ UNCHANGED <<statusVars, tickVars, refreshVars>>

\* Mutant of MayRefresh: only the runner's own state is looked at.
MayRefresh_OwnRunOnly == ~refreshStopping /\ refreshCurrent = None

\* The conditions re-read after the await.
MayRefresh == /\ ~refreshStopping
              /\ refreshCurrent = None
              /\ ~Active("evaluation")

\* 409, or the person does not exist.
RejectRefresh(e) ==
    /\ RefreshAt(e, "lookup")
    /\ Frees(e)
    /\ UNCHANGED <<statusVars, tickVars, refreshVars>>

\* Mutant of AdmitRefresh: the previous result is not deleted.
AdmitRefresh_KeepsResult(e) ==
    /\ RefreshAt(e, "lookup")
    /\ MayRefresh
    /\ refreshCurrent' = e
    /\ Begin("evaluation")
    /\ ctl' = [ctl EXCEPT ![e] = [kind |-> "refresh", at |-> "resolving",
                                  began |-> clock]]
    /\ \E identified \in BOOLEAN : loc' = [loc EXCEPT ![e].identified = identified]
    /\ UNCHANGED <<refreshStopping, results>> /\ Untouched

AdmitRefresh(e) ==
    /\ RefreshAt(e, "lookup")
    /\ MayRefresh
    /\ refreshCurrent' = e
    /\ results' = [results EXCEPT ![loc[e].person] = NoResult]
    /\ Begin("evaluation")
    /\ ctl' = [ctl EXCEPT ![e] = [kind |-> "refresh", at |-> "resolving",
                                  began |-> clock]]
    /\ \E identified \in BOOLEAN : loc' = [loc EXCEPT ![e].identified = identified]
    /\ UNCHANGED <<refreshStopping>> /\ Untouched

\* The finally block of executeRefresh.
FinishRefresh(e, count, aborted, owed) ==
    /\ End("evaluation")
    /\ results' = [results EXCEPT ![loc[e].person] =
                    [finished |-> TRUE, count |-> count, aborted |-> aborted]]
    /\ Goes(e, "settled")
    /\ loc' = [loc EXCEPT ![e].owed = owed, ![e].slots = {}, ![e].hadRow = {}]

\* resolveDefaultConfigId settles.
RefreshResolve(e) ==
    /\ RefreshAt(e, "resolving")
    /\ \/ FinishRefresh(e, EmptyCount, TRUE, 0)
       \/ /\ Goes(e, "reading")
          /\ UNCHANGED <<startedAtMs, results, loc>>
    /\ UNCHANGED <<refreshCurrent, refreshStopping>> /\ Untouched

\* Mutant of NextRefresh: the coordinate the stop is noticed at is not counted.
NextRefresh_StopLosesOne(e, slots, hadRow, count, owed) ==
    LET n == Cardinality(slots) IN
    \/ /\ slots = {}
       /\ FinishRefresh(e, count, FALSE, owed)
    \/ /\ slots # {} /\ refreshStopping
       /\ FinishRefresh(e, [count EXCEPT !.notRefreshed = @ + n - 1], TRUE, owed)
    \/ /\ slots # {} /\ ~refreshStopping
       /\ Goes(e, "coordinate")
       /\ loc' = [loc EXCEPT ![e] = [@ EXCEPT !.slots = slots, !.owed = owed,
                                     !.hadRow = hadRow, !.count = count]]
       /\ UNCHANGED <<startedAtMs, results>>

\* One turn of the coordinate loop.
NextRefresh(e, slots, hadRow, count, owed) ==
    LET n == Cardinality(slots) IN
    \/ /\ slots = {}
       /\ FinishRefresh(e, count, FALSE, owed)
    \/ /\ slots # {} /\ refreshStopping
       /\ FinishRefresh(e, [count EXCEPT !.notRefreshed = @ + n], TRUE, owed)
    \/ /\ slots # {} /\ ~refreshStopping
       /\ Goes(e, "coordinate")
       /\ loc' = [loc EXCEPT ![e] = [@ EXCEPT !.slots = slots, !.owed = owed,
                                     !.hadRow = hadRow, !.count = count]]
       /\ UNCHANGED <<startedAtMs, results>>

\* readForPersons settles and planRecentRefresh lists the coordinates.
RefreshPlan(e) ==
    /\ RefreshAt(e, "reading")
    /\ \/ FinishRefresh(e, EmptyCount, TRUE, 0)
       \/ \E slots \in SUBSET Slots, openRows \in 0..MaxOpen :
          \E hadRow \in SUBSET slots :
            LET n == Cardinality(slots)
                kept == [EmptyCount EXCEPT !.notRefreshed = openRows]
            IN  \/ /\ ~loc[e].identified
                   /\ FinishRefresh(e, [kept EXCEPT !.notRefreshed = @ + n],
                                    FALSE, openRows + n)
                \/ /\ loc[e].identified
                   /\ NextRefresh(e, slots, hadRow, kept, openRows + n)
    /\ UNCHANGED <<refreshCurrent, refreshStopping>> /\ Untouched

\* refreshCoordinate settles: replaced, or its old row left in place.
RefreshCoordinate(e) ==
    /\ RefreshAt(e, "coordinate")
    /\ \E s \in loc[e].slots, replaced \in BOOLEAN :
        LET c == loc[e].count
            count == IF replaced
                     THEN [c EXCEPT !.refreshed = @ + 1,
                                    !.deleted = @ + (IF s \in loc[e].hadRow
                                                     THEN 1 ELSE 0)]
                     ELSE [c EXCEPT !.notRefreshed = @ + 1]
        IN  NextRefresh(e, loc[e].slots \ {s}, loc[e].hadRow, count, loc[e].owed)
    /\ UNCHANGED <<refreshCurrent, refreshStopping>> /\ Untouched

ClearRefresh(e) ==
    /\ RefreshAt(e, "settled")
    /\ refreshCurrent' = None
    /\ Frees(e)
    /\ UNCHANGED <<statusVars, tickVars, refreshStopping, results>>

------------------------------------------------------------------------------
(* HTTP handlers that bracket their work with begin / end. *)

Elsewhere == UNCHANGED <<clock, tickVars, refreshVars>>

\* POST evaluate, period and summary (evaluation axis), POST collect.
StartRequest(e, kind) ==
    /\ ctl[e].at = "none"
    /\ Begin(AxisOf(kind))
    /\ ctl' = [ctl EXCEPT ![e] = [kind |-> kind, at |-> "awaiting",
                                  began |-> clock]]
    /\ UNCHANGED <<lastEvaluationRun, loc>> /\ Elsewhere

EndRequest(e) ==
    /\ ctl[e].at = "awaiting"
    /\ End(AxisOf(ctl[e].kind))
    /\ Frees(e)
    /\ UNCHANGED <<lastEvaluationRun>> /\ Elsewhere

\* POST unevaluated-fill-run.
StartFillRun(e) ==
    /\ ctl[e].at = "none"
    /\ Begin("evaluation")
    /\ ctl' = [ctl EXCEPT ![e] = [kind |-> "fillRun", at |-> "resolving",
                                  began |-> clock]]
    /\ UNCHANGED <<lastEvaluationRun, loc>> /\ Elsewhere

FillRunAt(e, at) == ctl[e].kind = "fillRun" /\ ctl[e].at = at

\* The finally block of runUnevaluatedFill.
FinishFillRun(e, t) ==
    /\ End("evaluation")
    /\ RecordEvaluationRun("fill-run", t)
    /\ Frees(e)

\* The model resolves and the distinct requested coordinates are known, or
\* the handler throws and the default record (one failure) stands.
FillRunResolve(e) ==
    /\ FillRunAt(e, "resolving")
    /\ \/ FinishFillRun(e, [EmptyTally EXCEPT !.failed = 1])
       \/ FinishFillRun(e, EmptyTally)           \* no coordinate requested
       \/ \E gaps \in [Persons -> SUBSET Slots] :
            /\ Coordinates(gaps) # {}
            /\ Goes(e, "coordinate")
            /\ loc' = [loc EXCEPT ![e].gaps = gaps,
                            ![e].owed = Cardinality(Coordinates(gaps))]
            /\ UNCHANGED <<startedAtMs, lastEvaluationRun>>
    /\ Elsewhere

\* One coordinate of runUnevaluatedFillBatch settles.
FillRunCoordinate(e) ==
    /\ FillRunAt(e, "coordinate")
    /\ \E c \in Coordinates(loc[e].gaps),
          outcome \in {"evaluated", "skipped", "incomplete", "failed"} :
        LET t == CountOutcome(loc[e].tally, outcome, c)
            gaps == [loc[e].gaps EXCEPT ![c[1]] = @ \ {c[2]}]
        IN  \/ /\ Coordinates(gaps) = {}
               /\ FinishFillRun(e, t)
            \/ /\ Coordinates(gaps) # {}
               /\ loc' = [loc EXCEPT ![e].gaps = gaps, ![e].tally = t]
               /\ UNCHANGED <<startedAtMs, lastEvaluationRun, ctl>>
    /\ Elsewhere

------------------------------------------------------------------------------
(* Shutdown and time. *)

\* onModuleDestroy of each runner; the framework may call them in any order.
StopTicks ==
    /\ ~tickStopping
    /\ tickStopping' = TRUE
    /\ UNCHANGED <<statusVars, ctl, loc, tickCurrent, tally, refreshVars>>

StopRefresh ==
    /\ ~refreshStopping
    /\ refreshStopping' = TRUE
    /\ UNCHANGED <<statusVars, ctl, loc, tickVars, refreshCurrent, results>>

AdvanceClock ==
    /\ clock < MaxClock
    /\ clock' = clock + 1
    /\ UNCHANGED <<startedAtMs, lastEvaluationRun, ctl, loc, tickVars, refreshVars>>

------------------------------------------------------------------------------
Init ==
    /\ RunStatusInit
    /\ ctl = [e \in Execs |-> Idle]
    /\ loc = [e \in Execs |-> Fresh]
    /\ tickCurrent = None
    /\ tickStopping = FALSE
    /\ tally = EmptyTally
    /\ refreshCurrent = None
    /\ refreshStopping = FALSE
    /\ results = [p \in Persons |-> NoResult]

\* What the outside world starts: timers, requests, shutdown.
Arrive(e) ==
    \/ StartTick(e)
    \/ \E p \in Persons : RequestRefresh(e, p)
    \/ \E kind \in {"evaluate", "collect"} : StartRequest(e, kind)
    \/ StartFillRun(e)

TickStep(e) == \/ TickResolve(e) \/ TickList(e) \/ TickPlan(e)
               \/ TickPerson(e) \/ TickCoordinate(e) \/ ClearTick(e)
RefreshStep(e) == \/ RejectRefresh(e) \/ AdmitRefresh(e) \/ RefreshResolve(e)
                  \/ RefreshPlan(e) \/ RefreshCoordinate(e) \/ ClearRefresh(e)
RequestStep(e) == EndRequest(e) \/ FillRunResolve(e) \/ FillRunCoordinate(e)

\* A continuation of a call in flight.
Step(e) == TickStep(e) \/ RefreshStep(e) \/ RequestStep(e)

Next == \/ \E e \in Execs : Arrive(e) \/ Step(e)
        \/ StopTicks
        \/ StopRefresh
        \/ AdvanceClock

Spec == Init /\ [][Next]_vars

\* Every awaited promise settles, so every call in flight goes on.
FairSpec == Spec /\ \A e \in Execs : WF_vars(Step(e))
------------------------------------------------------------------------------
(* Type invariant. *)

Kinds == {"none", "tick", "refresh", "evaluate", "collect", "fillRun"}
Waits == {"none", "lookup", "resolving", "listing", "planning", "reading",
          "person", "coordinate", "awaiting", "settled"}
Tally == [evaluated : Nat, skipped : Nat, failed : Nat,
          incomplete : SUBSET (Persons \X Slots)]
Count == [deleted : Nat, refreshed : Nat, notRefreshed : Nat]
Result == {NoResult} \union
          [finished : {TRUE}, count : Count, aborted : BOOLEAN]
Local == [active : SUBSET Persons, window : 1..Windows,
          gaps : [Persons -> SUBSET Slots], person : Persons \union {None},
          identified : BOOLEAN, slots : SUBSET Slots, hadRow : SUBSET Slots,
          tally : Tally, count : Count, owed : Nat]

TypeOK ==
    /\ clock \in Nat
    /\ startedAtMs \in [RunAxis -> Seq(Nat)]
    /\ ctl \in [Execs -> [kind : Kinds, at : Waits, began : Nat]]
    /\ loc \in [Execs -> Local]
    /\ tickCurrent \in Execs \union {None}
    /\ tickStopping \in BOOLEAN
    /\ tally \in Tally
    /\ refreshCurrent \in Execs \union {None}
    /\ refreshStopping \in BOOLEAN
    /\ results \in [Persons -> Result]

------------------------------------------------------------------------------
(* Safety. *)

LiveOn(axis) == {e \in Execs : Live(e) /\ AxisOf(ctl[e].kind) = axis}

\* The banner's runningCount is the number of runs in progress on every
\* path: success, early return, failure, shutdown.  An end that a path misses
\* leaves the banner on (and every refresh refused) until the process
\* restarts; an end too many hides a run.
CountsLiveRuns ==
    \A axis \in RunAxis : RunningCount(axis) = Cardinality(LiveOn(axis))

\* At most one tick and one refresh are in flight, and `current' names it
\* from begin to the clearing microtask.  Two ticks would share `tally'.
OneRunPerRunner ==
    \A e \in Execs :
        /\ ctl[e].kind = "tick" => tickCurrent = e
        /\ ctl[e].kind = "refresh" /\ ctl[e].at # "lookup" => refreshCurrent = e

\* A refresh begins only while no other evaluation run is in progress, although
\* the person is read, and the event loop released, before the check.
RefreshBeginsAlone ==
    [][\A e \in Execs :
        RefreshAt(e, "lookup") /\ ctl'[e].at = "resolving"
            => LiveOn("evaluation") = {}]_vars

\* refreshStatus never shows the previous refresh's outcome for the one now
\* running: it would tell an operator that a run still replacing rows is done.
NoStaleRefreshResult ==
    \A e \in Execs :
        ctl[e].kind = "refresh" /\ Live(e) => results[loc[e].person] = NoResult

\* What a run is at: the await, the person, and what of the person is left.
Position(e) == <<ctl[e].at, loc[e].person, loc[e].slots>>

\* Once shutdown reached a runner, its run finishes the coordinate it is at
\* and enters no other person or coordinate; a person who is being looked up
\* has none of their coordinates entered.
StoppedRunsEnterNothing ==
    [][\A e \in Execs :
        /\ tickStopping /\ ctl[e].kind = "tick" /\ Position(e)' # Position(e)
            => ctl'[e].at \notin {"person", "coordinate"}
        /\ refreshStopping /\ ctl[e].kind = "refresh" /\ Position(e)' # Position(e)
            => ctl'[e].at # "coordinate"]_vars

\* What a run reports accounts for each coordinate its plan listed exactly
\* once, failed plans and the failure that aborts a run included; a tick cut
\* short by shutdown is the one exception.
SumsTo(summary, n) == summary.evaluated + summary.skipped + summary.failed = n

ReportsAccountForPlan ==
    [][\A e \in Execs :
        /\ ctl[e].kind = "tick" /\ Live(e) /\ ctl'[e].at = "settled"
            => tickStopping \/ SumsTo(lastEvaluationRun', loc'[e].owed)
        /\ FillRunAt(e, "coordinate") /\ ctl'[e].at = "none"
            => SumsTo(lastEvaluationRun', loc[e].owed)
        /\ ctl[e].kind = "refresh" /\ Live(e) /\ ctl'[e].at = "settled"
            => LET c == results'[loc[e].person].count
               IN  /\ c.refreshed + c.notRefreshed = loc'[e].owed
                   /\ c.deleted <= c.refreshed]_vars

\* The startedAt the banner shows is never later than the start of a run in
\* progress, although end() does not know which run ended.
StartedAtNeverLate ==
    \A axis \in RunAxis : \A e \in LiveOn(axis) :
        StartedAt(axis) <= ctl[e].began

------------------------------------------------------------------------------
(* Liveness. *)

\* Every run that begins ends, so the banner does not stay on and a refresh
\* is not refused for ever.
EveryRunEnds == \A e \in Execs : Live(e) ~> ~Live(e)

\* onModuleDestroy's await returns: both runners become free and stay free.
ShutdownCompletes ==
    tickStopping /\ refreshStopping
        ~> [](tickCurrent = None /\ refreshCurrent = None)

\* What is waited for comes: a run's end, which the banner and the guard of the
\* refresh wait for, and that of both runners' last runs, which
\* onModuleDestroy waits for.
RunsAndShutdownEnd == EveryRunEnds /\ ShutdownCompletes
==============================================================================
