---------------------------- MODULE SummaryBatches ---------------------------
(***************************************************************************)
(* Summaries of periods that ended, one by one or for a roster, and the    *)
(* reset of a person's period (src/src/assessment-evaluation).             *)
(*                                                                         *)
(* A summary's transaction reads the row, deletes it on a reeval and       *)
(* creates the new one; from the delete on it holds the row, so delete,    *)
(* create and commit are one step for everyone else.  A reset is two       *)
(* statements, assessments first, and each of them deletes the rows that   *)
(* were there when it began.  A row is the stamp of the commit that made   *)
(* it.                                                                     *)
(***************************************************************************)
EXTENDS Integers, Sequences

CONSTANTS
    Callers,    \* requests and batches, each made at most once
    Groups,     \* a person and a period length
    Roster,     \* sequence of groups: what a batch goes through
    MaxNow,     \* bound: periods that can end
    MaxStamp    \* bound: commits

Coords == [group : Groups, start : 0..(MaxNow - 1)]
NoRow == 0

VARIABLES
    now,        \* periods ended
    summary,    \* coordinate -> its Summary row
    assessed,   \* coordinate -> its Assessment rows, all of a scope at once
    caller,     \* request -> its locals and program counter
    stamp,      \* commits so far
    touched,    \* history: coordinate -> last commit that changed its summary
    emptied,    \* history: coordinate -> last reset of its assessments
    half        \* history: group -> last reset that failed half way

vars == <<now, summary, assessed, caller, stamp, touched, emptied, half>>
rows == <<summary, assessed, stamp, touched, emptied>>

Idle == [at |-> "idle", kind |-> "none", mode |-> "fill", todo |-> <<>>, now |-> 0,
         began |-> 0, found |-> NoRow, outcomes |-> <<>>, seen |-> {}, result |-> "none"]

At(c, place) == caller[c].at = place

\* isPeriodEvaluable: the period is over, by the instant the caller began.
Evaluable(k, instant) == instant >= k.start + 1

\* Mutant of DueStart: the period in progress.
DueStart_Current(instant) == instant

\* previousPeriodStart: the period that ended last.
DueStart(instant) == instant - 1

\* enumerateSummaryDueCoordinates, for the persons and granularities in order.
DueCoordinates(instant) ==
    [i \in DOMAIN Roster |-> [group |-> Roster[i], start |-> DueStart(instant)]]

Begins(kind, mode, todo) ==
    [Idle EXCEPT !.at = "next", !.kind = kind, !.mode = mode, !.todo = todo,
                 !.now = now, !.began = stamp]

Answers(c, result) ==
    [caller[c] EXCEPT !.at = "answered", !.result = result,
                      !.mode = "fill", !.found = NoRow, !.seen = {}]

\* The outcome of the coordinate in hand, and on to the next.
Notes(c, outcome) ==
    [caller[c] EXCEPT !.at = "next", !.todo = Tail(@), !.found = NoRow,
                      !.outcomes = Append(@, outcome)]

------------------------------------------------------------------------------
(* Summaries. *)

\* POST summary, one coordinate.
Summarize(c, k, mode) ==
    /\ At(c, "idle")
    /\ caller' = [caller EXCEPT ![c] = Begins("one", mode, <<k>>)]
    /\ UNCHANGED <<now, rows, half>>

\* evaluateBatchForRoster: results for a coordinate that is not due end the
\* batch before it begins.
Batch(c, mode, stray) ==
    /\ At(c, "idle")
    /\ now > 0
    /\ caller' = [caller EXCEPT ![c] =
          IF stray
          THEN [Begins("batch", mode, <<>>) EXCEPT !.at = "answered", !.result = "refused"]
          ELSE Begins("batch", mode, DueCoordinates(now))]
    /\ UNCHANGED <<now, rows, half>>

\* runSummaryBatchPlan and evaluateAndPersist: a period in progress is
\* skipped, any other gets its narrative first.
Evaluate(c) ==
    /\ At(c, "next")
    /\ caller[c].todo # <<>>
    /\ caller' = [caller EXCEPT ![c] =
          IF Evaluable(Head(@.todo), @.now) THEN [@ EXCEPT !.at = "narrating"]
                                            ELSE Notes(c, "skipped")]
    /\ UNCHANGED <<now, rows, half>>

\* Mutant of FindExisting: only a fill looks for a row.
FindExisting_FillOnly(c) ==
    LET found == summary[Head(caller[c].todo)] IN
    /\ At(c, "narrating")
    /\ caller' = [caller EXCEPT ![c] =
          IF @.mode = "fill" /\ found # NoRow
          THEN Notes(c, "existing")
          ELSE [@ EXCEPT !.at = "writing"]]
    /\ UNCHANGED <<now, rows, half>>

\* The narrative arrives and the transaction reads the row; a fill that finds
\* one is done.
FindExisting(c) ==
    LET found == summary[Head(caller[c].todo)] IN
    /\ At(c, "narrating")
    /\ caller' = [caller EXCEPT ![c] =
          IF @.mode = "fill" /\ found # NoRow
          THEN Notes(c, "existing")
          ELSE [@ EXCEPT !.at = "writing", !.found = found]]
    /\ UNCHANGED <<now, rows, half>>

\* The row found is deleted and the new one created.  The row found may be
\* gone by now (P2025, not mapped), or one may be there where none was
\* found (P2002, a conflict).
Write(c) ==
    LET k == Head(caller[c].todo) IN
    /\ At(c, "writing")
    /\ \/ /\ summary[k] = caller[c].found
          /\ stamp < MaxStamp
          /\ stamp' = stamp + 1
          /\ summary' = [summary EXCEPT ![k] = stamp + 1]
          /\ touched' = [touched EXCEPT ![k] = stamp + 1]
          /\ caller' = [caller EXCEPT ![c] = Notes(c, "created")]
          /\ UNCHANGED <<now, assessed, emptied, half>>
       \/ /\ summary[k] # caller[c].found
          /\ caller' = [caller EXCEPT ![c] =
                Answers(c, IF @.found = NoRow THEN "conflict" ELSE "recordGone")]
          /\ UNCHANGED <<now, rows, half>>

\* The last coordinate is done.
Finish(c) ==
    /\ At(c, "next")
    /\ caller[c].todo = <<>>
    /\ caller' = [caller EXCEPT ![c] = Answers(c, "done")]
    /\ UNCHANGED <<now, rows, half>>

------------------------------------------------------------------------------
(* Resets. *)

In(g, table) == {[coord |-> k, row |-> table[k]] :
                    k \in {j \in Coords : j.group = g /\ table[j] # NoRow}}

\* POST reset: the first deleteMany looks for the assessments of the group.
Reset(c, g) ==
    /\ At(c, "idle")
    /\ caller' = [caller EXCEPT ![c] =
          [Begins("reset", "fill", <<[group |-> g, start |-> 0]>>)
              EXCEPT !.at = "assessments", !.seen = In(g, assessed)]]
    /\ UNCHANGED <<now, rows, half>>

\* Rows that are still the ones seen.
Hit(c, table) == {s.coord : s \in {t \in caller[c].seen : table[t.coord] = t.row}}

Without(table, gone) == [k \in Coords |-> IF k \in gone THEN NoRow ELSE table[k]]
Stamped(table, gone) == [k \in Coords |-> IF k \in gone THEN stamp + 1 ELSE table[k]]

\* The assessments are gone, and the second deleteMany looks for summaries.
DeleteAssessments(c) ==
    /\ At(c, "assessments")
    /\ stamp < MaxStamp
    /\ stamp' = stamp + 1
    /\ assessed' = Without(assessed, Hit(c, assessed))
    /\ emptied' = Stamped(emptied, Hit(c, assessed))
    /\ caller' = [caller EXCEPT ![c].at = "summaries",
                                ![c].seen = In(Head(caller[c].todo).group, summary)]
    /\ UNCHANGED <<now, summary, touched, half>>

\* The summaries are gone.
DeleteSummaries(c) ==
    /\ At(c, "summaries")
    /\ stamp < MaxStamp
    /\ stamp' = stamp + 1
    /\ summary' = Without(summary, Hit(c, summary))
    /\ touched' = Stamped(touched, Hit(c, summary))
    /\ caller' = [caller EXCEPT ![c] = Answers(c, "done")]
    /\ UNCHANGED <<now, assessed, emptied, half>>

------------------------------------------------------------------------------
(* The rest. *)

\* A call of the model or of the database fails, or the process dies.
CallFails(c) ==
    /\ caller[c].at \in {"narrating", "writing", "assessments", "summaries"}
    /\ caller' = [caller EXCEPT ![c] = Answers(c, "failed")]
    /\ half' = IF At(c, "summaries")
               THEN [half EXCEPT ![Head(caller[c].todo).group] = stamp] ELSE half
    /\ UNCHANGED <<now, rows>>

\* An evaluation stores assessments of the coordinate.
Assess(k) ==
    /\ stamp < MaxStamp
    /\ stamp' = stamp + 1
    /\ assessed' = [assessed EXCEPT ![k] = stamp + 1]
    /\ UNCHANGED <<now, summary, caller, touched, emptied, half>>

PeriodEnds ==
    /\ now < MaxNow
    /\ now' = now + 1
    /\ UNCHANGED <<rows, caller, half>>

Init ==
    /\ now = 0
    /\ summary = [k \in Coords |-> NoRow]
    /\ assessed = [k \in Coords |-> NoRow]
    /\ caller = [c \in Callers |-> Idle]
    /\ stamp = 0
    /\ touched = [k \in Coords |-> 0]
    /\ emptied = [k \in Coords |-> 0]
    /\ half = [g \in Groups |-> 0]

Next ==
    \/ \E c \in Callers :
          \/ \E k \in Coords, mode \in {"fill", "reeval"} : Summarize(c, k, mode)
          \/ \E mode \in {"fill", "reeval"}, stray \in BOOLEAN : Batch(c, mode, stray)
          \/ \E g \in Groups : Reset(c, g)
          \/ Evaluate(c) \/ FindExisting(c) \/ Write(c) \/ Finish(c)
          \/ DeleteAssessments(c) \/ DeleteSummaries(c)
          \/ CallFails(c)
    \/ \E k \in Coords : Assess(k)
    \/ PeriodEnds

Spec == Init /\ [][Next]_vars

------------------------------------------------------------------------------
(* Properties. *)

Places == {"idle", "next", "narrating", "writing", "assessments", "summaries", "answered"}
Results == {"none", "done", "refused", "conflict", "recordGone", "failed"}

\* The types of the variables.
TypeOK ==
    /\ now \in 0..MaxNow
    /\ {summary, assessed, touched, emptied} \subseteq [Coords -> 0..MaxStamp]
    /\ half \in [Groups -> 0..MaxStamp]
    /\ stamp \in 0..MaxStamp
    /\ \A c \in Callers :
          /\ caller[c].at \in Places /\ caller[c].result \in Results
          /\ caller[c].todo \in Seq(Coords)
          /\ caller[c].found \in 0..stamp /\ caller[c].began \in 0..stamp
          /\ caller[c].seen \subseteq [coord : Coords, row : 1..stamp]

Resetting(c, g) == At(c, "summaries") /\ Head(caller[c].todo).group = g

\* The controller resets two tables one after the other, without a
\* transaction (assessment-evaluation.controller.ts:850): a summary older
\* than the removal of its assessments is there only while that reset goes
\* on, or after it failed in between.
OrphanOnlyAfterHalfReset ==
    \A k \in Coords :
        summary[k] # NoRow /\ summary[k] < emptied[k] =>
            \/ \E c \in Callers : Resetting(c, k.group)
            \/ half[k.group] >= emptied[k]

\* A reset that answers has left nothing that was there when it began,
\* although reevals replace rows while it looks for them.
ResetClears ==
    \A c \in Callers :
        caller[c].kind = "reset" /\ caller[c].result = "done" =>
            \A k \in Coords : k.group = Head(caller[c].todo).group =>
                /\ summary[k] = NoRow \/ summary[k] > caller[c].began
                /\ assessed[k] = NoRow \/ assessed[k] > caller[c].began

\* A caller is told of a conflict, or gets the raw error of
\* summary-persist.service.ts:177, only if another one changed the summary
\* since it began.
ErrorsHaveRivals ==
    \A c \in Callers :
        caller[c].result \in {"conflict", "recordGone"} =>
            touched[Head(caller[c].todo)] > caller[c].began

\* No reader ever misses a summary that was there unless a reset took it,
\* and only a reeval puts another one in its place.
SummariesSurvive ==
    \A k \in Coords : summary[k] # NoRow /\ summary'[k] # summary[k] =>
        \E c \in Callers :
            \/ Resetting(c, k.group)
            \/ At(c, "writing") /\ caller[c].mode = "reeval" /\ summary'[k] # NoRow

\* A batch that answers has a summary for everyone of the roster, for the
\* period that had ended when it began, unless others changed them since; one
\* that stops has dealt with the roster from its beginning.
BatchCoversRoster ==
    \A c \in Callers :
        caller[c].kind = "batch" /\ caller[c].result \notin {"none", "refused"} =>
            /\ caller[c].result = "done" => Len(caller[c].outcomes) = Len(Roster)
            /\ \A i \in 1..Len(caller[c].outcomes) :
                  LET k == [group |-> Roster[i], start |-> caller[c].now - 1]
                  IN  summary[k] # NoRow \/ touched[k] > caller[c].began
==============================================================================
