------------------------------ MODULE RunStatus ------------------------------
(***************************************************************************)
(* The in-memory run counter behind GET /api/run-status                    *)
(* (src/src/run-status/run-status.service.ts).  Every entry point of an    *)
(* expensive run brackets it with begin(axis) ... finally end(axis); the   *)
(* service keeps, per axis, the start times of the begins not yet matched  *)
(* by an end, and a summary of the evaluation run that finished last.      *)
(***************************************************************************)
EXTENDS Naturals, Sequences, FiniteSets

CONSTANT MAX_REPORTED_INCOMPLETE

ASSUME ReportCapAssumption == MAX_REPORTED_INCOMPLETE \in Nat

VARIABLES
    clock,              \* Date.now(), advanced by the environment
    startedAtMs,        \* axis -> start times of the runs begun and not ended
    lastEvaluationRun   \* NoSummary, or the summary of the last finished run

RunAxis == {"evaluation", "collection"}

\* begin(axis): push the current time.
Begin(axis) ==
    startedAtMs' = [startedAtMs EXCEPT ![axis] = Append(@, clock)]

\* Mutant of End: the earliest start time is dropped instead of the latest.
End_DropsFirst(axis) ==
    startedAtMs' =
        [startedAtMs EXCEPT ![axis] = IF Len(@) = 0 THEN @ ELSE Tail(@)]

\* end(axis): drop the LAST start time; an end without a begin is ignored.
End(axis) ==
    startedAtMs' =
        [startedAtMs EXCEPT ![axis] =
            IF Len(@) = 0 THEN @ ELSE SubSeq(@, 1, Len(@) - 1)]

\* axisStatus(axis): the fields the banner reads.
RunningCount(axis) == Len(startedAtMs[axis])
Active(axis) == RunningCount(axis) > 0
StartedAt(axis) == startedAtMs[axis][1]

(***************************************************************************)
(* recordEvaluationRun: the counts are copied, the incomplete coordinates  *)
(* (person, slot) are counted, their persons are counted, and the distinct *)
(* slots are listed up to MAX_REPORTED_INCOMPLETE; the list is abstracted  *)
(* to its length.                                                          *)
(***************************************************************************)
NoSummary == [source |-> "none"]

RunSummary(source, tally) ==
    LET slots == {c[2] : c \in tally.incomplete} IN
    [source |-> source,
     evaluated |-> tally.evaluated,
     skipped |-> tally.skipped,
     failed |-> tally.failed,
     incompleteCount |-> Cardinality(tally.incomplete),
     incompletePersonCount |-> Cardinality({c[1] : c \in tally.incomplete}),
     reportedCount |-> IF Cardinality(slots) <= MAX_REPORTED_INCOMPLETE
                       THEN Cardinality(slots)
                       ELSE MAX_REPORTED_INCOMPLETE]

RecordEvaluationRun(source, tally) ==
    lastEvaluationRun' = RunSummary(source, tally)

RunStatusInit ==
    /\ clock = 0
    /\ startedAtMs = [axis \in RunAxis |-> <<>>]
    /\ lastEvaluationRun = NoSummary
==============================================================================
