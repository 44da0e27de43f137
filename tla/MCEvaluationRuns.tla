--------------------------- MODULE MCEvaluationRuns --------------------------
(* EvaluationRuns on a small instance. *)
EXTENDS EvaluationRuns

MCSlotsOfWindows == <<{"d1"}, {"w1"}>>

\* No action reads a finished run's report, only whether there is one, and the
\* tick's tally is reset before it is read.  States that differ only there have
\* the same behaviours; a step's property is evaluated before the step is viewed.
WithoutReports ==
    <<clock, startedAtMs, ctl, loc, tickCurrent, tickStopping, refreshCurrent,
      refreshStopping, IF tickCurrent = None THEN EmptyTally ELSE tally,
      {p \in Persons : results[p].finished}>>
==============================================================================
