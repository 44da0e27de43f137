--------------------------- MODULE ReEvaluationPanel --------------------------
(***************************************************************************)
(* The panel that deletes and collects again the last days of a person     *)
(* (web/src/views/useAdminSchedule.ts, adminScheduleRunners.ts) and the    *)
(* server's runner as the panel sees it                                    *)
(* (src/src/scheduling/recent-deletion-runner.service.ts).  The panel asks *)
(* for a run, and asks again and again whether it is over; the server      *)
(* keeps the result of a person's latest run in memory.                    *)
(***************************************************************************)
EXTENDS Naturals, FiniteSets

CONSTANTS
    Persons,
    REFRESH_POLL_MAX_FAILURES,
    MaxRuns,     \* bound: runs of the server
    MaxChanges   \* bound: changes of the selection, and restarts

None == "none"
NoResult == 0

VARIABLES
    selected,   \* selectedPersonId
    submitting, \* reevalSubmitting
    shown,      \* reevalResult or reevalError: of whom, what, of which run
    job,        \* runReEvaluate
    running,    \* the person the server's run is about
    results,    \* person -> the run whose result is kept
    runs,       \* runs of the server so far
    changes,
    lost        \* history: the server lost results since the job asked for its run

vars == <<selected, submitting, shown, job, running, results, runs, changes, lost>>

Nothing == [person |-> None, kind |-> "none", run |-> NoResult, left |-> FALSE]

\* The job: what it waits for, the run it asked for and its failures in a row;
\* history: whether the selection changed since.
NoJob == [at |-> "none", person |-> None, run |-> NoResult, answer |-> NoResult,
          failures |-> 0, left |-> FALSE]

Init ==
    /\ selected = None /\ submitting = FALSE
    /\ shown = Nothing /\ job = NoJob
    /\ running = None /\ results = [p \in Persons |-> NoResult]
    /\ runs = 0 /\ changes = 0 /\ lost = FALSE

------------------------------------------------------------------------------
(* The server *)

\* A run begins: the person's old result goes.
Begin(p) ==
    /\ running = None /\ runs < MaxRuns
    /\ running' = p /\ runs' = runs + 1
    /\ results' = [results EXCEPT ![p] = NoResult]

\* It ends, done or aborted; either is a result.
ExecuteRefresh ==
    /\ running # None
    /\ running' = None
    /\ results' = [results EXCEPT ![running] = runs]
    /\ UNCHANGED <<selected, submitting, shown, job, runs, changes, lost>>

\* Another administrator asks for a run.
StartElsewhere(p) ==
    /\ Begin(p)
    /\ UNCHANGED <<selected, submitting, shown, job, changes, lost>>

\* The server restarts: results are forgotten, a run is cut short.
Restart ==
    /\ changes < MaxChanges
    /\ changes' = changes + 1
    /\ running' = None /\ results' = [p \in Persons |-> NoResult]
    /\ lost' = (job.run # NoResult)
    /\ UNCHANGED <<selected, submitting, shown, job, runs>>

------------------------------------------------------------------------------
(* The panel *)

HandlePersonChange(p) ==
    /\ p # selected /\ changes < MaxChanges
    /\ changes' = changes + 1
    /\ selected' = p
    /\ shown' = Nothing
    /\ job' = [job EXCEPT !.left = TRUE]
    /\ UNCHANGED <<submitting, running, results, runs, lost>>

HandleReevalTrigger ==
    /\ selected # None /\ ~submitting
    /\ submitting' = TRUE /\ shown' = Nothing
    /\ job' = [NoJob EXCEPT !.at = "posting", !.person = selected]
    /\ lost' = FALSE
    /\ UNCHANGED <<selected, running, results, runs, changes>>

\* The job is over, and shows what became of it.
Shows(kind, run) ==
    /\ shown' = [person |-> job.person, kind |-> kind, run |-> run, left |-> job.left]
    /\ job' = NoJob /\ submitting' = FALSE

\* The server starts the run.
StartRefresh ==
    /\ job.at = "posting" /\ job.run = NoResult
    /\ Begin(job.person)
    /\ job' = [job EXCEPT !.run = runs']
    /\ UNCHANGED <<selected, submitting, shown, changes, lost>>

Posted ==
    /\ job.at = "posting" /\ job.run # NoResult
    /\ job' = [job EXCEPT !.at = "polling"]
    /\ UNCHANGED <<selected, submitting, shown, running, results, runs, changes, lost>>

\* The run was refused, or its answer lost although it was started.
PostFails ==
    /\ job.at = "posting"
    /\ Shows("refused", NoResult)
    /\ UNCHANGED <<selected, running, results, runs, changes, lost>>

\* The server answers: the person's run goes on, or is over.
RefreshStatus ==
    /\ job.at = "polling"
    /\ job' = IF running = job.person THEN [job EXCEPT !.at = "running"]
              ELSE [job EXCEPT !.at = "over", !.answer = results[job.person]]
    /\ UNCHANGED <<selected, submitting, shown, running, results, runs, changes, lost>>

\* The answer arrives.  Nothing running and no result means the server forgot.
PollRefreshResult ==
    /\ \/ /\ job.at = "running"
          /\ job' = [job EXCEPT !.at = "polling", !.failures = 0]
          /\ UNCHANGED <<shown, submitting>>
       \/ /\ job.at = "over"
          /\ Shows(IF job.answer = NoResult THEN "lost" ELSE "result", job.answer)
    /\ UNCHANGED <<selected, running, results, runs, changes, lost>>

\* Mutant of PollFails: one failure more.
PollFails_OneMore ==
    /\ job.at \in {"polling", "running", "over"}
    /\ IF job.failures + 1 > REFRESH_POLL_MAX_FAILURES
       THEN Shows("givenUp", NoResult)
       ELSE /\ job' = [job EXCEPT !.at = "polling", !.failures = @ + 1, !.answer = NoResult]
            /\ UNCHANGED <<shown, submitting>>
    /\ UNCHANGED <<selected, running, results, runs, changes, lost>>

PollFails ==
    /\ job.at \in {"polling", "running", "over"}
    /\ IF job.failures + 1 >= REFRESH_POLL_MAX_FAILURES
       THEN Shows("givenUp", NoResult)
       ELSE /\ job' = [job EXCEPT !.at = "polling", !.failures = @ + 1, !.answer = NoResult]
            /\ UNCHANGED <<shown, submitting>>
    /\ UNCHANGED <<selected, running, results, runs, changes, lost>>

Next ==
    \/ ExecuteRefresh \/ Restart
    \/ \E p \in Persons : StartElsewhere(p)
    \/ \E p \in Persons \cup {None} : HandlePersonChange(p)
    \/ HandleReevalTrigger
    \/ StartRefresh \/ Posted \/ PostFails
    \/ RefreshStatus \/ PollRefreshResult \/ PollFails

Spec == Init /\ [][Next]_vars

------------------------------------------------------------------------------
(* Properties *)

TypeOK ==
    /\ {selected, running, shown.person, job.person} \subseteq Persons \cup {None}
    /\ submitting \in BOOLEAN /\ lost \in BOOLEAN
    /\ shown.kind \in {"none", "result", "lost", "refused", "givenUp"}
    /\ job.at \in {"none", "posting", "polling", "running", "over"}
    /\ job.failures \in 0..(REFRESH_POLL_MAX_FAILURES - 1)
    /\ results \in [Persons -> 0..runs] /\ runs \in 0..MaxRuns

\* A result that is shown is of the run that was asked for or of a later one
\* of the same person, never the result of an earlier run: a result that was
\* kept is dropped when a run begins (recent-deletion-runner.service.ts:90).
\* The panel says that the result was lost only if the server restarted.
ResultOfRunAsked ==
    /\ job.run # NoResult /\ job.answer # NoResult => job.answer >= job.run
    /\ job.at = "over" /\ job.answer = NoResult => lost

\* What is shown of another person was asked for before the selection changed.
ForeignResultOnlyByLeaving ==
    shown.kind # "none" /\ shown.person # selected => shown.left
==============================================================================
