----------------------------- MODULE ImportJobs ------------------------------
(***************************************************************************)
(* POST /api/admin/import from the race guard to the answer                *)
(* (src/src/import/import-job.service.ts, import-job-runner.service.ts,    *)
(* import-restore.service.ts, import-restore-transaction.service.ts).      *)
(*                                                                         *)
(* A request looks for a RUNNING job, creates its own, marks it RUNNING,   *)
(* reads the exported tables with no snapshot, plans, and runs the plan in *)
(* one transaction; the job's last status is written after it.  An action  *)
(* is one database call's settling and the code up to the next.  Other     *)
(* requests write the same tables meanwhile, a call may fail, and the      *)
(* process may die and come back: job rows and tables persist, requests    *)
(* do not, and nothing looks at old jobs when the application starts.      *)
(*                                                                         *)
(* The transaction is READ COMMITTED: each deleteMany sees what is         *)
(* committed when it starts, its effects show when the transaction         *)
(* commits, and a row it waited for is gone or is still the same row.      *)
(***************************************************************************)
EXTENDS RestoreTables

CONSTANTS
    Imports,    \* the import requests
    MaxFaults   \* bound: failed calls and process deaths

ASSUME ImportsAssumption == None \notin Imports
ASSUME FaultsAssumption == MaxFaults \in Nat

VARIABLES
    table,      \* every row of the database
    job,        \* import -> its ImportJob row's status, "none" before that
    at,         \* import -> the call its request waits for
    loc,        \* import -> the request's data
    restored,   \* the imports whose transaction committed
    faults      \* failed calls and process deaths so far

vars == <<table, job, at, loc, restored, faults>>

\* `late' is a history variable: the rows that others added since the request
\* began to read.
Fresh == [mode |-> "replace", dump |-> {}, left |-> {}, read |-> {},
          doomed |-> {}, late |-> {}]

Goes(r, to) == at' = [at EXCEPT ![r] = to]
Ends(r) == Goes(r, "done") /\ loc' = [loc EXCEPT ![r] = Fresh]

\* The request's row count depends on the tables from here on.
Working == {r \in Imports : at[r] \in {"reading", "deleting", "inserting"}}
InFlight == {r \in Imports : at[r] \notin {"idle", "done"}}

------------------------------------------------------------------------------
(* From the request to the job row. *)

\* An upload that passed the file filters.
Request(r) ==
    /\ at[r] = "idle"
    /\ Goes(r, "checking")
    /\ UNCHANGED <<table, job, loc, restored, faults>>

Running == {r \in Imports : job[r] = "RUNNING"}

\* findRunning settles.  evaluateImportRaceGuard has no policy passed in: a
\* RUNNING job blocks, as "defer" and, past the threshold, as "timeout".
Admit(r) ==
    /\ at[r] = "checking"
    /\ Running = {}
    /\ Goes(r, "creating")
    /\ UNCHANGED <<table, job, loc, restored, faults>>

Refuse(r) ==
    /\ at[r] = "checking"
    /\ Running # {}
    /\ Ends(r)
    /\ UNCHANGED <<table, job, restored, faults>>

\* importJob.create settles.
CreateJob(r) ==
    /\ at[r] = "creating"
    /\ job' = [job EXCEPT ![r] = "PENDING"]
    /\ Goes(r, "marking")
    /\ UNCHANGED <<table, loc, restored, faults>>

MarkRunning(r) ==
    /\ at[r] = "marking"
    /\ job' = [job EXCEPT ![r] = "RUNNING"]
    /\ Goes(r, "reading")
    /\ loc' = [loc EXCEPT ![r].left = Tables]
    /\ UNCHANGED <<table, restored, faults>>

------------------------------------------------------------------------------
(* The restore. *)

Planned(l) == ToDelete(l.mode, l.read, l.dump)

\* Mutant of Plan: a record's entity is not screened.
Plan_AnyEntity(r, read) ==
    \/ \E mode \in {"replace", "merge"}, dump \in SUBSET Row :
        LET l == [loc[r] EXCEPT !.mode = mode, !.dump = dump, !.read = read]
        IN  /\ Goes(r, "deleting")
            /\ loc' = [loc EXCEPT ![r] = [l EXCEPT
                                            !.left = EntitiesOf(Planned(l))]]
    \/ /\ Goes(r, "recording")
       /\ loc' = [loc EXCEPT ![r] = Fresh]

\* The last read has settled: the upload is screened and the plan made.  What
\* was uploaded matters from here on, so this is where it is chosen.
Plan(r, read) ==
    \/ \E mode \in {"replace", "merge"}, dump \in SUBSET Exported(Row) :
        LET l == [loc[r] EXCEPT !.mode = mode, !.dump = dump, !.read = read]
        IN  /\ Goes(r, "deleting")
            /\ loc' = [loc EXCEPT ![r] = [l EXCEPT
                                            !.left = EntitiesOf(Planned(l))]]
    \/ /\ Goes(r, "recording")                     \* refused
       /\ loc' = [loc EXCEPT ![r] = Fresh]

\* One findMany of collectFullExportRecords settles; they run side by side.
Read(r) ==
    /\ at[r] = "reading"
    /\ \E e \in loc[r].left :
        LET read == loc[r].read \union {x \in table : x.entity = e}
            left == loc[r].left \ {e}
        IN  \/ /\ left # {}
               /\ loc' = [loc EXCEPT ![r].read = read, ![r].left = left]
               /\ UNCHANGED at
            \/ /\ left = {}
               /\ Plan(r, read)
    /\ UNCHANGED <<table, job, restored, faults>>

\* The next entity to delete: children first.
NextEntity(left) == CHOOSE e \in left : \A f \in left : Rank[f] <= Rank[e]

\* The transaction's deleteMany calls, one entity at a time.
Delete(r) ==
    /\ at[r] = "deleting"
    /\ IF loc[r].left = {}
       THEN Goes(r, "inserting") /\ UNCHANGED loc
       ELSE LET e == NextEntity(loc[r].left)
                rows == Matching(table, Planned(loc[r]), e)
            IN  /\ ~Restricted(table, rows)
                /\ loc' = [loc EXCEPT ![r].left = @ \ {e},
                                      ![r].doomed = @ \union rows]
                /\ UNCHANGED at
    /\ UNCHANGED <<table, job, restored, faults>>

\* What the transaction leaves of the tables, before its inserts.
Rest(r) == table \ WithCascade(table, loc[r].doomed)

\* The locals once `rows' are new in the tables; None is no import.  A row a
\* deleteMany has locked is another row than the one that took its place.
AddedBy(self, rows) ==
    [r \in Imports |->
        IF r = self THEN Fresh
        ELSE IF r \in Working
        THEN [loc[r] EXCEPT !.late = @ \union rows, !.doomed = @ \ rows]
        ELSE loc[r]]

\* The createMany calls go through and the transaction commits.
Commit(r) ==
    /\ at[r] = "inserting"
    /\ Insertable(Rest(r), loc[r].dump)
    /\ table' = Rest(r) \union loc[r].dump
    /\ restored' = restored \union {r}
    /\ Goes(r, "succeeding")
    /\ loc' = AddedBy(r, loc[r].dump)
    /\ UNCHANGED <<job, faults>>

\* Mutant of Rollback: the catch that records the failure is missing.
Rollback_NotRecorded(r) ==
    /\ \/ /\ at[r] = "deleting" /\ loc[r].left # {}
          /\ LET e == NextEntity(loc[r].left)
             IN  Restricted(table, Matching(table, Planned(loc[r]), e))
       \/ /\ at[r] = "inserting"
          /\ ~Insertable(Rest(r), loc[r].dump)
    /\ Ends(r)
    /\ UNCHANGED <<table, job, restored, faults>>

\* A constraint stops the transaction (P2002, P2003), or another import's
\* transaction does: PostgreSQL ends one of two that wait for each other.
Rollback(r) ==
    /\ \/ /\ at[r] = "deleting" /\ loc[r].left # {}
          /\ LET e == NextEntity(loc[r].left)
             IN  Restricted(table, Matching(table, Planned(loc[r]), e))
       \/ /\ at[r] = "inserting"
          /\ ~Insertable(Rest(r), loc[r].dump)
       \/ /\ at[r] \in {"deleting", "inserting"}
          /\ \E q \in Imports \ {r} : at[q] \in {"deleting", "inserting"}
    /\ Goes(r, "recording")
    /\ loc' = [loc EXCEPT ![r] = Fresh]
    /\ UNCHANGED <<table, job, restored, faults>>

------------------------------------------------------------------------------
(* The job's last status. *)

MarkSucceeded(r) ==
    /\ at[r] = "succeeding"
    /\ job' = [job EXCEPT ![r] = "SUCCEEDED"]
    /\ Ends(r)
    /\ UNCHANGED <<table, restored, faults>>

\* recordFailure; the request then ends with the restore's own error.
MarkFailed(r) ==
    /\ at[r] = "recording"
    /\ job' = [job EXCEPT ![r] = "FAILED"]
    /\ Ends(r)
    /\ UNCHANGED <<table, restored, faults>>

------------------------------------------------------------------------------
(* Failures. *)

Fault == faults < MaxFaults /\ faults' = faults + 1

\* Mutant of CallFails: markSucceeded is inside the try block.
CallFails_InTry(r) ==
    /\ Fault
    /\ \/ /\ r \in Working \/ at[r] = "succeeding"
          /\ Goes(r, "recording")
          /\ loc' = [loc EXCEPT ![r] = Fresh]
       \/ /\ r \in InFlight \ Working /\ at[r] # "succeeding"
          /\ Ends(r)
    /\ UNCHANGED <<table, job, restored>>

\* A database call fails.  Inside restoreFromDump that is a failed restore;
\* before and after it the error ends the request and the job row stays.
CallFails(r) ==
    /\ Fault
    /\ \/ /\ r \in Working
          /\ Goes(r, "recording")
          /\ loc' = [loc EXCEPT ![r] = Fresh]
       \/ /\ r \in InFlight \ Working
          /\ Ends(r)
    /\ UNCHANGED <<table, job, restored>>

\* The process dies: an open transaction rolls back, the requests are lost.
Crash ==
    /\ Fault
    /\ InFlight # {}
    /\ at' = [r \in Imports |-> IF r \in InFlight THEN "done" ELSE at[r]]
    /\ loc' = [r \in Imports |-> IF r \in InFlight THEN Fresh ELSE loc[r]]
    /\ UNCHANGED <<table, job, restored>>

------------------------------------------------------------------------------
(* The rest of the application. *)

\* Another request creates a row.
Write ==
    /\ \E x \in Row \ table :
        /\ Consistent(table \union {x})
        /\ table' = table \union {x}
        /\ loc' = AddedBy(None, {x})
    /\ UNCHANGED <<job, at, restored, faults>>

\* Another request deletes one, with what the schema cascades to.
Erase ==
    /\ \E x \in table :
        /\ ~Restricted(table, {x})
        /\ table' = table \ WithCascade(table, {x})
    /\ UNCHANGED <<job, at, loc, restored, faults>>

------------------------------------------------------------------------------
Init ==
    /\ table \in {t \in SUBSET Row : Consistent(t)}
    /\ job = [r \in Imports |-> "none"]
    /\ at = [r \in Imports |-> "idle"]
    /\ loc = [r \in Imports |-> Fresh]
    /\ restored = {}
    /\ faults = 0

\* The request in flight goes on.
Step(r) ==
    \/ Admit(r) \/ Refuse(r) \/ CreateJob(r) \/ MarkRunning(r)
    \/ Read(r) \/ Delete(r) \/ Commit(r) \/ Rollback(r)
    \/ MarkSucceeded(r) \/ MarkFailed(r)

Next ==
    \/ \E r \in Imports : Request(r) \/ Step(r) \/ CallFails(r)
    \/ Crash
    \/ Write
    \/ Erase

Spec == Init /\ [][Next]_vars

\* Every database call settles, so a request in flight goes on.
FairSpec == Spec /\ \A r \in Imports : WF_vars(Step(r))

------------------------------------------------------------------------------
(* Type invariant. *)

Statuses == {"none", "PENDING", "RUNNING", "SUCCEEDED", "FAILED"}
Calls == {"idle", "checking", "creating", "marking", "reading", "deleting",
          "inserting", "succeeding", "recording", "done"}
Local == [mode : {"replace", "merge"}, dump : SUBSET Exported(Row),
          left : SUBSET Entities, read : SUBSET Exported(Row),
          doomed : SUBSET Exported(Row), late : SUBSET Row]

\* The variables hold what their columns and locals can hold: a dump, a plan
\* and a deleteMany name rows of the exported entities only.
TypeOK ==
    /\ table \in SUBSET Row
    /\ job \in [Imports -> Statuses]
    /\ at \in [Imports -> Calls]
    /\ loc \in [Imports -> Local]
    /\ restored \in SUBSET Imports
    /\ faults \in 0..MaxFaults

------------------------------------------------------------------------------
(* Safety. *)

\* A job's status never says the opposite of what happened to the tables:
\* SUCCEEDED only after the commit, FAILED (so: retry it) only without one.
RecordTellsOutcome ==
    \A r \in Imports :
        /\ job[r] = "SUCCEEDED" => r \in restored
        /\ job[r] \in {"none", "PENDING", "FAILED"} => r \notin restored

Commits(r) == at[r] = "inserting" /\ at'[r] = "succeeding"

\* A REPLACE leaves no exported row beside its dump but those that appeared
\* after it began to read, although it reads the tables one by one, plans
\* from what it read, deletes by createdAt and shares the tables with others.
ReplaceLeavesOnlyLateRows ==
    [][\A r \in Imports :
        Commits(r) /\ loc[r].mode = "replace" =>
            Exported(table') \subseteq loc[r].dump \union loc[r].late]_vars

------------------------------------------------------------------------------
(* What the documents say and the code does not keep. *)

\* The description of merge: no existing row is deleted unless the dump
\* brings a row in its place.
MergeKeepsRows ==
    [][\A r \in Imports :
        Commits(r) /\ loc[r].mode = "merge" =>
            (table \intersect loc[r].read) \ Planned(loc[r]) \subseteq table']_vars

\* UC-07: a full export, taken back, restores results, masters and config.
ExportCanBeRestored ==
    \A r \in Imports :
        /\ at[r] = "inserting"
        /\ loc[r].mode = "replace"
        /\ loc[r].read = loc[r].dump
        /\ loc[r].late = {}
        => Insertable(Rest(r), loc[r].dump)

------------------------------------------------------------------------------
(* Liveness. *)

\* Every import request is answered; the guard never makes one wait.
RequestEnds == \A r \in Imports : r \in InFlight ~> r \notin InFlight

\* A RUNNING job is closed, one way or the other, unless a database call
\* failed or the process died.
JobSettles ==
    \A r \in Imports :
        job[r] = "RUNNING" ~> job[r] \in {"SUCCEEDED", "FAILED"} \/ faults > 0

\* An import ends for who asked for it and in the record of its job.
EveryImportEnds == RequestEnds /\ JobSettles
==============================================================================
