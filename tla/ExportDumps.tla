------------------------------ MODULE ExportDumps -----------------------------
(***************************************************************************)
(* What a download of an export holds (src/src/export).  The controller    *)
(* looks the job up and reads the exported tables, each with a query of    *)
(* its own, side by side and outside a transaction, while the application  *)
(* goes on to change them; then it keeps the rows in the job's scope.  A   *)
(* preview of the selection reads and keeps in the same way.               *)
(*                                                                         *)
(* Nothing in the application moves a job on from PENDING                  *)
(* (ExportJobService.markRunning and its like have no caller), and a       *)
(* download does not look at the status, so a job is its scope.            *)
(***************************************************************************)
EXTENDS Naturals, FiniteSets

CONSTANTS
    Scopes,  \* what requests ask for
    MaxNow,  \* bound: writes by the application
    MaxJobs  \* bound: jobs

VARIABLES
    now,   \* writes so far; a row is created at the write that made it
    rows,  \* of all the tables
    jobs,  \* the scopes of the jobs
    read   \* a request for a download or a preview; requests change nothing,
           \* so one stands for all

vars == <<now, rows, jobs, read>>

\* Assessments name a person; groups, provider configurations and audit logs
\* name nothing that is exported, and the last stands for the three.
Entities == {"Assessment", "Person", "AuditLog"}

Table(e, R) == {r \in R : r.entity = e}

------------------------------------------------------------------------------
(* The scope of a job *)

Scope(kind, start, end, selector) ==
    [scope |-> kind, start |-> start, end |-> end, selector |-> selector]

\* A range needs its two instants in order, a partial scope a selector.
ValidateExportScope(s) ==
    /\ s.scope = "range" => s.start < s.end
    /\ s.scope = "partial" => s.selector # {}

\* A selector narrows a range as well, and is ignored by the full scope.
SelectExportRecords(s, R) ==
    CASE s.scope = "full" -> R
      [] s.scope = "range" ->
            {r \in R : /\ s.start <= r.instant /\ r.instant < s.end
                       /\ s.selector # {} => r.entity \in s.selector}
      [] s.scope = "partial" -> {r \in R : r.entity \in s.selector}

------------------------------------------------------------------------------

Idle == [at |-> "idle", scope |-> Scope("full", 0, 0, {}), todo |-> {}, got |-> {},
         tables |-> {}, steady |-> {}]

Init ==
    /\ now = 1
    /\ rows = {[entity |-> "Person", instant |-> 0, person |-> 0],
               [entity |-> "Assessment", instant |-> 1, person |-> 0]}
    /\ jobs = {}
    /\ read = Idle

CreateJob(s) ==
    /\ Cardinality(jobs) < MaxJobs
    /\ ValidateExportScope(s)
    /\ jobs' = jobs \cup {s}
    /\ UNCHANGED <<now, rows, read>>

\* A request begins.  History: what the tables held while it ran, and the rows
\* that were there all along.
Begins(s) ==
    /\ read.at = "idle"
    /\ read' = [at |-> "reading", scope |-> s, todo |-> Entities, got |-> {},
                tables |-> {rows}, steady |-> rows]
    /\ UNCHANGED <<now, rows, jobs>>

Download == \E s \in jobs : Begins(s)
PreviewSelection == \E s \in Scopes : ValidateExportScope(s) /\ Begins(s)

\* One of the queries.
CollectFullExportRecords(e) ==
    /\ read.at = "reading" /\ e \in read.todo
    /\ read' = [read EXCEPT !.todo = @ \ {e}, !.got = @ \cup Table(e, rows)]
    /\ UNCHANGED <<now, rows, jobs>>

Materialize ==
    /\ read.at = "reading" /\ read.todo = {}
    /\ read' = [read EXCEPT !.at = "answered",
                            !.got = SelectExportRecords(read.scope, @)]
    /\ UNCHANGED <<now, rows, jobs>>

\* The request ends, answered or because one of its queries failed.
Ends ==
    /\ read.at # "idle"
    /\ read' = Idle
    /\ UNCHANGED <<now, rows, jobs>>

------------------------------------------------------------------------------
(* The application *)

Write(removed, added) ==
    /\ now < MaxNow
    /\ now' = now + 1
    /\ rows' = (rows \ removed) \cup
               {[entity |-> a.entity, instant |-> now', person |-> a.person] : a \in added}
    /\ read' = IF read.at # "reading" THEN read
               ELSE [read EXCEPT !.tables = @ \cup {rows'}, !.steady = @ \cap rows']
    /\ UNCHANGED jobs

New(e, p) == {[entity |-> e, person |-> p]}

CreatePerson == Write({}, New("Person", now + 1))
WriteAuditLog == Write({}, New("AuditLog", 0))
Evaluate(p) == Write({}, New("Assessment", p.person))
Reevaluate(a) == Write({a}, New("Assessment", a.person))

\* Mutant of RemovePerson: the assessments stay.
RemovePerson_Alone(p) == Write({p}, {})

\* Removing a person removes the assessments.
RemovePerson(p) ==
    Write({p} \cup {r \in rows : r.entity = "Assessment" /\ r.person = p.person}, {})

Next ==
    \/ \E s \in Scopes : CreateJob(s)
    \/ Download \/ PreviewSelection
    \/ \E e \in Entities : CollectFullExportRecords(e)
    \/ Materialize \/ Ends
    \/ CreatePerson \/ WriteAuditLog
    \/ \E p \in Table("Person", rows) : Evaluate(p) \/ RemovePerson(p)
    \/ \E a \in Table("Assessment", rows) : Reevaluate(a)

Spec == Init /\ [][Next]_vars

------------------------------------------------------------------------------
(* Properties *)

TypeOK ==
    /\ now \in 1..MaxNow /\ jobs \subseteq Scopes
    /\ \A r \in rows : r.entity \in Entities /\ {r.instant, r.person} \subseteq 0..now
    /\ read.at \in {"idle", "reading", "answered"}
    /\ read.todo \subseteq Entities

Answered == read.at = "answered"

\* Whether a scope asks for a row.
Asks(s, r) ==
    /\ s.scope = "range" => r.instant \in s.start..(s.end - 1)
    /\ s.scope = "partial" \/ (s.scope = "range" /\ s.selector # {}) =>
          r.entity \in s.selector

\* Every table in a dump is what the scope asks for of that table at one
\* instant of the request: a row that is replaced meanwhile is in the dump as
\* it was or as it became, never both and never neither.
TablesOfOneInstant ==
    Answered =>
        \A e \in Entities : \E T \in read.tables :
            Table(e, read.got) = {r \in Table(e, T) : Asks(read.scope, r)}

\* The tables together are of no one instant (export-full-record-collect.ts:73):
\* a dump of everything may hold an assessment without its person, but only
\* if that person came or went while it was made.
DanglingOnlyIfRaced ==
    Answered /\ read.scope.scope = "full" =>
        \A a \in Table("Assessment", read.got) :
            \/ \E p \in Table("Person", read.got) : p.person = a.person
            \/ \E p \in Table("Person", (UNION read.tables) \ read.steady) : p.person = a.person
==============================================================================
