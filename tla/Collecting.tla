------------------------------ MODULE Collecting -----------------------------
(***************************************************************************)
(* Collecting a person's activity on request and backfilling a new person  *)
(* (src/src/assessment-collection, src/src/scheduling).                    *)
(*                                                                         *)
(* A collection derives the time it must go back to from the assessments   *)
(* the person has, creates an empty assessment for its own boundary, reads *)
(* the sources and stores what it found one contribution at a time, each   *)
(* call of the database on its own and outside a transaction.  A backfill  *)
(* is one collection after another, for the last weeks.  Requests overlap; *)
(* an action is the code up to the next await.  Time counts weeks.         *)
(***************************************************************************)
EXTENDS Integers, FiniteSets

CONSTANTS
    Calls,       \* requests, each made at most once
    Coords,      \* coordinates of the person's assessments
    Activity,    \* what the person does, as the sources will show it
    Backoffs,    \* by how many weeks requests ask to collect again
    PlanWeeks,   \* length of a backfill
    MaxClock,    \* bound: the last week
    MaxOthers    \* bound: writes by the rest of the application

Weeks == 1..MaxClock

ASSUME CoordsAssumption == Coords \subseteq [period : {"week", "day"}, start : Weeks]
ASSUME ActivityAssumption ==
    /\ IsFiniteSet(Activity)
    /\ Activity \subseteq [source : {"github", "confluence"}, at : Weeks, ref : Nat]
ASSUME BoundsAssumption ==
    /\ Backoffs \subseteq Nat /\ 1 \in Backoffs
    /\ PlanWeeks \in Nat \ {0} /\ MaxOthers \in Nat
    /\ MaxClock \in PlanWeeks..(2 * PlanWeeks - 1)  \* no backfill starts a
                                  \* whole plan later than another
    /\ \A s \in Weeks : [period |-> "week", start |-> s] \in Coords

NoRow == 0

VARIABLES
    clock,   \* the present week
    row,     \* coordinate -> id of its assessment
    stored,  \* coordinate -> the activities its contributions name
    call,    \* request -> its arguments, locals and program counter
    ids,     \* ids given to assessments so far
    others,  \* writes by the rest of the application so far
    removed, \* history: some assessment was removed
    missed   \* history: activities a failure or another writer is to blame for

vars == <<clock, row, stored, call, ids, others, removed, missed>>

Fresh == [at |-> "fresh", kind |-> "none", coord |-> CHOOSE k \in Coords : TRUE,
          last |-> 0, backoff |-> 1, since |-> 0, id |-> NoRow, began |-> 0,
          todo |-> {}, result |-> "none"]

At(c, at) == call[c].at = at

\* The request is answered; a request that failed leaves no locals.
Answers(c, result) ==
    call' = [call EXCEPT ![c] = IF result = "done"
                THEN [@ EXCEPT !.at = "answered", !.result = result]
                ELSE [Fresh EXCEPT !.at = "answered", !.kind = call[c].kind,
                                   !.result = result]]

\* deriveSince: the latest start of any assessment of the person, 0 for none.
LatestStart ==
    LET starts == {k.start : k \in {j \in Coords : row[j] # NoRow}}
    IN  IF starts = {} THEN 0
        ELSE CHOOSE s \in starts : \A t \in starts : t <= s

\* Mutant of Since: the first collection backs off as well.
Since_Unguarded(backoff) == LatestStart - backoff

\* applyRecollectionWindow: go back further, so that late activity is seen.
\* A width that is not positive leaves the time alone.
Since(backoff) == IF LatestStart > backoff THEN LatestStart - backoff ELSE 0

Happened == {a \in Activity : a.at <= clock}

\* Mutant of Listed: what happened just then is left out.
Listed_After(c, source) ==
    {a \in Happened : a.source = source /\ (source = "github" => a.at > call[c].since)}

\* What GitHub lists since the time, and Confluence whatever the time.
Listed(c, source) ==
    {a \in Happened : a.source = source /\ (source = "github" => a.at >= call[c].since)}

\* The call's own assessment is still there.
OwnRow(c) == row[call[c].coord] = call[c].id

------------------------------------------------------------------------------
(* Requests. *)

\* POST collect, for any boundary, the present one by default.
Collect(c, k, backoff) ==
    /\ At(c, "fresh")
    /\ call' = [call EXCEPT ![c] = [Fresh EXCEPT
                    !.at = "derive", !.kind = "collect", !.coord = k,
                    !.last = k.start, !.backoff = backoff]]
    /\ missed' = missed \cup {a \in Activity : clock < a.at /\ a.at <= k.start}
    /\ UNCHANGED <<clock, row, stored, ids, others, removed>>

\* POST backfill: nothing to do for a person with any assessment, otherwise
\* the weeks up to the present one, the oldest first.
Backfill(c) ==
    /\ At(c, "fresh")
    /\ IF LatestStart # 0
       THEN call' = [call EXCEPT ![c] = [Fresh EXCEPT
                     !.at = "answered", !.kind = "backfill", !.result = "skipped"]]
       ELSE call' = [call EXCEPT ![c] = [Fresh EXCEPT
                     !.at = "derive", !.kind = "backfill", !.last = clock,
                     !.coord = [period |-> "week", start |-> clock - PlanWeeks + 1]]]
    /\ UNCHANGED <<clock, row, stored, ids, others, removed, missed>>

\* triggerCollection reads the person and its assessments.
DeriveSince(c) ==
    /\ At(c, "derive")
    /\ call' = [call EXCEPT ![c].at = "create", ![c].since = Since(call[c].backoff)]
    /\ UNCHANGED <<clock, row, stored, ids, others, removed, missed>>

\* Mutant of CreatePlaceholder: the time to go back to is derived afterwards.
CreatePlaceholder_DerivesAfter(c) ==
    LET k == call[c].coord IN
    /\ At(c, "create")
    /\ row[k] = NoRow
    /\ ids' = ids + 1
    /\ row' = [row EXCEPT ![k] = ids + 1]
    /\ call' = [call EXCEPT ![c].at = "sources", ![c].id = ids + 1,
                            ![c].began = clock, ![c].since = k.start - 1]
    /\ UNCHANGED <<clock, stored, others, removed, missed>>

\* The empty assessment of the boundary, which must not exist (P2002).
CreatePlaceholder(c) ==
    LET k == call[c].coord IN
    /\ At(c, "create")
    /\ \/ /\ row[k] = NoRow
          /\ ids' = ids + 1
          /\ row' = [row EXCEPT ![k] = ids + 1]
          /\ call' = [call EXCEPT ![c].at = "sources", ![c].id = ids + 1,
                                  ![c].began = clock]
       \/ /\ row[k] # NoRow
          /\ Answers(c, "conflict")
          /\ UNCHANGED <<row, ids>>
    /\ UNCHANGED <<clock, stored, others, removed, missed>>

\* The sources are read, GitHub first.  A repository, a space or a whole
\* source that fails is left out: what it would have listed is missed.
CollectActivities(c) ==
    /\ At(c, "sources")
    /\ \E got \in SUBSET (Listed(c, "github") \cup Listed(c, "confluence")) :
          /\ call' = [call EXCEPT ![c].at = "persist", ![c].todo = got]
          /\ missed' = missed \cup ((Listed(c, "github") \cup Listed(c, "confluence")) \ got)
    /\ UNCHANGED <<clock, row, stored, ids, others, removed>>

\* The next contribution, in any order.  Its assessment must exist (P2003)
\* and have no contribution with its reference yet (P2002); the call fails
\* otherwise and leaves the rest.
Persist(c) ==
    LET k == call[c].coord IN
    /\ At(c, "persist")
    /\ \E a \in call[c].todo :
          LET fits == OwnRow(c) /\ \A b \in stored[k] : b.ref # a.ref IN
          \/ /\ fits
             /\ stored' = [stored EXCEPT ![k] = @ \cup {a}]
             /\ call' = [call EXCEPT ![c].todo = @ \ {a}]
             /\ UNCHANGED missed
          \/ /\ ~fits
             /\ Answers(c, IF OwnRow(c) THEN "duplicate" ELSE "orphan")
             /\ missed' = missed \cup call[c].todo
             /\ UNCHANGED stored
    /\ UNCHANGED <<clock, row, ids, others, removed>>

\* triggerCollection is done.  The backfill goes on to the next week.
Finish(c) ==
    /\ At(c, "persist")
    /\ call[c].todo = {}
    /\ \/ /\ call[c].coord.start = call[c].last
          /\ Answers(c, "done")
       \/ /\ call[c].coord.start < call[c].last
          /\ call' = [call EXCEPT ![c].at = "derive", ![c].coord.start = @ + 1]
    /\ UNCHANGED <<clock, row, stored, ids, others, removed, missed>>

\* Any await fails, or the process dies: the request ends where it is.  What
\* its collection had not stored is missed.
CallFails(c) ==
    /\ call[c].at \in {"derive", "create", "sources", "persist"}
    /\ Answers(c, "failed")
    /\ missed' = missed \cup
          CASE At(c, "sources") -> Listed(c, "github") \cup Listed(c, "confluence")
            [] At(c, "persist") -> call[c].todo
            [] OTHER -> {}
    /\ UNCHANGED <<clock, row, stored, ids, others, removed>>

------------------------------------------------------------------------------
(* The rest. *)

Tick ==
    /\ clock < MaxClock
    /\ clock' = clock + 1
    /\ UNCHANGED <<row, stored, call, ids, others, removed, missed>>

\* An evaluation stores an assessment of its period, with that period's
\* activity or less; later collections do not look before it.
OthersCreate(k) ==
    /\ others < MaxOthers
    /\ row[k] = NoRow
    /\ others' = others + 1
    /\ ids' = ids + 1
    /\ row' = [row EXCEPT ![k] = ids + 1]
    /\ missed' = missed \cup {a \in Activity : a.at <= k.start}
    /\ UNCHANGED <<clock, stored, call, removed>>

\* A reset or a re-evaluation removes an assessment with its contributions.
OthersRemove(k) ==
    /\ others < MaxOthers
    /\ row[k] # NoRow
    /\ others' = others + 1
    /\ row' = [row EXCEPT ![k] = NoRow]
    /\ stored' = [stored EXCEPT ![k] = {}]
    /\ removed' = TRUE
    /\ missed' = missed \cup stored[k]
    /\ UNCHANGED <<clock, call, ids>>

------------------------------------------------------------------------------
Init ==
    /\ clock = PlanWeeks
    /\ row = [k \in Coords |-> NoRow]
    /\ stored = [k \in Coords |-> {}]
    /\ call = [c \in Calls |-> Fresh]
    /\ ids = 0
    /\ others = 0
    /\ removed = FALSE
    /\ missed = {}

CallStep(c) ==
    \/ DeriveSince(c)
    \/ CreatePlaceholder(c)
    \/ CollectActivities(c)
    \/ Persist(c)
    \/ Finish(c)

Next ==
    \/ \E c \in Calls :
          \/ \E k \in Coords, b \in Backoffs : Collect(c, k, b)
          \/ Backfill(c)
          \/ CallStep(c)
          \/ CallFails(c)
    \/ \E k \in Coords : OthersCreate(k) \/ OthersRemove(k)
    \/ Tick

Spec == Init /\ [][Next]_vars

------------------------------------------------------------------------------
(* Properties. *)

Results == {"none", "done", "skipped", "conflict", "duplicate", "orphan", "failed"}
Places == {"fresh", "derive", "create", "sources", "persist", "answered"}

CallRecord ==
    [at : Places, kind : {"none", "collect", "backfill"}, coord : Coords,
     last : Weeks \cup {0}, backoff : Backoffs, since : Weeks \cup {0}, id : Nat,
     began : Weeks \cup {0}, todo : SUBSET Activity, result : Results]

\* The types of the variables.
TypeOK ==
    /\ clock \in Weeks
    /\ row \in [Coords -> Nat]
    /\ stored \in [Coords -> SUBSET Activity]
    /\ call \in [Calls -> CallRecord]
    /\ ids \in Nat
    /\ others \in 0..MaxOthers
    /\ removed \in BOOLEAN
    /\ missed \subseteq Activity

InFlight == {c \in Calls : call[c].at \notin {"fresh", "answered"}}

Stored == UNION {stored[k] : k \in Coords}

\* Collections look back only to shortly before the latest assessment
\* (since-derivation.service.ts), and collections, backfills and their
\* failures come in any order.  Even so, when none is in flight, everything
\* up to the latest assessment is stored, except what a failure, a removal or
\* an evaluation's own assessment accounts for.
NothingLost ==
    InFlight = {} =>
        \A a \in Happened : a.at <= LatestStart => a \in Stored \cup missed

\* When a collection answers, all that happened between the time it goes back
\* to and its beginning is stored, under its own assessment or under another of
\* the person, unless a source failed or an assessment was removed since.
DoneIsComplete ==
    \A c \in Calls, a \in Activity :
        /\ call[c].result = "done"
        /\ call[c].since <= a.at /\ a.at <= call[c].began
        => a \in Stored \cup missed

\* backfill-runner.service.ts checks for assessments long before it creates
\* the first one, so overlapping backfills all begin; but only one completes,
\* unless assessments are removed.
OneBackfillCompletes ==
    \A c, d \in Calls :
        /\ c # d
        /\ call[c].kind = "backfill" /\ call[c].result = "done"
        /\ call[d].kind = "backfill" /\ call[d].result = "done"
        => removed

\* What a caller is told is done is done: a collection's window is stored, and
\* two backfills that overlapped are not both taken for the first one.
DoneMeansDone == DoneIsComplete /\ OneBackfillCompletes

\* commit-dedup.ts tells pull requests of two repositories apart, and
\* contribution.service.ts:19 says that a contribution has no unique key: no
\* collection fails on two that have one number.
DistinctActivitiesAreStored ==
    \A c \in Calls : call[c].result # "duplicate"

\* recollection-window.ts:9 says that the removal of duplicates absorbs what a
\* collection finds again in the weeks it goes back over: what is stored under
\* another assessment of the person is not stored once more.
OverlapIsAbsorbed ==
    \A c \in Calls, k \in Coords :
        /\ call[c].result = "done" /\ call[c].since # 0
        /\ k # call[c].coord
        => stored[k] \cap stored[call[c].coord] = {}
==============================================================================
