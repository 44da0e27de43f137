------------------------------- MODULE Dashboard ------------------------------
(***************************************************************************)
(* The dashboard (web/src/views/DashboardView.tsx): a person is selected,  *)
(* the assessments are listed, one of them is shown in detail, and the     *)
(* evaluation of a period may be asked for.  Lists are read by effects that *)
(* run again when what they depend on changes, as on the admin page; React *)
(* runs what effects are left before it handles the next click.            *)
(***************************************************************************)
EXTENDS Naturals, FiniteSets

CONSTANTS
    Persons,
    MaxIds,    \* bound: assessments ever made
    MaxRuns,   \* bound: times the effect of a list runs
    MaxAsked   \* bound: evaluations asked for

None == "none"
NoId == 0

VARIABLES
    person,     \* selectedPersonId
    selected,   \* selectedId, an assessment
    submitting, \* periodSubmitting
    notice,     \* periodNotice: whose it is, its kind, and whether the selection
                \* changed after the evaluation was asked for
    reloads,    \* how often the assessments were to be read again
    shown,      \* the assessments on the page
    detail,     \* the assessment whose contributions are on the page
    effect,     \* per list: the latest run of its effect and what it ran for
    fetches,    \* on their way
    calls,      \* evaluations that were asked for, on their way
    asked,      \* their number so far
    row,        \* person -> the stored assessment
    ids         \* assessments made so far

vars == <<person, selected, submitting, notice, reloads, shown, detail, effect,
          fetches, calls, asked, row, ids>>

NoNotice == [person |-> None, kind |-> "none", left |-> FALSE]
NoRows == [at |-> "idle", person |-> None, row |-> NoId]
NoDetail == [at |-> "idle", row |-> NoId]

\* What an effect depends on; nothing is read for no person and no assessment.
Key(list) == IF list = "rows" THEN <<person, reloads>> ELSE <<selected, 0>>
Wanted(list) == IF list = "rows" THEN person # None ELSE selected # NoId
UpToDate == \A l \in {"rows", "detail"} : effect[l].key = Key(l)

Init ==
    /\ person = None /\ selected = NoId
    /\ submitting = FALSE /\ notice = NoNotice
    /\ reloads = 0
    /\ shown = NoRows /\ detail = NoDetail
    /\ effect = [l \in {"rows", "detail"} |-> [run |-> 0, key |-> Key(l)]]
    /\ fetches = {} /\ calls = {} /\ asked = 0
    /\ ids \in 0..1
    /\ \E p \in Persons : row = [q \in Persons |-> IF q = p THEN ids ELSE NoId]

------------------------------------------------------------------------------
(* The lists *)

StartResourceEffect(l) ==
    /\ effect[l].key # Key(l) /\ effect[l].run < MaxRuns
    /\ effect' = [effect EXCEPT ![l] = [run |-> @.run + 1, key |-> Key(l)]]
    /\ fetches' = IF Wanted(l)
                  THEN fetches \cup {[list |-> l, run |-> effect[l].run + 1,
                                      of |-> Key(l)[1], served |-> FALSE, row |-> NoId]}
                  ELSE fetches
    /\ shown' = IF l = "rows" THEN NoRows ELSE shown
    /\ detail' = IF l = "detail" THEN NoDetail ELSE detail
    /\ UNCHANGED <<person, selected, submitting, notice, reloads, calls, asked, row, ids>>

\* Contributions of an assessment are those it was stored with.
Serve(f) ==
    /\ ~f.served
    /\ fetches' = (fetches \ {f}) \cup
                  {[f EXCEPT !.served = TRUE,
                             !.row = IF f.list = "rows" THEN row[f.of] ELSE f.of]}
    /\ UNCHANGED <<person, selected, submitting, notice, reloads, shown, detail,
                   effect, calls, asked, row, ids>>

IsCancelled(f) == f.run # effect[f.list].run

RunFetch(f) ==
    /\ f.served
    /\ fetches' = fetches \ {f}
    /\ shown' = IF IsCancelled(f) \/ f.list # "rows" THEN shown
                ELSE [at |-> "shown", person |-> f.of, row |-> f.row]
    /\ detail' = IF IsCancelled(f) \/ f.list # "detail" THEN detail
                 ELSE [at |-> "shown", row |-> f.row]
    /\ UNCHANGED <<person, selected, submitting, notice, reloads, effect, calls, asked, row, ids>>

\* The list is replaced by an error, as empty as before.
FetchFails(f) ==
    /\ fetches' = fetches \ {f}
    /\ UNCHANGED <<person, selected, submitting, notice, reloads, shown, detail,
                   effect, calls, asked, row, ids>>

------------------------------------------------------------------------------
(* The user *)

\* Selecting puts away the selected assessment and what was said of the last
\* evaluation; the calls on their way are not given up.
HandlePersonSelect(p) ==
    /\ UpToDate /\ p # person
    /\ person' = p
    /\ selected' = NoId
    /\ submitting' = FALSE /\ notice' = NoNotice
    /\ calls' = {[c EXCEPT !.left = TRUE] : c \in calls}
    /\ UNCHANGED <<reloads, shown, detail, effect, fetches, asked, row, ids>>

\* An assessment of the list, or none.
HandleSelectChange(id) ==
    /\ UpToDate /\ id # selected
    /\ id # NoId => shown.at = "shown" /\ shown.row = id
    /\ selected' = id
    /\ UNCHANGED <<person, submitting, notice, reloads, shown, detail, effect,
                   fetches, calls, asked, row, ids>>

HandlePeriodSubmit ==
    /\ UpToDate /\ person # None /\ ~submitting
    /\ asked < MaxAsked
    /\ asked' = asked + 1
    /\ submitting' = TRUE /\ notice' = NoNotice
    /\ calls' = calls \cup {[number |-> asked, person |-> person, at |-> "sent", row |-> NoId,
                             left |-> FALSE, crossed |-> FALSE]}
    /\ UNCHANGED <<person, selected, reloads, shown, detail, effect, fetches, row, ids>>

\* The server evaluates, unless the period has its assessment.
Evaluate(c) ==
    /\ c.at = "sent" /\ ids < MaxIds
    /\ LET id == IF row[c.person] = NoId THEN ids + 1 ELSE row[c.person]
       IN  /\ row' = [row EXCEPT ![c.person] = id]
           /\ ids' = IF id > ids THEN id ELSE ids
           /\ calls' = (calls \ {c}) \cup {[c EXCEPT !.at = "made", !.row = id]}
    /\ UNCHANGED <<person, selected, submitting, notice, reloads, shown, detail,
                   effect, fetches, asked>>

\* The calls that stay, told that one the user had left was answered, or one
\* that had been told so itself.
Rest(c) ==
    {IF c.left \/ c.crossed THEN [d EXCEPT !.crossed = TRUE] ELSE d : d \in calls \ {c}}

\* Whatever comes is shown, and ends the submission; success loads the
\* assessments of whoever is selected by then.
RunPeriodEvaluation(c) ==
    /\ calls' = Rest(c)
    /\ submitting' = FALSE
    /\ \/ /\ c.at = "made" /\ reloads < MaxRuns
          /\ notice' = [person |-> c.person, kind |-> "success", left |-> c.left]
          /\ reloads' = reloads + 1
       \/ /\ notice' = [person |-> c.person, kind |-> "error", left |-> c.left]
          /\ UNCHANGED reloads
    /\ UNCHANGED <<person, selected, shown, detail, effect, fetches, asked, row, ids>>

\* Another request replaces the assessment.
Replace(p) ==
    /\ row[p] # NoId /\ ids < MaxIds
    /\ ids' = ids + 1
    /\ row' = [row EXCEPT ![p] = ids']
    /\ UNCHANGED <<person, selected, submitting, notice, reloads, shown, detail,
                   effect, fetches, calls, asked>>

Next ==
    \/ \E l \in {"rows", "detail"} : StartResourceEffect(l)
    \/ \E f \in fetches : Serve(f) \/ RunFetch(f) \/ FetchFails(f)
    \/ \E p \in Persons \cup {None} : HandlePersonSelect(p)
    \/ \E id \in 0..MaxIds : HandleSelectChange(id)
    \/ HandlePeriodSubmit
    \/ \E c \in calls : Evaluate(c) \/ RunPeriodEvaluation(c)
    \/ \E p \in Persons : Replace(p)

Spec == Init /\ [][Next]_vars

------------------------------------------------------------------------------
(* Properties *)

TypeOK ==
    /\ person \in Persons \cup {None} /\ selected \in 0..MaxIds
    /\ submitting \in BOOLEAN
    /\ notice.kind \in {"none", "success", "error"}
    /\ reloads \in 0..MaxRuns /\ ids \in 0..MaxIds
    /\ \A p \in Persons : row[p] \in 0..ids
    /\ \A c \in calls : c.person \in Persons /\ c.number \in 0..asked

\* The contributions shown are those of an assessment of the selected person,
\* "blocking wrong requests for the details of another's assessment"
\* (DashboardView.tsx:757), though lists and clicks overtake each other.
DetailOfSelection ==
    UpToDate =>
        /\ shown.at = "shown" => shown.person = person
        /\ detail.at = "shown" => detail.row = selected
        /\ \A p \in Persons \ {person} : selected # NoId => row[p] # selected

\* Once an evaluation is said to have succeeded, the list that is shown has
\* the assessment it made.
SuccessIsListed ==
    notice.kind = "success" /\ notice.person = person /\ UpToDate /\ shown.at = "shown"
        => shown.row # NoId

\* What is said of another person's evaluation was left by selecting someone
\* else meanwhile; two evaluations run at once only if the first was left, or
\* one that was left answered for it, or for one that answered for it in turn
\* (DashboardView.tsx:765, :777).
CrossedOnlyByLeaving ==
    /\ notice.kind # "none" /\ notice.person # person => notice.left
    /\ \A c, d \in calls : c.number < d.number => c.left \/ c.crossed
==============================================================================
