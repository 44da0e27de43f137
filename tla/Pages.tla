--------------------------------- MODULE Pages ---------------------------------
(***************************************************************************)
(* The stateful components of the web page, and the downloads of exports.  *)
(* They share no state with each other: the initial state chooses a scene, *)
(* and only the component of that scene moves.  The scenes take their      *)
(* variables from one pool, so that a state is no wider than the widest; a *)
(* property is about the states of its scene.                              *)
(***************************************************************************)
EXTENDS Integers, FiniteSets, Sequences

CONSTANTS
    Rows,          \* of a section of the admin page
    Users, Files, Persons,
    Scopes,        \* of exports
    REFRESH_POLL_MAX_FAILURES,
    MaxClicks, MaxLists,  \* bounds of each section
    MaxEvents,     \* bound of the shell
    MaxLoads, MaxWrites,  \* bounds of the panel of imports and exports
    MaxNow, MaxJobs,      \* bounds of the downloads
    MaxIds, MaxReads, MaxAsked,  \* bounds of the dashboard
    MaxRuns, MaxChanges   \* bounds of the panel of re-evaluations

\* Instants are counted, and a scope is of one of three kinds.
ASSUME ScopesAssumption ==
    \A s \in Scopes : s.scope \in {"full", "range", "partial"} /\ {s.start, s.end} \subseteq Nat
ASSUME BoundsAssumption ==
    /\ {MaxEvents, MaxLoads, MaxWrites, MaxNow, MaxJobs, MaxIds, MaxReads, MaxAsked,
        MaxRuns, MaxChanges, REFRESH_POLL_MAX_FAILURES} \subseteq Nat
    /\ MaxNow > 0 /\ MaxLoads > 0 /\ MaxIds > 0 /\ REFRESH_POLL_MAX_FAILURES > 0

\* Names of users, files and rows are not the word for none.
ASSUME NamesAssumption == "none" \notin Users \cup Files \cup Persons \cup Rows

VARIABLES scene, x1, x2, x3, x4, x5, x6, x7, x8, x9, x10, x11, x12, x13

vars == <<scene, x1, x2, x3, x4, x5, x6, x7, x8, x9, x10, x11, x12, x13>>

Handlers == INSTANCE AdminHandlers

\* Each section of the admin page has its bounds.
ASSUME SectionsAssumption ==
    /\ MaxClicks \in [DOMAIN Handlers!Sections -> Nat]
    /\ MaxLists \in [DOMAIN Handlers!Sections -> Nat \ {0}]

Admin == INSTANCE AdminScreens WITH
    section <- x1, version <- x2, picked <- x3, nonce <- x4, effect <- x5,
    view <- x6, fetches <- x7, gate <- x8, calls <- x9, acked <- x10,
    editing <- x11, guess <- x12, clicks <- x13,
    Sections <- Handlers!Sections, MaxRuns <- MaxLists
Shell == INSTANCE ShellSession WITH
    view <- x1, user <- x2, attempted <- x3, loadRan <- x4, banner <- x5,
    access <- x6, refresh <- x7, requests <- x8, signedIn <- x9,
    mishaps <- x10, events <- x11, gate <- x12
Data == INSTANCE DataPanel WITH
    load <- x1, exporting <- x2, importing <- x3, failed <- x4,
    confirm <- x5, pending <- x6, calls <- x7, writers <- x8, exported <- x9
Dumps == INSTANCE ExportDumps WITH
    now <- x1, rows <- x2, jobs <- x3, read <- x4
Board == INSTANCE Dashboard WITH
    person <- x1, selected <- x2, submitting <- x3, notice <- x4,
    reloads <- x5, shown <- x6, detail <- x7, effect <- x8, fetches <- x9,
    calls <- x10, asked <- x11, row <- x12, ids <- x13,
    MaxRuns <- MaxReads
Panel == INSTANCE ReEvaluationPanel WITH
    selected <- x1, submitting <- x2, shown <- x3, job <- x4, running <- x5,
    results <- x6, runs <- x7, changes <- x8, lost <- x9

Init ==
    \/ /\ scene = "admin" /\ Admin!Init
    \/ /\ scene = "shell" /\ Shell!Init
       /\ x13 = 0
    \/ /\ scene = "data" /\ Data!Init
       /\ x10 = 0 /\ x11 = 0 /\ x12 = 0 /\ x13 = 0
    \/ /\ scene = "dumps" /\ Dumps!Init
       /\ x5 = 0 /\ x6 = 0 /\ x7 = 0 /\ x8 = 0 /\ x9 = 0
       /\ x10 = 0 /\ x11 = 0 /\ x12 = 0 /\ x13 = 0
    \/ /\ scene = "board" /\ Board!Init
    \/ /\ scene = "panel" /\ Panel!Init
       /\ x10 = 0 /\ x11 = 0 /\ x12 = 0 /\ x13 = 0

Next ==
    /\ UNCHANGED scene
    /\ \/ /\ scene = "admin" /\ Admin!Next
       \/ /\ scene = "shell" /\ Shell!Next
          /\ UNCHANGED x13
       \/ /\ scene = "data" /\ Data!Next
          /\ UNCHANGED <<x10, x11, x12, x13>>
       \/ /\ scene = "dumps" /\ Dumps!Next
          /\ UNCHANGED <<x5, x6, x7, x8, x9, x10, x11, x12, x13>>
       \/ /\ scene = "board" /\ Board!Next
       \/ /\ scene = "panel" /\ Panel!Next
          /\ UNCHANGED <<x10, x11, x12, x13>>

Spec == Init /\ [][Next]_vars

------------------------------------------------------------------------------
(* Properties: those of the components, under their names there. *)

\* The variables of the scene's component have their types.
TypesOK ==
    /\ scene = "admin" => Admin!TypeOK
    /\ scene = "shell" => Shell!TypeOK
    /\ scene = "data" => Data!TypeOK
    /\ scene = "dumps" => Dumps!TypeOK
    /\ scene = "board" => Board!TypeOK
    /\ scene = "panel" => Panel!TypeOK

\* What a page shows is of what is selected, and of the runs it asked for.
\*  - A list of the admin page, once its effect has caught up, is of what is
\*    selected and holds every change that was answered (useApiResource.ts:96),
\*    though answers overtake each other; so are the dashboard's lists and
\*    details (DashboardView.tsx:757), which have the assessment an evaluation is
\*    said to have made.
\*  - What is said of another person's evaluation, and two evaluations at once,
\*    come of selecting someone else meanwhile (DashboardView.tsx:765).
\*  - The panel shows the result of the run it asked for or of a later one, says
\*    that a result is lost only if the server restarted
\*    (adminScheduleRunners.ts:246), and shows of another person only what was
\*    asked for before the selection changed.
ShownIsOfSelection ==
    /\ scene = "admin" => Admin!ShownIsCurrent
    /\ scene = "board" => /\ Board!DetailOfSelection
                          /\ Board!SuccessIsListed
                          /\ Board!CrossedOnlyByLeaving
    /\ scene = "panel" => /\ Panel!ResultOfRunAsked
                          /\ Panel!ForeignResultOnlyByLeaving

\* What is in flight is what the page shows to be, whichever way calls end.
\*  - No kind of change is sent while one of its kind is in flight; only the
\*    identity rows let other rows through, and double a row only if another came
\*    in between (adminServiceIdentityRowActions.tsx:123).  No gate stays shut
\*    and no guess stays drawn without its call.
\*  - The import plan that is shown is that of the file that would be sent, and
\*    one load of the page has one transfer in flight (useAdminImportExport.ts:130).
InFlightIsAsShown ==
    /\ scene = "admin" => /\ Admin!OneRequestPerGate
                          /\ Admin!RowDoubledOnlyAfterOther
                          /\ Admin!GatesFollowCalls
    /\ scene = "data" => Data!ConfirmNamesItsFile

\* The shell shows who logged in last, and the cookies are theirs, or a mishap
\* explains it: cookies that outlived a logout or came late, a refresh answered
\* after a logout, a login answered twice (AppShell.tsx:425, apiClient.ts:76).
\* The gate lets in exactly to the views inside, unless a login's form was gone
\* before its answer, or a set-up was answered inside (AuthGate.tsx:67,
\* AppShell.tsx:469).
\* Nobody who is logged out is told of a running evaluation (AppShell.tsx:392).
ShellIsOfSession ==
    scene = "shell" =>
        /\ Shell!UserIsOfSession
        /\ Shell!CookiesAreOfSession
        /\ Shell!GateIsOfView
        /\ Shell!BannerOnlyInside

\* No step does what nobody asked for.
\*  - An edit form goes only when it is cancelled or its own row was updated, or,
\*    if it was opened during an update, with that one (useAdminPersons.ts:195).
\*  - Who leaves is let in again without a password only if two mishaps meet
\*    (AppShell.tsx:329).
\*  - A restore replaces the rows its plan was made from, unless others changed
\*    them since (useAdminImportExport.ts:151).
NothingHappensUnasked ==
    [][/\ scene = "admin" => Admin!EditEndsAsAsked
       /\ scene = "shell" => Shell!LetInByTwoMishaps
       /\ scene = "data" => Data!RestoresWhatWasPlanned
      ]_vars

\* Every table of a dump is of one instant of the download
\* (export-full-record-collect.ts:73); and a full dump has an assessment without
\* its person only if that person came or went while it was made
\* (export-job.service.ts:465).
DumpsAreOfTheirTime ==
    scene = "dumps" => Dumps!TablesOfOneInstant /\ Dumps!DanglingOnlyIfRaced

\* An export without a scope is "left to the server's default scope"
\* (web/src/api/exportJob.ts:28), so it is not refused.
NoScopeIsServersDefault == scene = "data" => Data!NoScopeIsServersDefault
==============================================================================
