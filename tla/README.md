# Verification of the Assessment-Agent

The backend (`src/src`, NestJS over PostgreSQL through Prisma) collects what people did on
GitHub and Confluence, has a language model score it, and stores one `Assessment` row per
coordinate (person, period, scope, period start). A React page (`src/web/src`) shows the results
and administers people, targets, providers, schedules, exports and imports. This directory holds
TLA+ modules of both, the TLC runs that check them on small instances, and theorems about them
that TLAPS has checked for every value of the constants.

## Inventory

| Part | State it keeps | Operations | What is hard |
|---|---|---|---|
| Run status (`run-status/`) | start times of the runs in progress per axis, last evaluation run | begin, end, recordEvaluationRun, snapshot | `end` does not know which run ended |
| Evaluation tick (`scheduling/evaluation-tick-runner`) | `current`, `stopping`, `tally` | run, execute, onModuleDestroy | overlapping ticks, failures of a window, person or coordinate, shutdown between awaits |
| Recent-days refresh (`scheduling/recent-deletion-*`) | `current`, `stopping`, results per person | startRefresh, executeRefresh, refreshStatus, onModuleDestroy | an await before the check for other runs; replacing rows that others read |
| Calendar and plans (`common/period-boundary`, `scheduling/*-window`, fill planning) | none | periods, windows, intended and missing coordinates | turns of clocks and months, windows still open, duplicates |
| Evaluation endpoints (`assessment-evaluation/*.controller`) | none of their own | evaluate, period, fill-plan, fill-run, reset, summary | begin/end on every path, isolation of failed coordinates |
| Assessment store (`evaluation-result-persist`, `period-bridge-admin-persist`) | `Assessment` and `Contribution` rows | persist (fill, reeval), resetByPeriod, read-back | read, delete, create in one READ COMMITTED transaction; conflicts; read-back after the commit |
| Summary store (`summary-persist`, `summary-batch-orchestrator`) | `Summary` rows | persistSummary, resetByPeriod, roster loop | the same transaction with fewer errors mapped |
| Evaluation pipeline (`assessment-evaluation/domain`) | none | map, deduplicate, score, seven adjustments | order and repetition of the input, floors |
| Collection (`assessment-collection/`) | placeholder rows and contributions | triggerCollection, collectForPerson, persistActivities | many writes outside a transaction; what counts as complete |
| Adapters and targets (`github/`, `confluence/`, `collection-target/`) | target rows | merge with the environment, paged reads | page caps, partial failures, two spellings of one key |
| Backfill (`scheduling/backfill-*`) | none of its own | runBackfill | its own rows make the next run skip |
| Cron schedule (`scheduling/cron-schedule`) | timers in memory | registerOrReplace, remove | lost at a restart |
| Import (`import/`) | `ImportJob` rows, every table it restores | createJob, runJob, restore, preview | guard before the job runs, crash with a running job, delete and insert order |
| Export (`export/`) | `ExportJob` rows | createJob, preview, download | reading table after table while they change; formats written twice |
| Chunks of dumps (`export/*chunk*`) | none | cut, check, fetch again, resume, send again | last chunk, doubled and reordered chunks |
| Service identities, users, groups, parts (`user/`) | their rows | create, setPrimary, delete, changeRole, signup | read-then-write without a transaction |
| Authentication (`auth/`) | tokens in cookies | login, refresh, logout | a refreshed token keeps its role |
| LLM providers (`llm/`) | configs, default slot, difficulty mapping | create, update, delete, setDefault, seed, resolve | slots that refer to configs being deleted |
| Permission records (`permission-denied/`, `user-instance-access/`) | records, grants | emit, list, grant, revoke | two reads, two spellings |
| Routes (`*.controller.ts`, `dto/`, guards) | none | one per route | order of the routes; a contract written twice |
| Web page (`web/src`) | lists, selections, forms, gates, a session | sections of the admin page, dashboard, shell | answers out of order, clicks while calls run |

How they interact: the tick, the refresh and the fill-run call the period bridge once per
coordinate; the bridge collects, scores and calls the assessment store. All of them bracket
their work with `RunStatusService.begin`/`end`, and the refresh reads `snapshot()` to decide
whether it may start. The evaluate endpoint and the summary endpoint call their stores
directly. All share one Node.js process, so code between two awaits runs alone, and one
PostgreSQL database, where only statements, transactions, unique keys and foreign keys order
the calls. The page talks to the server by the routes only, with cookies for a session.

What makes each part correct:

* run status: the number of runs shown is the number alive, on every path; the start time is
  not later than that of a live run;
* tick and refresh: one of each at a time; a refresh begins only when nothing else evaluates;
  the report accounts for the plan; after shutdown nothing new is entered and everything ends;
* calendar and plans: periods tile time; a window is closed when it is evaluated; each hour is
  collected once per period; a run that is repeated owes only what failed;
* assessment store: each call takes effect at one instant; fills never change a row; replacing
  never shows a gap; a refusal or an empty read-back has another call as its cause; nobody
  waits for ever;
* summary store: the same; and a reset removes both kinds of row or says it did not;
* collection and backfill: a failed attempt does not count as a finished one, and a complete one
  missed only what a page cap cut off;
* scoring: neither order nor repetition of the activities matters, but for ties;
* import and export: all of a restore or nothing, a job that does not stay running after its
  work has ended, and files, previews and restores that agree with each other;
* service identities, accounts, providers, members: each inconsistency needs a race;
* the page: what it shows is of what is selected and of who is logged in, nothing is sent twice
  at once, and it offers what the server serves.

## Modules

| Module | What it is |
|---|---|
| `RunStatus` | `RunStatusService`: start times as a sequence per axis, a clock, the last run |
| `EvaluationRuns` | extends `RunStatus`: tick, refresh, requests, fill-run and shutdown on one event loop |
| `EvaluationRunsProofs` | theorems about `EvaluationRuns` |
| `Entries` | functions: entries of a sequence at some of its places, and totals |
| `KstPeriods`, `FillPlanning` | functions: periods of a zone, windows, plans, requests, outcomes |
| `CoordinateMap` | the abstract specification of the store: a map from coordinates to rows, one indivisible step per call |
| `AssessmentStore` | persist, resetByPeriod and the bridge's read-backs over PostgreSQL transactions; implements `CoordinateMap` |
| `AssessmentStoreProofs` | theorems about `AssessmentStore`, the refinement of `CoordinateMap` among them |
| `SummaryBatches` | summaries, the roster batch, and the reset over both stores |
| `EvaluationScoring` | functions: from activities to stored results |
| `Collecting` | the collection request and the backfill, write by write |
| `ActivityCollection` | functions: instances in force, calls, paging, mapping, deduplication, completeness |
| `RestoreTables` | what an import does to sets of rows: the plan, the deletes, the schema's cascades and restrictions, the inserts |
| `ImportJobs` | extends `RestoreTables`: an import request from the guard to its job's last status |
| `ImportJobsProofs` | theorems about `ImportJobs` |
| `ExportDumps` | downloads read table by table while rows change |
| `TransferFiles` | functions: selection, dump, previews, validation, plan and steps of a file |
| `ChunkTransfer` | functions: chunks of a dump, sent, checked, fetched again, resumed |
| `ServiceIdentities`, `UserAccounts`, `LlmProviders`, `Roster`, `InstanceAccess` | the handlers of these rows, statement by statement |
| `ServerRoutes` | every route with its tier and body, as the server matches and checks calls |
| `PageCalls` | every call the page can send, and to whom it offers it |
| `AdminHandlers`, `AdminScreens` | the sections of the admin page |
| `DataPanel`, `ReEvaluationPanel`, `Dashboard`, `ShellSession` | the import/export panel, the re-evaluation panel, the dashboard, the shell with its session |
| `MCEvaluationRuns`, `MCAssessmentStore`, `MCImportJobs`, `MCCollecting` | values, symmetry and views for TLC |
| `Records`, `Pages` | components that share no state, one scene each |
| `CollectingProofs`, `RecordsProofs`, `PagesProofs` | theorems about `Collecting`, `Records`, `Pages` |
| `FunctionScenes` | the functions as further scenes of the pool of `Pages`: their inputs and properties |
| `FunctionProofs` | theorems about `KstPeriods`, `FillPlanning`, `EvaluationScoring` and `ChunkTransfer`, for every input |
| `FunctionScenesProofs` | theorems about the scenes *calendar*, *planning*, *scoring*, *arriving* and *sending* of `FunctionScenes`, and about the ranges of `ChunkTransfer` that are fetched again |
| `MCRecords`, `MCPages` | values, bounds and symmetry for TLC |

### EvaluationRuns

An element of `Execs` is one async call in flight. `ctl[e]` says which await it is at and `loc[e]`
holds its locals; the other variables are fields of the services (`tickCurrent` is
`EvaluationTickRunnerService.current`, `results` is `RecentDeletionRunnerService.results`, and so
on). One action is the code from an await's resumption to the next await, so the interleavings
are those of JavaScript. `settled` is the turn between the end of a run and the `finally` callback
that clears `current`. What an awaited call answers (a plan, a person with or without identities,
an outcome per coordinate, a rejection) is a free choice. `owed` is a history variable: how many
outcomes the plan obliges the report to mention.

### AssessmentStore

An element of `Calls` is one call of the bridge, of the evaluate endpoint or of a reset. `row`
holds the id of the committed row of a coordinate, `holder` the transaction with an uncommitted
write of it, `call[c]` the record of locals. The statements of the transaction are actions of
their own: the read (`ReadCoordinate`), the delete (`DeleteExisting`), the create with its
contributions (`CreateRow`), the commit. They follow PostgreSQL's READ COMMITTED, the level the
code gets by naming none: reads do not wait, writes wait for the holder and then look at what it
left. `DeleteExisting` finding its row gone is P2025 and `CreateRow` finding one is P2002, and both
leave `persist` as a ConflictException, which only the bridge's fill handles. `Abort` is a
transaction the database fails, `Crash` the death of the server process, `GiveUp` an
incomplete collection or a failed scoring. A ticket numbers the calls and is the id of the row a
call creates. `raced[c]` is a history variable: the coordinates of `c` that another call changed
since `c` began.

`CoordinateMap` states what callers may rely on: `Start`, then one of `Write`, `Keep`, `Clear`,
`Refuse`, `Fail`, then `Close`. The refinement mapping forgets the locks and the program counter
(`TaskOf`); a commit maps to `Write` or `Clear`, a conflict to `Refuse`, everything else in a
transaction to a stutter.

### ImportJobs

An element of `Imports` is one upload to `POST /api/admin/import`. `at[r]` is the database call it
waits for, `loc[r]` its locals, `job[r]` the status of its `ImportJob` row, `table` all rows of the
database. One action is the settling of one call and the code up to the next one: the guard's
query (`Admit`, `Refuse`), the creation of the job, `markRunning`, the `findMany` of each exported
table (`Read`, side by side and without a snapshot, as `Promise.all` runs them), the `deleteMany`
of each entity (`Delete`, children first), the `createMany` calls with the commit (`Commit`), and
the job's last status. `Plan` is the code after the last read: it refuses the upload or makes the
plan. What was uploaded is chosen there, where it first matters.

A row is its entity, id, `createdAt` and owner. The restore identifies rows by entity and
`createdAt` (`SameKey`), the database by id, and the schema's foreign keys cascade from a person
to its assessments and their contributions and refuse to delete a model configuration in use.
`doomed` is what the open transaction's deletes have locked; it is applied, with the cascades, when the
transaction commits, because READ COMMITTED shows nothing before. `late` is a history variable:
the rows others added since the request began to read. `Write` and `Erase` are the rest of the
application.

`CallFails` is any call that fails, a transaction's timeout included: inside `restoreFromDump`
it leads to `recordFailure`, elsewhere it ends the request and leaves the job as it is, since
`markSucceeded` stands outside the `try` and `recordFailure` drops its own error. `Crash` loses
every request and open transaction; nothing in the code looks at old jobs afterwards.

### Collecting and ActivityCollection

`Collecting` is `triggerCollection` and `runBackfill`, one action per write: the placeholder row
(`CreatePlaceholder`), the listing of each source (`Listed`), one `contribution.create` after the
other, and for a backfill the next window. `Since` is where a collection goes back to.
`missed` is a history variable: what a failed source, a removal or an evaluation's own assessment
accounts for. Two collections whose windows overlap each store what they list under an assessment
of their own: duplicates are removed among the activities of one collection only, and the unique key of
contributions is per assessment. `DoneMeansDone` asks for each activity of the window under some
assessment of the person and would hold as well if the overlap were left out; `collecting_overlap`
is about the comments that say it is. A later backfill of a person who has an
assessment collects nothing (`backfill-runner.service.ts:67`).

`ActivityCollection` says what one collection returns, as functions of the environment, the
registered rows (read before the calls: they may differ by then), the answers of the services and
their failures: which instance counts for a name, which repositories and spaces are asked, how
many pages are read, how answers become activities, which are one, and when the result counts as
complete.

### Records

`Records` holds the components that share no rows with each other, one scene each (the parameters
of all are its constants; `MCRecords` only gives them values and a symmetry):

* `SummaryBatches` (scene *summaries*): a summary request, the roster batch, and the reset that
  removes assessments and then summaries. `stamp` numbers the writes, `touched`, `emptied` and
  `half` remember when a coordinate was last changed or half reset.
* `ServiceIdentities` (*identities*): create, set primary, update and delete; setting a primary
  one is a transaction of two updates. `doubled` and `loose` remember the races.
* `UserAccounts` (*accounts*): signup, login, refresh, change of role. A token carries the role of
  the moment it was made. `held` is when a user last had the role.
* `LlmProviders` (*providers*): configurations, the default slot, the difficulty mapping, its seed
  and what resolves them for a tick, an evaluation or a refresh.
* `Roster` (*people*): persons and groups that come and go, memberships, listing member by member.
* `InstanceAccess` (*access*): grants and permission records, with two spellings of an instance.

In each, `caller[c]` is a request with its place and locals, and one action is one statement.

### Pages

`Pages` holds the web page and the downloads, one scene each, and `FunctionScenes` adds the functions.
A scene takes its variables from the pool `x1` to `x13`, so a state is as wide as the widest scene. The
names behind the arrows of the `INSTANCE`s say which variable is which.

* `AdminScreens` with `AdminHandlers` (*admin*): one of the nine sections of the admin page. A
  fetch carries the version of the rows it was answered with and the selection and nonce it was
  asked for; a call is in flight, served or answered. `gate` is what forbids a second click, `passed`
  the history of a call whose row's mark is not its own any more (another row's call followed it, or
  a passed call of its row ended and cleared the mark). An edit form cannot be cancelled during an update,
  except in the sections of identities and of collection targets (`holdsEdit`).
* `DataPanel` (*data*): export, import preview and confirmation. `writers` is the history of who
  changed the rows. `Dashboard` (*board*) and `ReEvaluationPanel` (*panel*): selections, lists,
  details, an evaluation and a refresh with its polls. `ShellSession` (*shell*): login, logout,
  boot, set-up, refresh of cookies and the poll of the banner, with the `gate` (`AuthGate`) that keeps
  its own idea of who is in beside the `view`. A request that is refused, a wrong password too,
  has the cookies renewed and is sent once more; `mishaps` names what outlived its session or its form. On
  the board `left` and `crossed` are the history of an evaluation from which the user turned to
  somebody else, and of one on its way when the answer of such a one ended the submission for it.
* `ExportDumps` (*dumps*): a download that reads one table after another while rows change.
* `KstPeriods` (*calendar*) and `FillPlanning` (*planning*): the calendar of a zone, as hours
  since an epoch, with the turns of its clocks; windows, plans, requests as texts that are read
  back, outcomes and counts.
* `ChunkTransfer` (*sending*, *arriving*), `TransferFiles` (*transferring*),
  `ActivityCollection` (*gathering*), `EvaluationScoring` (*scoring*).
* `ServerRoutes` and `PageCalls` (*routing*): each side of the contract is translated from its own
  code; `Serves` matches a call with the routes in the order in which they are declared, checks
  the tier and the body.

In the scenes of functions the state is the input and a step goes to a neighbouring one, so TLC
compares them with what is required of them on every input within the bounds.

## Runs

| Run | Instance | Shows |
|---|---|---|
| `runs` | 2 calls, 1 person, 2 windows with slots of their own, clock to 1, fair | counter, exclusion, refresh admission, stale results, start times, shutdown, types, reports that account for plans; runs and shutdown end |
| `store_kinds` | 2 calls of every kind, 2 coordinates, one of which has a row, fair | refinement of the map, read-backs, no gap; every call is answered |
| `imports` | 2 imports, a configuration and a row that refers to it, 1 failure, fair | a status never contradicts the tables; a replace leaves only late rows; imports end |
| `import_merge` | 1 import, a person under two instants and an assessment | violated: a merge deletes rows it planned to keep |
| `import_own_export` | 1 import, the rows of `imports` | violated: a dump of the present tables cannot be inserted |
| `collecting` | 2 calls, 3 weeks, 2 weeks of backfill, clock to 3, 1 assessment of others | nothing is lost between collections; done means done |
| `collecting_refs` | the same, with pull requests of one number | violated: two activities cannot both be stored |
| `collecting_overlap` | 1 backfill of 3 weeks | violated: what was stored is stored again under a later assessment |
| `records` | 2 callers, 2 of each kind of row, 3 or 4 writes | the scenes of `Records` |
| `records_tick` | the same | violated: a tick does not find the provider it resolved |
| `pages` | 2 rows, persons, files or users | the scenes of `Pages` and of `FunctionScenes` |
| `pages_export` | the same | violated: an export without a scope is refused |

What `records` and `pages` check is named by what the scenes have in common; each property is a
conjunction of one part per component:

* `SummariesAreAsTold`, `OnePrimaryUnlessRaced`, `ServedUnlessMoved`, `ListsHoldWhatWasThere` and, of
  steps, `NothingTakenUnasked`: an inconsistency of rows has a race, a failure or a request as its cause.
* `ShownIsOfSelection`, `InFlightIsAsShown`, `ShellIsOfSession` and, of steps,
  `NothingHappensUnasked`: the page against the server, under late and lost answers.
* `DumpsAreOfTheirTime`, `TransfersAreAsAnnounced`, `ResendingCompletesDump`: from the rows to the
  file, its chunks (as they are sent, `SentAgainIsDump`, and as they arrive, `ArrivedAndAskedAreDump`),
  its preview and its restore.
* `PeriodsTileTime`, `RunsOnlyWhatIsOwed`, `CompleteIsComplete`, `ScoresAreOfTheWork`,
  `PageAndServerAgree`: the functions.

Why the bounds are enough. Two calls overlap, and a slot of `Execs` is free again when its call ends,
so sequences of any length occur: a tick while a refresh reads its person, a run that begins and ends
while another is on. What more calls at once could do is left to the proofs, which hold for any number:
all the properties of `runs` but its liveness are theorems. Two windows let one fail while the other is
accounted for; a view leaves out the numbers of finished reports, which no action reads. In the store a conflict needs two calls;
`MaxTickets` counts those that may start, the old row's included, and the theorems hold for any number. `MaxClock` bounds the clock: order matters to
`startedAt`, not distance. Two imports are all that can interact, since each sees the other only
through `table` and `job`; `MaxFaults` is 1 because each failure is a different place to stop. The
rows of `import_merge` are the smallest with both a cascade and a row under two instants, those of
`imports` have the restricting key and the required column. Three weeks and two of backfill allow
a collection before, inside and after one. In `records` two callers race for two rows, and the
history variables make a race visible as long as three or four writes can happen.

In `pages` four evaluations are asked for, because with three an answer never reopens the panel for a
third call. The two rows are the one that is selected and another one; clicks, reloads and runs are
bounded per section (`Bounds`), at two or three each: one, one that overtakes it, and one after it.
Three changes of the identity rows are too few for what needs four (a row that is doubled, cleared and
doubled again); four are too many states for TLC, and the theorem covers them.
The calendar has three zones (none, southern and midnight turns of the clocks) around the turns of
clocks and months of 2026. A plan is of two days asked of two persons, one named
twice; two of its requests end in any way, with any rows of days there before. During a download two
writes of the application come between its queries, enough to add a row and to remove what it
refers to. A dump has 0 to
5 bytes in chunks of 1 to 3, and up to four arrivals. In *gathering* up to two works, or more at one
place, are found in pages of one of which two are read, with at most one failing call; the rows
may change between their reading and the calls. In *scoring* up to three of nine activities come in
any order, repeats allowed. In *transferring* up to two rows are exported into four systems under
four scopes and both modes, and one thing of the file is damaged. In *routing* every role asks
every call that is offered to anyone and one of every route; values of fields are empty, blank or a
text, and no id is spelled like a path segment.

Where the bounds stop calls (`store_kinds`, `collecting`, `records`, `pages` and the runs made of
them) the configurations turn the deadlock check off. Symmetry is over calls, callers and rows,
and only in runs without liveness.

Fairness: `WF` on the steps of a call in flight says that awaited promises settle, which the HTTP
clients' timeouts and the database's give; nothing is assumed about timers and requests. In the
store `SF` on a call's steps says that PostgreSQL serves those who wait for a row in turn, as its
lock queue does. `Abort`, `GiveUp` and `Crash` are never required. In `ImportJobs`
`WF` on the steps of a request says that every database call settles; `Request`, failures and other
writers are not required. The page promises nothing to happen: its calls may hang, and no liveness
is claimed of it.

### What the violated runs show

* `import_merge`: `import-mode-description.ts:98` says a merge deletes nothing and
  `import-restore-plan.ts:53` that rows without a conflict are kept. Replacing a person deletes it
  first, and the cascade takes its assessments.
* `import_own_export`: `UC-07:21` says a restore brings back the configuration. An export leaves
  `apiKey` out and the insert needs it, so any export with an `LlmConfig` row fails to restore as a whole.
* `collecting_refs`: `contribution.service.ts:19` says a contribution has no unique key. It has one
  over the bare number, so pull requests of two repositories with one number end the collection half way.
* `collecting_overlap`: `recollection-window.ts:9` says that the removal of duplicates absorbs the week
  that is gone over again. It looks at the activities of one collection, so each collection stores
  that week once more under its own assessment, in one backfill without any race.
* `records_tick`: `llm-gateway.interface.ts:48` calls the option a modelId. The tick passes one, the
  gateway looks for the id of a configuration and finds none.
* `pages_export`: `web/src/api/exportJob.ts:28` leaves the scope to the server. The server
  requires one, and none the page can send is among those it knows.

### Where a text says more than the code keeps

These have no run, because the runs check what the code does keep instead, because one call shows
them, or because nothing in production calls the code.

Runs, store and imports:

* `run-status.service.ts:34` calls `startedAt` the earliest start among the runs in progress;
  `end()` pops the latest start whichever run ended. It is never too late a time: `StartedAtNeverLate`.
* `period-bridge-admin-persist.service.ts:72` says every branch gives the caller the stored row. It is
  read back by id after the commit, so a reeval or reset in between makes it an error: `ReadBackFailsOnlyAfterRace`.
* `persist-result-to-run-outcome.mapper.ts:59` says `created === false` means nothing was written. A fill
  without contributions writes a row and answers so (`period-bridge-admin-persist.service.ts:270`).
* `ADR-0044:82` and `import-job.service.ts:80` hold off a second import while one runs. The guard
  counts RUNNING jobs, and a job is PENDING between its creation and `markRunning`.
* `ADR-0044:81` says a failed import can be tried again. A job whose process died, or whose last
  status could not be written, stays RUNNING and the guard refuses all later imports.
* `import-mode-description.ts:83` says the database equals the artifact after a replace. Rows
  written between the reads and the transaction stay: `ReplaceLeavesOnlyLateRows`.
* An export job never leaves PENDING (`export-job.service.ts:9`), and a download ignores its status.
  Dumps of a range or of some entities may dangle without any race.

Plans and calendar: next to a midnight that the clocks skip (Havana) a period is an hour off. Rows
whose start is no period's start are neither found nor filled. A time of a request without
an offset is KST to `parseKstPeriodInput` and the server's time to `toEvaluationPersistContext`.

Collection and scoring:

* A page cap counts as complete: silently for GitHub, with an event nobody handles for Confluence.
* The key of pull requests and issues lacks the instance; pages of two sites with one id fall together.
* A unit's id leaves out repository and kind, so number *n* of two repositories or of a pull request
  and an issue is scored once (`UnitsSharedOnlyByNumber`); `evaluation-dedup.ts:13` means one activity.
* The peers a notable contribution is compared with are accounts of one person
  (`evaluation-notable-contribution-signal.ts:155`); commits carry no title, so their volume is 0
  and their floor "zero"; the version of a page never reaches the step that looks for it;
  `resolveSourceType` is always empty.
* The batch orchestrator for results, `partId` of identities, and several chunk and
  file functions (preflight, size, conflicts, confirmation, audit) have no production caller;
  they are modelled as functions because tests and texts describe them as the contract.

Files: a record without a column passes the preview and fails the restore
(`PreviewedFilesCanBePut`); `entityCounts` may be wrong per entity if they add up; the checksum does
not see `fields`, and throws on a file whose dates were not revived;
`import-chunk-upload-progress.ts` says that complete means the last byte, which doubled
chunks can feign (`UploadCompleteUnlessDoubled`).

Page: `useAdminSchedule.ts:204` and `DashboardView.tsx:763` say no result of another person stays; a
call that was in flight at the change brings one (`ForeignResultOnlyByLeaving`,
`CrossedOnlyByLeaving`, which goes on from one such call to the next). A replaced assessment keeps being shown; lists that depend on a deleted
row are not reloaded; an identity row can be sent twice; after an error the import panel has no way
back but a reload (`DataImportExportPanel.tsx:82`).

## Proofs

All are for any sets of calls, persons, slots, rows and coordinates and for any bounds that meet the
named assumptions (finite calls and slots, `None` and `Nobody` no calls, requests within `Request`, at
least one ticket, one period and one week of backfill; ids not spelled like the states of a slot).

**EvaluationRuns.** `ControlOK` is the inductive invariant about control: for each call, where
its kind may wait, and that `current` of its runner names it from `begin` to the clearing turn. It
is needed because "one tick at a time" alone does not say that `current` is set while a tick
lives. From it follow `OneRunPerRunner`, `RefreshBeginsAlone` and, with the length of the
sequence of start times compared with the number of live calls (one `begin` adds one to each, one
`end` takes one from each), `CountsLiveRuns`. `StartedAtNeverLate` needs more, because `end` may pop another
run's time: `StartTimesOK` adds that no live run began after the clock's present value, so a
time pushed later is not before an older one; `end` drops the last entry, and the first stays
while any run lives because there are as many entries as live runs (`CountsLiveRuns`). `TypeOK` needs the
locals' types (`DataOK`), and `NoStaleRefreshResult` needs that a live refresh knows its person.
`ReportsAccountForPlan` needs `LedgerOK`: at every await what a call has counted and what it has left
make up what it owes (`Due`), which a step of another call leaves alone because there is one tick and
so one `tally`; `PersonApart` and `CoordinateDealtWith` count the coordinates of a plan.
`StoppedRunsEnterNothing` has a lemma per loop; it is about the
position of a run (await, person, coordinates left), so that it also speaks of the step from the lookup
of a person to their first coordinate.

**AssessmentStore.** `StoreInv` has three parts for each call. `Shape` says what its record
holds at each place. `Current` says that the row it relies on is still there or `raced` names the
coordinate. `Locks` says which coordinates it holds at which place, and that a committing call
holds its own. `OthersKeep` proves once that a step of one call keeps the parts of the others,
because it changes rows only where it holds the lock and records what it changed (`Frame`); then
each action has one lemma for its own call. `TypeOK`, `ReadBackFailsOnlyAfterRace` and
`RowsSurviveEvaluation` follow. `StoreImplementsMap` is the refinement: initial states map to
initial states, and each action to its abstract step or a stutter, using `StoreInv` for the
guards (a commit of a fill finds no row because it holds the coordinate; a reset has dealt with
every row it saw).

**ImportJobs.** `ImportInv` is `TypeOK` with `Covered`, which follows a replace through its phases: while it
reads, an exported row is in a table still to be read, has been read, or is late; while it
deletes, a row is late, locked, or read and of an entity still to come; at the inserts every row
that is not late is locked. It is needed because nothing relates a row in the tables to the plan once
others may write. `CoveredAfterAdding` and `CoveredAfterRemoving` prove once that rows others add or remove
keep it. `ReplaceLeavesOnlyLateRows` follows at the commit. `RecordTellsOutcome` needs `Agrees`:
which status a job has, and whether its transaction has committed, at each place of its request.
Both hold for any set of rows, imports, writers and failures; the assumptions are that `None` is no
import and that the rows have an exported entity among them.

**Collecting.** `CollectingInv` is `TypeOK` and `ControlOK` (where a request is and which weeks it was
given) with three parts. `AllAccounted`: every activity up to the start of a stored assessment is
stored, is `missed`, or is `Pending`: a call under way will list it, or has listed it and will store
it. The same holds for what a call leaves out that has derived its time from the assessments.
`NothingLost` alone is not inductive, since a window that begins where the last one ended says
nothing of what came before. `WindowCovered`: once a collection has listed its activities, each one of
its window is stored, missed or still to do, which `DoneMeansDone` reads at the end. `OneClaims`: unless an assessment was removed, the week `PlanWeeks`, which is in
the plan of every backfill, is claimed by at most one request, so that two backfills never work at once.
That a nonempty set of weeks has a latest one (`LatestExists`) comes from the well-foundedness of
strict inclusion among finite sets.

**Records.** Every run of `Records` is a run of each component, because the others leave its
variables alone (`RunsOf...`); so each component has an invariant of its own, proved by itself, and the
theorems put them together.

* `AccessInv`: a listing that is under way has read grants that were there while it was made, and knows
  those that were there all along. `PeopleInv`: a membership to be written has persons and groups that its
  foreign keys find (`MembersExist`), and a listing knows the members it has seen and those that stayed,
  and has found or is to look up each one that stayed (`Saw`).
* `ProviderInv`: `References` (slot and mapping refer to configurations that are there) and `Follows`
  (what a request has resolved is still there, or something moved after it began).
* `AccountInv`: `Established` says what each request has found out of the roles. An actor of a
  change of role was SuperAdmin when the request looked, so it still is, or `held` has noted the
  later write; this gives `RolesFromSuperAdmins` and, because nobody steps down alone,
  `SomeSuperAdmin`.
* `IdentityInv`: `ClearsAll` (a transaction that none has crossed clears every primary row), from which there
  is one unless `doubled`; and `ReadAll` (a request that none has overtaken has read the rows
  there are), from which a delete finds a successor and a create knows that it is the first: a
  person with rows has a primary one, or `loose` is set, or somebody is about to set one.
* `SummaryInv`: `AllSeen` and `AllGone` (of the rows that were there when a reset began, those left
  have been seen, and then none is left), `WriteSees` (the row a request has read is as it was, or was
  touched since), `BatchDid` (outcomes and the rest make up the roster, each outcome with a summary or a
  rival), and `OrphansPend` (an orphaned summary is about to be removed by a reset that has seen
  it, or a reset failed half way after its assessments went). `KeptByOthers` proves once that a commit of one
  request keeps what the others rely on.

**Pages.** A run of `Pages` stays in its scene (`ScenesStep`), so `PagesInv` has an invariant per scene, and
every property of the page and of the downloads follows from it, for any rows, users, files, persons,
scopes and bounds. It is assumed that the names are not the word for none, that scopes are of the three
kinds, and that each section allows at least one read of its lists.

* `CallsInv` and `ListsInv` (admin). `SectionsAreSound` says what the proof needs of the table of handlers: a change
  loads every list it writes, handlers of one gate are guarded in one way, only a gate that is
  not read row by row closes a form. Then `GateHolds` (a gate holds the row of the call at it, but for the
  passed ones of the identity rows) gives `OneRequestPerGate` and `RowDoubledOnlyAfterOther`, `FormFits` the
  edit forms. `FetchFits` is the cause of `ShownIsCurrent`: a fetch of the latest run of
  an effect has read every change that was answered, or the list's nonce has moved on since, so that the
  list is not up to date. Without the nonce it would be false between an answer and the next run.
* `ShellInv`: what each request on its way stands for (`WantedFits`); a request that is still wanted was sent from a
  state like the present one, since every change of view or user cancels it (`BecomingCancels`). The gate
  agrees with the view (`Matched`) but after the answer to a login whose form was gone, which shows the
  form on a view inside, or to a set-up that was submitted before a login was answered, which shows
  the view outside behind an open gate. There a logout finds the view unchanged and so does not cancel a
  restore under way, which lets its user in again: `LetInByTwoMishaps` names this (`Ousted`).
* `DataInv`: a call of the present load is what the panel waits for (`CallIsShown`), so one load has one call;
  the plan of a call is of rows its load has not written since (`PlanHolds`).
* `BoardInv`: an assessment that somebody was shown is stored for nobody else (`IdsAreOwned`), fetches are of
  their effects, and a list read since an evaluation answered has its assessment (`SuccessIsStored`).
* `PanelInv`: the run a job asked for goes on, or there is a result of it or a later one, or the
  server restarted (`RunIsAccountedFor`).
* `DumpsInv`: a request knows what the tables held at every instant it has seen and the rows that were there all
  along (`Witnessed`), each of those states is whole, and each table it has read is that of one of them
  (`ReadSoFar`).

The proofs of the page corrected its model twice. `RowDoubledOnlyAfterOther` was not inductive: a call that was
passed and ends clears the mark of its row, whose other call then stands at an open gate; and
`CrossedOnlyByLeaving` was not, because a crossed call reopens the panel like one that was left. Both need four
calls, one more than the runs allowed. `Rest` of both modules records it now, the properties say what the code
does, and the run allows four evaluations.

**Functions.** What needs no induction over data is proved of the functions, for every input and not only
the inputs within the bounds of `FunctionScenes`. From it four of the properties of `FunctionScenes` follow as theorems of
`PagesAndFunctions`: an invariant (`CalendarInv`, `PlanningInv`, `ScoringInv`, `ArrivingInv`, `SendingInv`) says which inputs a scene can
come to (a zone and an instant; an instant, a finite set of rows and a sequence of fates; a sequence of activities and
an answer; a cut and a sequence of its chunks; a cut and some places of its plan), and the theorems of the functions
hold of those.

* The calendar, for every hour before or after the epoch. A day has one year of its era of 400 years and one
  month of its year (`YearIsOne`, `MonthIsOne`: the intervals that begin at the days computed for them meet and do
  not overlap), so a date that is made of a day gives the day back (`DatesComeBack`). Days counted too far are days
  of the next month (`DaysOfNextMonth`), as the code asks of `Date`. Seoul keeps one offset, so the second pass of
  the settling changes nothing and `Midnight` is a multiple of days. `PeriodsPartition` and `PeriodsMeet` follow for
  days, weeks and months; from them `DuePeriodIsTheLastClosed`, `ClosedDaysAreWhole`, `BackfillWeeksFollow`.
* The zones whose clocks turn. The offset of a midnight is settled in two passes, as the code does it; what the
  passes give is compared with the offsets on both sides of each turn of the two zones. A day of a zone then begins at a
  midnight and ends where the next one begins, and `PeriodsPartitionZones` follows as for Seoul. Havana skips one
  midnight; next to it the settled instant is another one, which the theorem and the property name.
  `CalendarTheorem` puts this together with the windows and the backfill.
* The plans, for every range of instants. `PeriodStarts` and `ClosedWindow` are recursive functions of numbers; that they
  exist (`AnchorsExist`, `BackExists`) and what they contain is shown by least counterexample. `IsCut` is what is then used
  of them: each start is where the period before it ends, and the last end is not before that of the range. From it
  `StartsAreOfRange` (no period is left out or named twice), `IntendedAreOfRange` (rows and columns of a number),
  `EachInstantIsOfOneCoordinate` with `TextsComeBack`, `RefreshIsOfClosed`, and `ClosedWindowHoldsCount`, which goes back
  from the end and forward again over the same starts; days that are subtracted as hours are days that are gone back
  (`ClosedDaysAreClosedPeriods`).
* The requests of a plan and their runs, for every roster, range and set of rows. `EntriesAt` is how the model leaves
  out entries of a sequence; that it exists and what it contains (`EntriesAreTaken`, `FlattenedAre`) is again shown by least
  counterexample, since a recursive function of numbers can be. `RequestsAreTheGaps` and `FirstSeenIsOnce` give
  `EachInstantIsCollectedOnce` (two requests that collect one instant have one coordinate, so one text, so one place) and
  `RerunAsksForTheFailed` (the rows that are stored are the coordinates whose text was a request). `KindsAddUp` adds
  up the outcomes of a run by their kinds. `RefreshForms` and `RefreshSplitsRows` say what a refresh takes up; of three closed days
  there are three (`ThreeDays`). `PlanningTheorem` puts these together.
* The scoring, for any activities and whatever the models answer: `generate`, which gives the answer to a prompt, is a
  parameter of the functions, and nothing is assumed of it. Each of the seven adjustments keeps the author and the unit
  of an entry (`NewVolume` and the like), and those after the floor keep the level of a unit at zero:
  `TrivialUnitsStayAtZero`.
* The units. The deduplication keeps, of the inputs with one key, the earliest at the place of the first, and
  neither of its two passes finds two units that are one (`UnitsAreShared`). Copies that come later are of no place
  of a first one and win nothing from the input they are of, so the units are the same sequence (`CopiesChangeNothing`).
  Of another order of the activities the units are the same, with a bijection that tells where each is in the
  other sequence (`Match`), if no two of one unit are of one time. A signal counts the units of an author and of a kind,
  so it is equal for both (a bijection keeps cardinalities); each adjustment changes an entry by
  what the signals say of its author and its unit, so what it gives is matched by the same bijection; and totals of
  matched sequences are equal, because each is the number of cells under the sequence. With that
  `OrderChangesNothing` compares everything that is stored, the results and the narratives as sets. `LevelsAreOfTheEarliest`
  puts the earliest activity and the floor together. `ScoringTheorem` is the four of them for the scene.
* The chunks, for a dump of any length. `ChunksTileDump` and `EveryByteHasItsChunk` are about products and a quotient
  (`CountFits`, `ProductRises`). `RunsAreTheMissing` needs that the run a missing index is in has a first and a last
  index. The only induction that is available is by the least element of a named set of numbers (`LeastOfSet`).
* What arrives of a dump, in any order and any chunk any number of times. `Ascending` lists the numbers of a set, the
  least first (`AscendingRises`), so dropping what came twice leaves each chunk once and in its place (`DedupIs`), the
  requested chunks are those missing and no others (`SentAre`), and of both joined every chunk is there once
  (`JoinedAreOnce`): `ArrivedAndAskedAreWhole`. How far an arrival reaches is the longest beginning of it, once it is
  ordered, without a gap; with the sum of its bytes it gives `UploadIsShownAsItIs`, doubled chunks the one exception.
* What fails of a dump that is sent. Slices that follow one another are the stretch of the dump between the first and the
  last of them (`StreamIs`, from `PiecesMeet`), and the failed are the damaged places in their order (`FailedAre`), so
  `DamagedIsRepaired`; a prefix of the slices and what is resumed after it are two such stretches that meet (`RestIsDump`),
  so `ResumedGoesOn`, with the progress of each point one sample of a series that only rises.
* The ranges that are fetched again. A failed chunk that does not follow the one before it is the head of a
  range. `RunsAre` and `CoalescedAre`: between two heads the failed chunks follow one another, so each range is of
  neighbouring bytes, and no two ranges touch. All that is reported of them follows from that: the gaps and the bytes fill the span from the first to the last
  (`GapsAndBytesAreSpanned`), each gap is at least one byte (`GapsFit`), the lengths and counts (`LengthsFit`,
  `ChunksAreCounted`), and what joining saves is the number of pairs of damaged neighbours (`SavedAre`):
  `DamagedBytesAreRanges`.

  What these theorems conclude is named (`RefetchRepairs`, `ResumeGoesOn`, `RangesAreOfDamage`), because the scene's
  properties say it of `x1` and `x2`; `SendingTheorem` sets the names equal.
  `ResendingTheorem` is it together with `ArrivingTheorem`.

The proofs are why `FunctionScenes` extends `FillPlanning`, `EvaluationScoring` and `ChunkTransfer`, why these leave out entries by place
(`EntriesAt`) and add numbers up with `Total` where they used `SelectSeq` and folds of sequences, of which the prover
can unfold nothing, and why the answers of the models are a parameter and no constant.

Only model-checked: three of the properties of `FunctionScenes` (`CompleteIsComplete`,
`TransfersAreAsAnnounced`, `PageAndServerAgree`). They are
about folds of sequences of data (the pages of an answer, the records of a
file), of which what they compute for every input would need induction over data, and about two
tables of routes, which are one large finite case. Liveness (`RunsAndShutdownEnd`, `EveryCallAnswers`, `EveryImportEnds`)
is beyond the prover.

## Not modelled

* Inside a transaction of the store: a lost acknowledgement of a commit, which the caller would
  take for an abort; the cascade of deleting a person (a person hard-deleted while work is in flight);
  contributions one by one (only whether they clash and whether there are any).
* A reset locks its rows in the order of the coordinates' numbers. Two resets that scan in
  different orders would be a deadlock that PostgreSQL resolves by failing one, which is `Abort`.
* Imports: unique keys other than the primary ones; a commit whose acknowledgement is
  lost, which would be recorded as FAILED; the moment within a transaction at which two
  overlapping restores collide (`Rollback` may end either). Entities of which the instance has no row are
  not read. The error the guard throws for a clock that runs backwards is a refusal.
* The runs of `EvaluationRuns` choose their plans freely; that the plans of the code are such
  plans is what `FillPlanning` is about. The two are not composed, nor are the runs with the store:
  a run is kept apart from the rows by `CoordinateMap`.
* Lengths of texts, forms of e-mail addresses and URLs in request bodies; the numbers of a summary;
  wording, logging, layout; unparseable timestamps of the services, which are left out.
* The web page's rendering, its routes in the address bar, and views without calls.
* Startup and its seeds but for the one of the difficulties, timers of the cron schedule, key
  encryption, hashing, HTTP and database drivers, deployment scripts.
* Parts listed as not modelled or partly modelled in `PROJECT.json`, with the reason.

## Plan

In order of importance:

1. `RunStatus`, `EvaluationRuns` (done, proved).
2. `CoordinateMap`, `AssessmentStore` (done, proved).
3. `RestoreTables`, `ImportJobs` (done, proved); `ExportDumps`, `TransferFiles` (done).
4. `Collecting` (done, proved), `ActivityCollection` (done).
5. `SummaryBatches` and the period reset over both stores (done, proved).
6. `ServiceIdentities`, `UserAccounts`, `LlmProviders`, `Roster`, `InstanceAccess` (done, proved).
7. `KstPeriods`, `FillPlanning`, `EvaluationScoring`, `ChunkTransfer` (done, proved).
8. `ServerRoutes`, `PageCalls` and the modules of the page (done).

Theorems worth proving next: that the pages of an answer are all of it (`CompleteIsComplete`), and that a file that is
read back is the file that was written (`TransfersAreAsAnnounced`).
