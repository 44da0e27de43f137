----------------------------- MODULE TransferFiles -----------------------------
(***************************************************************************)
(* What an export writes and tells of itself, and what an import makes of  *)
(* a file: the functions of src/src/export and src/src/import between the  *)
(* rows that were read and the calls that change tables.                   *)
(*                                                                         *)
(* A record in memory is its entity, its instant and its columns.  A file  *)
(* is what JSON.parse makes of the upload, field by field: whether a value *)
(* is there, is of the kind that is asked for, and which one it is.        *)
(***************************************************************************)
EXTENDS Integers, Sequences, FiniteSets, SequencesExt, FiniteSetsExt

Entities == {"Assessment", "Person", "Group", "LlmConfig", "AuditLog"}

\* EXPORT_ENTITY_FULL_RECORD_SELECT, read by exports and allowed to imports.
Columns ==
    [Assessment |-> {"id", "personId", "period", "scope", "periodStart", "difficulty",
                     "contributionScore", "volume", "narrative", "createdAt"},
     Person |-> {"id", "fullName", "email", "active", "partId", "createdAt", "updatedAt"},
     Group |-> {"id", "name", "createdAt", "updatedAt"},
     LlmConfig |-> {"id", "provider", "endpointUrl", "modelId", "createdAt", "updatedAt"},
     AuditLog |-> {"id", "provider", "instanceRef", "resourceRef", "principal",
                   "httpStatus", "reason", "createdAt"}]

SchemaVersion == "1"

Of(entity, records) == SelectSeq(records, LAMBDA r : r.entity = entity)
Counts(records) == [e \in Entities |-> Len(Of(e, records))]
Total(counts) == FoldFunction(+, 0, counts)
Instants(records) == {records[i].instant : i \in DOMAIN records}

------------------------------------------------------------------------------
(* Exporting *)

InScope(s, r) ==
    CASE s.scope = "full" -> TRUE
      [] s.scope = "range" -> /\ s.start <= r.instant /\ r.instant < s.end
                              /\ s.selector # {} => r.entity \in s.selector
      [] s.scope = "partial" -> r.entity \in s.selector

SelectExportRecords(s, records) ==
    [selected |-> SelectSeq(records, LAMBDA r : InScope(s, r)),
     excluded |-> SelectSeq(records, LAMBDA r : ~InScope(s, r))]

\* No range without records; <<>> stands for null.
InstantRange(records) ==
    IF records = <<>> THEN <<>>
    ELSE <<Min(Instants(records)), Max(Instants(records))>>

GroupBreakdown(records) ==
    [total |-> Len(records), perEntity |-> Counts(records), instantRange |-> InstantRange(records)]

SummarizeExportSelection(selection) ==
    [selected |-> GroupBreakdown(selection.selected),
     excluded |-> GroupBreakdown(selection.excluded)]

\* The weights default to one size for every record, the limit to ten times
\* what is cut into chunks by default at five.
EstimateExportDumpSize(selection, weight, limit) ==
    LET perEntity == [e \in Entities |-> weight[e] * Counts(selection.selected)[e]]
    IN  [estimatedBytes |-> Total(perEntity), perEntityBytes |-> perEntity,
         recordTotal |-> Len(selection.selected),
         recommendation |-> IF Total(perEntity) > limit THEN "async-streaming" ELSE "sync"]

BuildExportJobPlan(estimate, limit) ==
    LET async == estimate.recommendation = "async-streaming"
    IN  [mode |-> IF async THEN "async-job" ELSE "sync-download",
         chunked |-> estimate.estimatedBytes > limit,
         pollingRequired |-> async,
         statusFlow |-> IF async THEN <<"queued", "running", "ready">> ELSE <<>>]

\* Excluded rows get a line only if there are any, entities only if they count.
BuildExportResult(summary) ==
    [selected |-> summary.selected.total, excluded |-> summary.excluded.total,
     lines |-> {<<e, summary.selected.perEntity[e]>> :
                   e \in {f \in Entities : summary.selected.perEntity[f] > 0}}]

DescribeExportJobStatus(status) ==
    CASE status = "queued" -> [step |-> 0, next |-> "running", terminal |-> FALSE]
      [] status = "running" -> [step |-> 1, next |-> "ready", terminal |-> FALSE]
      [] status = "ready" -> [step |-> 2, next |-> "", terminal |-> TRUE]
      [] status = "failed" -> [step |-> -1, next |-> "", terminal |-> TRUE]

PreviewSelection(s, records, weight, limits) ==
    LET selection == SelectExportRecords(s, records)
        summary == SummarizeExportSelection(selection)
        estimate == EstimateExportDumpSize(selection, weight, limits.async)
        plan == BuildExportJobPlan(estimate, limits.chunk)
    IN  [selectedCount |-> Len(selection.selected), excludedCount |-> Len(selection.excluded),
         perEntitySelected |-> Counts(selection.selected),
         summary |-> summary, sizeEstimate |-> estimate, deliveryPlan |-> plan,
         completionResult |-> BuildExportResult(summary)]

BuildFullExportDump(s, records, generatedAt) ==
    [schemaVersion |-> SchemaVersion, generatedAt |-> generatedAt, scope |-> s,
     entityCounts |-> Counts(records), recordCount |-> Len(records), records |-> records]

\* Mutant of Canonicalize: the counts stand for the records.
Canonicalize_Counts(dump) ==
    <<dump.schemaVersion, dump.generatedAt, dump.scope, dump.recordCount, dump.entityCounts>>

\* The text that is hashed: of a record its entity and its instant, no column.
Canonicalize(dump) ==
    <<dump.schemaVersion, dump.generatedAt, dump.scope, dump.recordCount, dump.entityCounts,
      [i \in DOMAIN dump.records |-> <<dump.records[i].entity, dump.records[i].instant>>]>>

VerifyDumpChecksum(dump, expected) == Canonicalize(dump) = expected

------------------------------------------------------------------------------
(* Files *)

\* JSON.stringify and back: dates become text that parses, and nothing is lost.
\* The source file of a record: is it an object, is its instant there and does
\* it parse, is `fields' an object.
AsJson(r) ==
    [object |-> TRUE, entity |-> r.entity, instant |-> r.instant, given |-> TRUE,
     parses |-> TRUE, plain |-> TRUE, fields |-> r.fields]

ToFile(dump) ==
    [json |-> TRUE, object |-> TRUE, schemaVersion |-> dump.schemaVersion,
     generatedAt |-> dump.generatedAt, dated |-> TRUE, scope |-> dump.scope,
     listed |-> TRUE, records |-> [i \in DOMAIN dump.records |-> AsJson(dump.records[i])],
     counted |-> TRUE, entityCounts |-> dump.entityCounts,
     totalled |-> TRUE, recordCount |-> dump.recordCount]

\* validateImportDumpStructure; a version is blank if it is not a text.
ValidateImportDumpStructure(f) ==
    /\ f.object /\ f.schemaVersion # "" /\ f.dated
    /\ f.listed /\ \A i \in DOMAIN f.records :
                     /\ f.records[i].object /\ f.records[i].given
                     /\ f.records[i].entity \in Entities
    /\ f.counted
    /\ f.totalled /\ f.recordCount = Len(f.records)
    /\ Total(f.entityCounts) = f.recordCount

CheckSchemaVersionCompat(version, allowMigrationFrom) ==
    IF version = SchemaVersion THEN "accept"
    ELSE IF version \in allowMigrationFrom THEN "migrate" ELSE "reject"

\* A record is taken if its instant parses and it names no column but those an
\* export reads.
Hydrates(r) ==
    /\ r.object /\ r.entity \in Entities /\ r.given /\ r.parses /\ r.plain
    /\ r.fields \subseteq Columns[r.entity]

Hydrated(r) == [entity |-> r.entity, instant |-> r.instant, fields |-> r.fields]

\* The stage that refuses the file, "" if none does.
PrepareImportRestoreInput(f, allowMigrationFrom) ==
    LET stage ==
            CASE ~f.json -> "deserialize"
              [] f.json /\ ~ValidateImportDumpStructure(f) -> "structure"
              [] /\ f.json /\ ValidateImportDumpStructure(f)
                 /\ CheckSchemaVersionCompat(f.schemaVersion, allowMigrationFrom) = "reject"
                 -> "version"
              [] OTHER -> IF \A i \in DOMAIN f.records : Hydrates(f.records[i])
                          THEN "" ELSE "records"
    IN  [stage |-> stage,
         records |-> IF stage = "" THEN [i \in DOMAIN f.records |-> Hydrated(f.records[i])]
                     ELSE <<>>]

\* The dump a checksum is computed of: its records must have dates again.
AsDump(f, records) ==
    [schemaVersion |-> f.schemaVersion, generatedAt |-> f.generatedAt, scope |-> f.scope,
     entityCounts |-> f.entityCounts, recordCount |-> f.recordCount, records |-> records]

------------------------------------------------------------------------------
(* Planning a restore *)

Key(r) == <<r.entity, r.instant>>
Keys(records) == {Key(records[i]) : i \in DOMAIN records}

\* Everything in the file is inserted, whatever the mode.
BuildImportRestorePlan(existing, incoming, mode) ==
    LET replaced(r) == mode = "replace" \/ Key(r) \in Keys(incoming)
    IN  [toDelete |-> SelectSeq(existing, replaced),
         toInsert |-> incoming,
         toKeep |-> SelectSeq(existing, LAMBDA r : ~replaced(r))]

PlanBreakdown(records) == [total |-> Len(records), perEntity |-> Counts(records)]

SummarizeRestorePlan(plan) ==
    [deleted |-> PlanBreakdown(plan.toDelete), inserted |-> PlanBreakdown(plan.toInsert),
     kept |-> PlanBreakdown(plan.toKeep)]

\* The report of conflicts has a key of its own, spelled like the plan's.
ConflictKey(r) == <<r.entity, r.instant>>
ConflictKeys(records) == {ConflictKey(records[i]) : i \in DOMAIN records}

\* Of each entity and instant on both sides, how often it is on each.
DetectImportMergeConflicts(existing, incoming) ==
    LET times(k, records) == Len(SelectSeq(records, LAMBDA r : ConflictKey(r) = k))
    IN  {[key |-> k, existingCount |-> times(k, existing),
          incomingCount |-> times(k, incoming)] :
            k \in ConflictKeys(existing) \intersect ConflictKeys(incoming)}

SummarizeImportImpact(records) ==
    [totalRecords |-> Len(records), perEntity |-> Counts(records),
     instantRange |-> InstantRange(records)]

\* Caps: of all the records and of each entity.
ValidateImportDumpSize(records, maxTotal, maxPerEntity) ==
    /\ Len(records) <= maxTotal
    /\ \A e \in DOMAIN maxPerEntity : Counts(records)[e] <= maxPerEntity[e]

\* A migration and conflicts only warn.
SummarizeImportPreflight(structure, version, size, checksum) ==
    structure /\ version # "reject" /\ size /\ checksum

BuildRestoreConfirmation(summary, mode) ==
    [destructive |-> mode = "replace" /\ summary.deleted.total > 0,
     numbers |-> <<summary.deleted.total, summary.inserted.total, summary.kept.total>>]

BuildRestoreResult(summary) ==
    [deleted |-> summary.deleted.total, inserted |-> summary.inserted.total,
     kept |-> summary.kept.total]

BuildExportAuditEntry(dump) == [rowCount |-> dump.recordCount, entityCounts |-> dump.entityCounts]
BuildImportAuditEntry(plan) ==
    [rowCount |-> Len(plan.toInsert), deleted |-> Len(plan.toDelete),
     inserted |-> Len(plan.toInsert), kept |-> Len(plan.toKeep)]

------------------------------------------------------------------------------
(* Its calls *)

InsertOrder == <<"Person", "Group", "LlmConfig", "AuditLog", "Assessment">>

OrderImportRestoreEntities(entities, phase) ==
    LET ordered == SelectSeq(InsertOrder, LAMBDA e : e \in entities)
    IN  IF phase = "delete" THEN Reverse(ordered) ELSE ordered

PhaseOperations(records, phase) ==
    LET order == OrderImportRestoreEntities({records[i].entity : i \in DOMAIN records}, phase)
    IN  [i \in DOMAIN order |->
            [phase |-> phase, entity |-> order[i], records |-> Of(order[i], records)]]

GroupImportRestoreOperations(plan) ==
    PhaseOperations(plan.toDelete, "delete") \o PhaseOperations(plan.toInsert, "insert")

\* What planImportRestoreTransactionSteps refuses; a step is its operation.
StepsAccept(operations) ==
    /\ \A i \in DOMAIN operations : operations[i].records # <<>>
    /\ \A i, j \in DOMAIN operations :
          operations[i].phase = "insert" /\ operations[j].phase = "delete" => j < i

\* The rows of a createMany; a record without columns is refused.
InsertRowsAccept(step) == \A i \in DOMAIN step.records : step.records[i].fields # {}
StepCallBuilds(step) == step.phase = "delete" \/ InsertRowsAccept(step)

\* A deleteMany takes the rows of the table at the planned instants, a createMany
\* puts its records there.
RunStep(step, table) ==
    IF step.phase = "insert" THEN table \o step.records
    ELSE SelectSeq(table, LAMBDA r : \/ r.entity # step.entity
                                     \/ r.instant \notin Instants(step.records))

\* The table and the rows the calls count, when nobody else writes.
RunImportRestoreSteps(operations, table) ==
    FoldLeft(LAMBDA run, step :
                LET after == RunStep(step, run.table)
                IN  [table |-> after,
                     deleted |-> run.deleted + IF step.phase = "delete"
                                               THEN Len(run.table) - Len(after) ELSE 0,
                     inserted |-> run.inserted + IF step.phase = "insert"
                                                 THEN Len(after) - Len(run.table) ELSE 0],
             [table |-> table, deleted |-> 0, inserted |-> 0], operations)
==============================================================================
