---------------------------- MODULE RestoreTables ----------------------------
(***************************************************************************)
(* The tables an import rewrites: which rows a dump can carry, which rows  *)
(* a restore plan deletes, what the foreign keys of                        *)
(* src/prisma/schema.prisma take along, and when the inserts go through.   *)
(*                                                                         *)
(* A row is its entity, its id, its createdAt and the row it belongs to    *)
(* (`owner', an id, or None).  Ids differ between entities (cuid).         *)
(***************************************************************************)
EXTENDS Naturals, FiniteSets

CONSTANTS
    None,       \* the owner of a row that belongs to no other
    Row         \* the rows the tables and the dumps are made of

\* INSERT_RANK: parents are inserted before children, deletes run backwards.
Rank == [Person |-> 0, Group |-> 1, LlmConfig |-> 2, AuditLog |-> 3,
         Assessment |-> 4]

\* The entities EXPORT_ENTITY_SOURCES names; no other table is dumped.
Entities == DOMAIN Rank

EntitiesOf(rows) == {x.entity : x \in rows}

\* Those that can hold a row at all in the instance at hand.
Tables == Entities \intersect EntitiesOf(Row)
ASSUME TablesAssumption == Tables # {}

Exported(rows) == {x \in rows : x.entity \in Entities}

\* The conflict key: entity and createdAt, never the id.
SameKey(x, y) == x.entity = y.entity /\ x.instant = y.instant

\* Mutant of ToDelete: a replace plans like a merge.
ToDelete_OnlyConflicts(mode, existing, incoming) ==
    {x \in existing : \E y \in incoming : SameKey(x, y)}

\* buildImportRestorePlan: what to delete.  Everything in the dump is inserted.
ToDelete(mode, existing, incoming) ==
    IF mode = "replace" THEN existing
    ELSE {x \in existing : \E y \in incoming : SameKey(x, y)}

\* deleteMany of one entity: by createdAt, whatever the id.
Matching(table, planned, entity) ==
    {x \in table : /\ x.entity = entity
                   /\ \E y \in planned : SameKey(x, y)}

OwnedBy(table, rows) == {x \in table : \E y \in rows : x.owner = y.id}

\* onDelete: Cascade, at most Person -> Assessment -> Contribution deep.
WithCascade(table, rows) ==
    LET children == OwnedBy(table, rows)
    IN  rows \union children \union OwnedBy(table, children)

\* onDelete: Restrict, the tables that point at an LlmProviderConfig.
Restricted(table, rows) ==
    \E y \in rows : y.entity = "LlmConfig" /\ OwnedBy(table, {y}) # {}

IdsDiffer(rows) ==
    \A x, y \in rows : x.entity = y.entity /\ x.id = y.id => x = y

OwnersPresent(rows) ==
    \A x \in rows : x.owner = None \/ \E y \in rows : y.id = x.owner

Consistent(table) == IdsDiffer(table) /\ OwnersPresent(table)

\* The createMany calls go through: primary keys free, foreign keys there,
\* and no LlmConfig, whose required apiKey no dump may carry.
Insertable(rest, incoming) ==
    /\ rest \intersect incoming = {}
    /\ Consistent(rest \union incoming)
    /\ \A x \in incoming : x.entity # "LlmConfig"
==============================================================================
