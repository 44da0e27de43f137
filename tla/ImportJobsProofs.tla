-------------------------- MODULE ImportJobsProofs ---------------------------
(***************************************************************************)
(* Theorems of ImportJobs for any number of imports, any rows and any      *)
(* number of failures.                                                     *)
(***************************************************************************)
EXTENDS ImportJobs, TLAPS

\* What a REPLACE under way has made of the exported rows of table t: while
\* it reads, a row is ahead of it, read, or new; while it deletes, the row's
\* entity is ahead or the row is locked; when it inserts, every row that is
\* not new is locked.
Covered(t, l, a) ==
    /\ a = "reading" =>
        \A x \in Exported(t) : x.entity \in l.left \/ x \in l.read \/ x \in l.late
    /\ a = "deleting" /\ l.mode = "replace" =>
        \A x \in Exported(t) :
            x \in l.late \/ x \in l.doomed
                \/ (x.entity \in l.left /\ x \in l.read)
    /\ a = "inserting" /\ l.mode = "replace" =>
        \A x \in Exported(t) : x \in l.late \/ x \in l.doomed

AllCovered == \A r \in Imports : Covered(table, loc[r], at[r])

ImportInv == TypeOK /\ AllCovered

------------------------------------------------------------------------------
(* The operators on tables. *)

\* Whatever a plan deletes was read.
LEMMA PlannedWasRead ==
    ASSUME NEW mode, NEW existing, NEW incoming
    PROVE  ToDelete(mode, existing, incoming) \subseteq existing
BY DEF ToDelete

\* A deleteMany takes rows of the planned entities only.
LEMMA MatchingIsExported ==
    ASSUME NEW t \in SUBSET Row, NEW planned \in SUBSET Exported(Row), NEW e
    PROVE  Matching(t, planned, e) \subseteq Exported(Row)
BY DEF Matching, SameKey, Exported

\* A deleteMany takes every row of its entity that was planned.
LEMMA PlannedIsMatched ==
    ASSUME NEW t, NEW planned, NEW x \in t, x \in planned
    PROVE  x \in Matching(t, planned, x.entity)
BY DEF Matching, SameKey

\* What is planned is of exported entities.
LEMMA EntitiesAreExported ==
    ASSUME NEW rows \in SUBSET Exported(Row)
    PROVE  EntitiesOf(rows) \subseteq Entities
BY DEF EntitiesOf, Exported

\* Every exported row is of a table that is read.
LEMMA RowsAreInTables ==
    ASSUME NEW t \in SUBSET Row, NEW x \in Exported(t)
    PROVE  x.entity \in Tables
BY DEF Exported, Tables, EntitiesOf

\* New rows disturb no restore that is told of them.
LEMMA CoveredAfterAdding ==
    ASSUME NEW t, NEW u, NEW rows, u \subseteq t \union rows,
           NEW l \in Local, NEW a, Covered(t, l, a)
    PROVE  Covered(u, [l EXCEPT !.late = @ \union rows, !.doomed = @ \ rows], a)
<1> DEFINE m == [l EXCEPT !.late = @ \union rows, !.doomed = @ \ rows]
<1>1. /\ m.late = l.late \union rows
      /\ m.doomed = l.doomed \ rows
      /\ m.left = l.left /\ m.read = l.read /\ m.mode = l.mode
  BY DEF Local
<1>2. \A x \in Exported(u) : x \in Exported(t) \/ x \in rows
  BY DEF Exported
<1> HIDE DEF m
<1>3. Covered(u, m, a)
  BY <1>1, <1>2 DEF Covered
<1> QED
  BY <1>3 DEF m

\* Fewer rows disturb no restore.
LEMMA CoveredAfterRemoving ==
    ASSUME NEW t, NEW u, u \subseteq t, NEW l, NEW a, Covered(t, l, a)
    PROVE  Covered(u, l, a)
BY DEF Covered, Exported

\* A request that does not restore is covered by any locals.
LEMMA NothingToCover ==
    ASSUME NEW t, NEW l, NEW a, a \notin {"reading", "deleting", "inserting"}
    PROVE  Covered(t, l, a)
BY DEF Covered

LEMMA FreshIsLocal == Fresh \in Local
BY DEF Fresh, Local

------------------------------------------------------------------------------
(* The invariant holds at the start and is kept by every step. *)

LEMMA InitImportInv == Init => ImportInv
<1> SUFFICES ASSUME Init PROVE ImportInv
  OBVIOUS
<1>1. TypeOK
  BY FreshIsLocal, FaultsAssumption DEF Init, TypeOK, Statuses, Calls
<1>2. AllCovered
  BY NothingToCover DEF Init, AllCovered
<1> QED
  BY <1>1, <1>2 DEF ImportInv

\* A step of one request that leaves the tables alone keeps the others covered.
LEMMA OneMoves ==
    ASSUME ImportInv, NEW r \in Imports, NEW l, NEW a,
           at' = [at EXCEPT ![r] = a], loc' = [loc EXCEPT ![r] = l],
           table' = table, l \in Local, a \in Calls, Covered(table, l, a)
    PROVE  /\ at' \in [Imports -> Calls]
           /\ loc' \in [Imports -> Local]
           /\ AllCovered'
<1>1. at' \in [Imports -> Calls] /\ loc' \in [Imports -> Local]
  BY DEF ImportInv, TypeOK
<1>2. \A q \in Imports : Covered(table', loc'[q], at'[q])
  <2> TAKE q \in Imports
  <2>1. CASE q = r
    BY <2>1 DEF ImportInv, TypeOK
  <2>2. CASE q # r
    BY <2>2 DEF ImportInv, TypeOK, AllCovered
  <2> QED
    BY <2>1, <2>2
<1> QED
  BY <1>1, <1>2 DEF AllCovered

\* The same when the locals stay.
LEMMA OneGoes ==
    ASSUME ImportInv, NEW r \in Imports, NEW a, at' = [at EXCEPT ![r] = a],
           loc' = loc, table' = table, a \in Calls, Covered(table, loc[r], a)
    PROVE  /\ at' \in [Imports -> Calls]
           /\ loc' \in [Imports -> Local]
           /\ AllCovered'
<1>1. loc[r] \in Local /\ loc' = [loc EXCEPT ![r] = loc[r]]
  BY DEF ImportInv, TypeOK
<1> QED
  BY <1>1, OneMoves

\* The restore ends, one way or the other.
LEMMA OneEnds ==
    ASSUME ImportInv, NEW r \in Imports, NEW a \in {"done", "recording"},
           at' = [at EXCEPT ![r] = a], loc' = [loc EXCEPT ![r] = Fresh],
           table' = table
    PROVE  /\ at' \in [Imports -> Calls]
           /\ loc' \in [Imports -> Local]
           /\ AllCovered'
<1>1. a \in Calls /\ Covered(table, Fresh, a)
  BY NothingToCover DEF Calls
<1> QED
  BY <1>1, FreshIsLocal, OneMoves

LEMMA RequestKeepsInv ==
    ASSUME ImportInv, NEW r \in Imports, Request(r)
    PROVE  ImportInv'
<1>1. Covered(table, loc[r], "checking") /\ "checking" \in Calls
  BY NothingToCover DEF Calls
<1> QED
  BY <1>1, OneGoes DEF Request, Goes, ImportInv, TypeOK

LEMMA GuardKeepsInv ==
    ASSUME ImportInv, NEW r \in Imports, Admit(r) \/ Refuse(r)
    PROVE  ImportInv'
<1>1. CASE Admit(r)
  <2>1. Covered(table, loc[r], "creating") /\ "creating" \in Calls
    BY NothingToCover DEF Calls
  <2> QED
    BY <1>1, <2>1, OneGoes DEF Admit, Goes, ImportInv, TypeOK
<1>2. CASE Refuse(r)
  BY <1>2, OneEnds DEF Refuse, Ends, Goes, ImportInv, TypeOK
<1> QED
  BY <1>1, <1>2

LEMMA JobKeepsInv ==
    ASSUME ImportInv, NEW r \in Imports,
           CreateJob(r) \/ MarkSucceeded(r) \/ MarkFailed(r)
    PROVE  ImportInv'
<1>1. CASE CreateJob(r)
  <2>1. Covered(table, loc[r], "marking") /\ "marking" \in Calls
    BY NothingToCover DEF Calls
  <2>2. job' \in [Imports -> Statuses]
    BY <1>1 DEF CreateJob, ImportInv, TypeOK, Statuses
  <2> QED
    BY <1>1, <2>1, <2>2, OneGoes DEF CreateJob, Goes, ImportInv, TypeOK
<1>2. CASE MarkSucceeded(r) \/ MarkFailed(r)
  <2>1. job' \in [Imports -> Statuses]
    BY <1>2 DEF MarkSucceeded, MarkFailed, ImportInv, TypeOK, Statuses
  <2> QED
    BY <1>2, <2>1, OneEnds
       DEF MarkSucceeded, MarkFailed, Ends, Goes, ImportInv, TypeOK
<1> QED
  BY <1>1, <1>2

LEMMA MarkRunningKeepsInv ==
    ASSUME ImportInv, NEW r \in Imports, MarkRunning(r)
    PROVE  ImportInv'
<1> DEFINE l == [loc[r] EXCEPT !.left = Tables]
<1>1. loc[r] \in Local /\ table \in SUBSET Row
  BY DEF ImportInv, TypeOK
<1>2. l \in Local /\ l.left = Tables
  BY <1>1 DEF Local, Tables
<1>3. loc' = [loc EXCEPT ![r] = l]
  BY DEF MarkRunning
<1> HIDE DEF l
<1>4. Covered(table, l, "reading") /\ "reading" \in Calls
  BY <1>1, <1>2, RowsAreInTables DEF Covered, Calls
<1>5. job' \in [Imports -> Statuses]
  BY DEF MarkRunning, ImportInv, TypeOK, Statuses
<1> QED
  BY <1>2, <1>3, <1>4, <1>5, OneMoves DEF MarkRunning, Goes, ImportInv, TypeOK

LEMMA ReadKeepsInv ==
    ASSUME ImportInv, NEW r \in Imports, Read(r)
    PROVE  ImportInv'
<1>1. loc[r] \in Local /\ table \in SUBSET Row /\ at[r] = "reading"
  BY DEF ImportInv, TypeOK, Read
<1>2. PICK e \in loc[r].left :
        LET read == loc[r].read \union {x \in table : x.entity = e}
            left == loc[r].left \ {e}
        IN  \/ /\ left # {}
               /\ loc' = [loc EXCEPT ![r].read = read, ![r].left = left]
               /\ UNCHANGED at
            \/ /\ left = {}
               /\ Plan(r, read)
  BY DEF Read
<1> DEFINE read == loc[r].read \union {x \in table : x.entity = e}
           left == loc[r].left \ {e}
<1>3. loc[r].left \subseteq Entities /\ loc[r].read \subseteq Exported(Row)
  BY <1>1 DEF Local
<1>4. read \subseteq Exported(Row) /\ left \subseteq Entities
  BY <1>1, <1>3 DEF Exported
<1>5. \A x \in Exported(table) : x.entity \in left \/ x \in read \/ x \in loc[r].late
  <2>1. Covered(table, loc[r], "reading")
    BY <1>1 DEF ImportInv, AllCovered
  <2> QED
    BY <2>1 DEF Covered, Exported
<1>6. CASE loc' = [loc EXCEPT ![r].read = read, ![r].left = left] /\ UNCHANGED at
  <2> DEFINE l == [loc[r] EXCEPT !.read = read, !.left = left]
  <2>1. l \in Local /\ l.read = read /\ l.left = left /\ l.late = loc[r].late
    BY <1>1, <1>4 DEF Local
  <2>2. loc' = [loc EXCEPT ![r] = l] /\ at' = [at EXCEPT ![r] = "reading"]
    BY <1>1, <1>6 DEF ImportInv, TypeOK
  <2> HIDE DEF l
  <2>3. Covered(table, l, "reading") /\ "reading" \in Calls
    BY <1>5, <2>1 DEF Covered, Calls
  <2> QED
    BY <2>1, <2>2, <2>3, OneMoves DEF Read, ImportInv, TypeOK
<1>7. CASE left = {} /\ Plan(r, read)
  <2>1. CASE Goes(r, "recording") /\ loc' = [loc EXCEPT ![r] = Fresh]
    BY <2>1, OneEnds DEF Goes, Read, ImportInv, TypeOK
  <2>2. ASSUME NEW mode \in {"replace", "merge"},
               NEW dump \in SUBSET Exported(Row),
               LET l == [loc[r] EXCEPT !.mode = mode, !.dump = dump,
                                       !.read = read]
               IN  /\ Goes(r, "deleting")
                   /\ loc' = [loc EXCEPT ![r] =
                                [l EXCEPT !.left = EntitiesOf(Planned(l))]]
        PROVE  ImportInv'
    <3> DEFINE l == [loc[r] EXCEPT !.mode = mode, !.dump = dump, !.read = read]
               m == [l EXCEPT !.left = EntitiesOf(Planned(l))]
    <3>1. /\ l \in Local
          /\ l.mode = mode /\ l.read = read /\ l.late = loc[r].late
      BY <1>1, <1>4 DEF Local
    <3>2. loc' = [loc EXCEPT ![r] = m] /\ at' = [at EXCEPT ![r] = "deleting"]
      BY <2>2 DEF Goes
    <3> HIDE DEF l
    <3>3. Planned(l) \subseteq read
      BY <3>1, PlannedWasRead DEF Planned
    <3>4. EntitiesOf(Planned(l)) \subseteq Entities
      BY <1>4, <3>3, EntitiesAreExported
    <3>5. /\ m \in Local
          /\ m.left = EntitiesOf(Planned(l))
          /\ m.mode = mode /\ m.read = read /\ m.late = loc[r].late
      BY <3>1, <3>4 DEF Local
    <3> HIDE DEF m
    <3>6. mode = "replace" => Planned(l) = read
      BY <3>1 DEF Planned, ToDelete
    <3>7. Covered(table, m, "deleting") /\ "deleting" \in Calls
      <4>1. ASSUME mode = "replace", NEW x \in Exported(table)
            PROVE  x \in m.late \/ (x.entity \in m.left /\ x \in m.read)
        BY <1>5, <1>7, <3>5, <3>6, <4>1 DEF EntitiesOf
      <4> QED
        BY <3>5, <4>1 DEF Covered, Calls
    <3> QED
      BY <3>2, <3>5, <3>7, OneMoves DEF Read, ImportInv, TypeOK
  <2> QED
    BY <1>7, <2>1, <2>2 DEF Plan
<1> QED
  BY <1>2, <1>6, <1>7

LEMMA DeleteKeepsInv ==
    ASSUME ImportInv, NEW r \in Imports, Delete(r)
    PROVE  ImportInv'
<1>1. /\ loc[r] \in Local /\ table \in SUBSET Row /\ at[r] = "deleting"
      /\ Covered(table, loc[r], "deleting")
  BY DEF ImportInv, TypeOK, AllCovered, Delete
<1>2. CASE loc[r].left = {}
  <2>1. Covered(table, loc[r], "inserting") /\ "inserting" \in Calls
    BY <1>1, <1>2 DEF Covered, Calls
  <2> QED
    BY <1>2, <2>1, OneGoes DEF Delete, Goes, ImportInv, TypeOK
<1>3. CASE loc[r].left # {}
  <2> DEFINE e == NextEntity(loc[r].left)
             rows == Matching(table, Planned(loc[r]), e)
             l == [loc[r] EXCEPT !.left = @ \ {e}, !.doomed = @ \union rows]
  <2>1. loc' = [loc EXCEPT ![r] = l] /\ at' = [at EXCEPT ![r] = "deleting"]
    BY <1>1, <1>3 DEF Delete, ImportInv, TypeOK
  <2> HIDE DEF e
  <2>2. Planned(loc[r]) \subseteq loc[r].read
    BY PlannedWasRead DEF Planned
  <2>3. loc[r].read \subseteq Exported(Row)
    BY <1>1 DEF Local
  <2>4. rows \subseteq Exported(Row)
    BY <1>1, <2>2, <2>3, MatchingIsExported
  <2>5. \A x \in table : x \in Planned(loc[r]) /\ x.entity = e => x \in rows
    BY PlannedIsMatched
  <2> HIDE DEF rows
  <2>6. /\ l \in Local
        /\ l.left = loc[r].left \ {e}
        /\ l.doomed = loc[r].doomed \union rows
        /\ l.mode = loc[r].mode /\ l.read = loc[r].read /\ l.late = loc[r].late
    BY <1>1, <2>4 DEF Local
  <2> HIDE DEF l
  <2>7. loc[r].mode = "replace" => Planned(loc[r]) = loc[r].read
    BY DEF Planned, ToDelete
  <2>8. Covered(table, l, "deleting") /\ "deleting" \in Calls
    <3>1. ASSUME loc[r].mode = "replace", NEW x \in Exported(table)
          PROVE  x \in l.late \/ x \in l.doomed
                    \/ (x.entity \in l.left /\ x \in l.read)
      BY <1>1, <2>5, <2>6, <2>7, <3>1 DEF Covered, Exported
    <3> QED
      BY <2>6, <3>1 DEF Covered, Calls
  <2> QED
    BY <2>1, <2>6, <2>8, OneMoves DEF Delete, ImportInv, TypeOK
<1> QED
  BY <1>2, <1>3

LEMMA RollbackKeepsInv ==
    ASSUME ImportInv, NEW r \in Imports, Rollback(r)
    PROVE  ImportInv'
BY OneEnds DEF Rollback, Goes, ImportInv, TypeOK

LEMMA FaultKeepsCount == TypeOK /\ Fault => faults' \in 0..MaxFaults
BY FaultsAssumption DEF TypeOK, Fault

LEMMA CallFailsKeepsInv ==
    ASSUME ImportInv, NEW r \in Imports, CallFails(r)
    PROVE  ImportInv'
BY OneEnds, FaultKeepsCount DEF CallFails, Ends, Goes, ImportInv, TypeOK

LEMMA CrashKeepsInv == ImportInv /\ Crash => ImportInv'
<1> SUFFICES ASSUME ImportInv, Crash PROVE ImportInv'
  OBVIOUS
<1>1. at' \in [Imports -> Calls] /\ loc' \in [Imports -> Local]
  BY FreshIsLocal DEF Crash, ImportInv, TypeOK, Calls
<1>2. \A r \in Imports : Covered(table', loc'[r], at'[r])
  <2> TAKE r \in Imports
  <2>1. CASE r \in InFlight
    BY <2>1, NothingToCover DEF Crash
  <2>2. CASE r \notin InFlight
    BY <2>2, NothingToCover DEF Crash, InFlight
  <2> QED
    BY <2>1, <2>2
<1> QED
  BY <1>1, <1>2, FaultKeepsCount DEF Crash, ImportInv, TypeOK, AllCovered

\* Rows that are added in the sight of every restore under way but `self'
\* keep the rest of the invariant.
LEMMA AddingKeepsOthers ==
    ASSUME ImportInv, NEW self, NEW rows \in SUBSET Row,
           table' \subseteq table \union rows, loc' = AddedBy(self, rows),
           \A r \in Imports : r # self => at'[r] = at[r],
           self \in Imports => at'[self] \notin {"reading", "deleting", "inserting"}
    PROVE  loc' \in [Imports -> Local] /\ AllCovered'
<1>1. ASSUME NEW r \in Imports, r # self, r \in Working
      PROVE  loc'[r] \in Local /\ Covered(table', loc'[r], at'[r])
  <2>1. loc[r] \in Local /\ Covered(table, loc[r], at[r])
    BY DEF ImportInv, TypeOK, AllCovered
  <2>2. loc'[r] = [loc[r] EXCEPT !.late = @ \union rows, !.doomed = @ \ rows]
    BY <1>1 DEF AddedBy
  <2>3. loc'[r] \in Local
    BY <2>1, <2>2 DEF Local
  <2>4. Covered(table', loc'[r], at[r])
    <3> DEFINE t == table'
               l == loc[r]
               a == at[r]
    <3>1. t \subseteq table \union rows /\ l \in Local /\ Covered(table, l, a)
      BY <2>1
    <3> HIDE DEF t, l, a
    <3>2. Covered(t, [l EXCEPT !.late = @ \union rows, !.doomed = @ \ rows], a)
      BY <3>1, CoveredAfterAdding
    <3> QED
      BY <2>2, <3>2 DEF t, l, a
  <2>5. at'[r] = at[r]
    BY <1>1
  <2> QED
    BY <2>3, <2>4, <2>5
<1>2. ASSUME NEW r \in Imports, r = self \/ r \notin Working
      PROVE  loc'[r] \in Local /\ Covered(table', loc'[r], at'[r])
  <2>1. loc'[r] \in Local
    BY <1>2, FreshIsLocal DEF AddedBy, ImportInv, TypeOK
  <2>2. at'[r] \notin {"reading", "deleting", "inserting"}
    BY <1>2 DEF Working
  <2> QED
    BY <2>1, <2>2, NothingToCover
<1>3. loc' = [r \in Imports |-> loc'[r]]
  BY DEF AddedBy
<1> QED
  BY <1>1, <1>2, <1>3 DEF AllCovered

LEMMA WriteKeepsInv == ImportInv /\ Write => ImportInv'
<1> SUFFICES ASSUME ImportInv, Write PROVE ImportInv'
  OBVIOUS
<1>1. PICK x \in Row \ table :
        table' = table \union {x} /\ loc' = AddedBy(None, {x})
  BY DEF Write
<1>2. loc' \in [Imports -> Local] /\ AllCovered'
  BY <1>1, AddingKeepsOthers, ImportsAssumption DEF Write
<1> QED
  BY <1>1, <1>2 DEF Write, ImportInv, TypeOK

LEMMA EraseKeepsInv == ImportInv /\ Erase => ImportInv'
<1> SUFFICES ASSUME ImportInv, Erase PROVE ImportInv'
  OBVIOUS
<1>1. table' \subseteq table
  BY DEF Erase
<1>2. AllCovered'
  BY <1>1, CoveredAfterRemoving DEF Erase, ImportInv, AllCovered
<1> QED
  BY <1>1, <1>2 DEF Erase, ImportInv, TypeOK

LEMMA CommitKeepsInv ==
    ASSUME ImportInv, NEW r \in Imports, Commit(r)
    PROVE  ImportInv'
<1>1. loc[r].dump \in SUBSET Row
  BY DEF ImportInv, TypeOK, Local, Exported
<1>2. table' = Rest(r) \union loc[r].dump /\ Rest(r) \subseteq table
  BY DEF Commit, Rest
<1>3. at' = [at EXCEPT ![r] = "succeeding"] /\ loc' = AddedBy(r, loc[r].dump)
  BY DEF Commit, Goes
<1>4. \A q \in Imports : q # r => at'[q] = at[q]
  BY <1>3 DEF ImportInv, TypeOK
<1>5. at'[r] = "succeeding"
  BY <1>3 DEF ImportInv, TypeOK
<1>6. loc' \in [Imports -> Local] /\ AllCovered'
  BY <1>1, <1>2, <1>3, <1>4, <1>5, AddingKeepsOthers
<1>7. at' \in [Imports -> Calls]
  BY <1>3 DEF ImportInv, TypeOK, Calls
<1> QED
  BY <1>1, <1>2, <1>6, <1>7 DEF Commit, ImportInv, TypeOK

LEMMA NextKeepsInv == ImportInv /\ [Next]_vars => ImportInv'
<1> SUFFICES ASSUME ImportInv, [Next]_vars PROVE ImportInv'
  OBVIOUS
<1>1. ASSUME NEW r \in Imports, Request(r) PROVE ImportInv'
  BY <1>1, RequestKeepsInv
<1>2. ASSUME NEW r \in Imports, Admit(r) \/ Refuse(r) PROVE ImportInv'
  BY <1>2, GuardKeepsInv
<1>3. ASSUME NEW r \in Imports,
             CreateJob(r) \/ MarkSucceeded(r) \/ MarkFailed(r)
      PROVE  ImportInv'
  BY <1>3, JobKeepsInv
<1>4. ASSUME NEW r \in Imports, MarkRunning(r) PROVE ImportInv'
  BY <1>4, MarkRunningKeepsInv
<1>5. ASSUME NEW r \in Imports, Read(r) PROVE ImportInv'
  BY <1>5, ReadKeepsInv
<1>6. ASSUME NEW r \in Imports, Delete(r) PROVE ImportInv'
  BY <1>6, DeleteKeepsInv
<1>7. ASSUME NEW r \in Imports, Commit(r) PROVE ImportInv'
  BY <1>7, CommitKeepsInv
<1>8. ASSUME NEW r \in Imports, Rollback(r) PROVE ImportInv'
  BY <1>8, RollbackKeepsInv
<1>9. ASSUME NEW r \in Imports, CallFails(r) PROVE ImportInv'
  BY <1>9, CallFailsKeepsInv
<1>10. CASE Crash
  BY <1>10, CrashKeepsInv
<1>11. CASE Write
  BY <1>11, WriteKeepsInv
<1>12. CASE Erase
  BY <1>12, EraseKeepsInv
<1>13. CASE UNCHANGED vars
  BY <1>13 DEF vars, ImportInv, TypeOK, AllCovered
<1> QED
  BY <1>1, <1>2, <1>3, <1>4, <1>5, <1>6, <1>7, <1>8, <1>9, <1>10, <1>11,
     <1>12, <1>13 DEF Next, Step

\* The tables and every request stay well typed, and what a REPLACE has not
\* locked or is not about to read is always known to be new.
THEOREM ImportInvariant == Spec => []ImportInv
BY InitImportInv, NextKeepsInv, PTL DEF Spec

\* A dump, a plan and a deleteMany only ever name rows of exported entities.
THEOREM ImportTypes == Spec => []TypeOK
<1>1. ImportInv => TypeOK
  BY DEF ImportInv
<1> QED
  BY <1>1, ImportInvariant, PTL

------------------------------------------------------------------------------
(* A REPLACE leaves nothing behind that was there when it began to read. *)

LEMMA CommitLeavesOnlyLateRows ==
    ASSUME ImportInv, [Next]_vars, NEW r \in Imports, Commits(r),
           loc[r].mode = "replace"
    PROVE  Exported(table') \subseteq loc[r].dump \union loc[r].late
<1>1. Commit(r)
  <2>1. at[r] = "inserting" /\ at'[r] = "succeeding"
    BY DEF Commits
  <2>2. ASSUME NEW q \in Imports, Request(q) \/ Step(q) \/ CallFails(q)
        PROVE  Commit(r)
    <3>1. CASE q = r
      BY <2>1, <2>2, <3>1
         DEF Request, Step, Admit, Refuse, CreateJob, MarkRunning, Read, Plan,
             Delete, Rollback, MarkSucceeded, MarkFailed, CallFails, Ends,
             Goes, ImportInv, TypeOK, Working, InFlight
    <3>2. CASE q # r
      BY <2>1, <2>2, <3>2
         DEF Request, Step, Admit, Refuse, CreateJob, MarkRunning, Read, Plan,
             Delete, Commit, Rollback, MarkSucceeded, MarkFailed, CallFails,
             Ends, Goes, ImportInv, TypeOK, Working, InFlight
    <3> QED
      BY <3>1, <3>2
  <2>3. ~Crash
    BY <2>1 DEF Crash, InFlight
  <2>4. at' # at
    BY <2>1
  <2> QED
    BY <2>2, <2>3, <2>4 DEF Next, Write, Erase, vars
<1>2. \A x \in Exported(table) : x \in loc[r].late \/ x \in loc[r].doomed
  BY <1>1 DEF Commit, ImportInv, AllCovered, Covered
<1>3. \A x \in Rest(r) : x \in table /\ x \notin loc[r].doomed
  BY DEF Rest, WithCascade
<1>4. table' = Rest(r) \union loc[r].dump
  BY <1>1 DEF Commit
<1> QED
  BY <1>2, <1>3, <1>4 DEF Exported

\* However many imports, writers and failures share the tables with it, a
\* REPLACE leaves no exported row beside its dump but those that are new.
THEOREM ReplaceLeavesOnlyLateRowsTheorem == Spec => ReplaceLeavesOnlyLateRows
<1>1. ImportInv /\ [Next]_vars =>
        [\A r \in Imports :
            Commits(r) /\ loc[r].mode = "replace" =>
                Exported(table') \subseteq loc[r].dump \union loc[r].late]_vars
  BY CommitLeavesOnlyLateRows
<1> QED
  BY <1>1, ImportInvariant, PTL DEF Spec, ReplaceLeavesOnlyLateRows

------------------------------------------------------------------------------
(* A job's status tells what became of the tables. *)

\* Where a request is, what its job row says and whether its transaction
\* committed go together; a committed transaction can be denied by no status.
Agrees(r) ==
    /\ at[r] \in {"idle", "checking", "creating"} => job[r] = "none"
    /\ at[r] = "marking" => job[r] = "PENDING"
    /\ at[r] \in {"reading", "deleting", "inserting", "recording"} =>
        job[r] = "RUNNING" /\ r \notin restored
    /\ at[r] = "succeeding" => job[r] = "RUNNING" /\ r \in restored
    /\ job[r] = "SUCCEEDED" => r \in restored
    /\ job[r] \in {"none", "PENDING", "FAILED"} => r \notin restored

AllAgree == TypeOK /\ \A r \in Imports : Agrees(r)

\* Only the request that moves can disagree.
LEMMA OthersAgree ==
    ASSUME AllAgree, TypeOK', NEW r \in Imports, Agrees(r)',
           \A q \in Imports : q # r => /\ at'[q] = at[q]
                                       /\ job'[q] = job[q]
                                       /\ (q \in restored' <=> q \in restored)
    PROVE  AllAgree'
<1>1. ASSUME NEW q \in Imports, q # r PROVE Agrees(q)'
  BY <1>1 DEF AllAgree, Agrees
<1> QED
  BY <1>1 DEF AllAgree

\* A request touches its own call, its own job row and its own outcome.
LEMMA OnlyOneMoves ==
    ASSUME TypeOK, NEW r \in Imports, Request(r) \/ Step(r) \/ CallFails(r),
           NEW q \in Imports, q # r
    PROVE  /\ at'[q] = at[q]
           /\ job'[q] = job[q]
           /\ (q \in restored' <=> q \in restored)
BY DEF TypeOK, Request, Step, Admit, Refuse, CreateJob, MarkRunning, Read,
       Plan, Delete, Commit, Rollback, MarkSucceeded, MarkFailed, CallFails,
       Ends, Goes

LEMMA StepAgrees ==
    ASSUME AllAgree, NEW r \in Imports, Request(r) \/ Step(r) \/ CallFails(r)
    PROVE  Agrees(r)'
<1>1. at \in [Imports -> Calls] /\ job \in [Imports -> Statuses] /\ Agrees(r)
  BY DEF AllAgree, TypeOK
<1>2. CASE Request(r) \/ Admit(r) \/ Refuse(r)
  BY <1>1, <1>2 DEF Request, Admit, Refuse, Ends, Goes, Agrees
<1>3. CASE CreateJob(r) \/ MarkRunning(r)
  BY <1>1, <1>3 DEF CreateJob, MarkRunning, Goes, Agrees
<1>4. CASE Read(r)
  BY <1>1, <1>4 DEF Read, Plan, Goes, Agrees
<1>5. CASE Delete(r) \/ Rollback(r)
  BY <1>1, <1>5 DEF Delete, Rollback, Goes, Agrees
<1>6. CASE Commit(r)
  BY <1>1, <1>6 DEF Commit, Goes, Agrees
<1>7. CASE MarkSucceeded(r) \/ MarkFailed(r)
  BY <1>1, <1>7 DEF MarkSucceeded, MarkFailed, Ends, Goes, Agrees
<1>8. CASE CallFails(r)
  BY <1>1, <1>8 DEF CallFails, Ends, Goes, Working, Agrees
<1> QED
  BY <1>2, <1>3, <1>4, <1>5, <1>6, <1>7, <1>8 DEF Step

LEMMA NextKeepsAgreement ==
    ASSUME AllAgree, TypeOK', [Next]_vars
    PROVE  AllAgree'
<1>1. ASSUME NEW r \in Imports, Request(r) \/ Step(r) \/ CallFails(r)
      PROVE  AllAgree'
  BY <1>1, StepAgrees, OnlyOneMoves, OthersAgree DEF AllAgree
<1>2. CASE Crash
  <2>1. ASSUME NEW r \in Imports PROVE Agrees(r)'
    BY <1>2, <2>1 DEF Crash, InFlight, AllAgree, TypeOK, Agrees
  <2> QED
    BY <2>1 DEF AllAgree
<1>3. CASE Write \/ Erase \/ UNCHANGED vars
  BY <1>3 DEF Write, Erase, vars, AllAgree, Agrees
<1> QED
  BY <1>1, <1>2, <1>3 DEF Next

\* SUCCEEDED is only ever written after the commit and FAILED only without
\* one, whatever fails in between and whenever the process dies.
THEOREM RecordTellsOutcomeTheorem == Spec => []RecordTellsOutcome
<1>1. Init /\ TypeOK => AllAgree
  BY DEF Init, AllAgree, Agrees
<1>2. AllAgree /\ TypeOK' /\ [Next]_vars => AllAgree'
  BY NextKeepsAgreement
<1>3. AllAgree => RecordTellsOutcome
  BY DEF AllAgree, Agrees, RecordTellsOutcome
<1> QED
  BY <1>1, <1>2, <1>3, ImportTypes, PTL DEF Spec
==============================================================================
