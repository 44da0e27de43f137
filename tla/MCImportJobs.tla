---------------------------- MODULE MCImportJobs -----------------------------
(* ImportJobs on small sets of rows. *)
EXTENDS ImportJobs

Person1 == [entity |-> "Person", id |-> "p1", instant |-> 1, owner |-> None]
\* The same person as another instance of the program dumped it.
Person1Moved == [Person1 EXCEPT !.instant = 2]
Assessment1 == [entity |-> "Assessment", id |-> "a1", instant |-> 1,
                owner |-> "p1"]
Config1 == [entity |-> "LlmConfig", id |-> "c1", instant |-> 1, owner |-> None]
Mapping1 == [entity |-> "DifficultyMapping", id |-> "m1", instant |-> 1,
             owner |-> "c1"]

\* A person under two instants, and an assessment of that person.
MovedRows == {Person1, Person1Moved, Assessment1}
\* A configuration, and the row that keeps it from being deleted.
ConfigRows == {Config1, Mapping1}
==============================================================================
