-------------------------- MODULE MCAssessmentStore --------------------------
(* AssessmentStore for TLC. *)
EXTENDS AssessmentStore, TLC

\* A reset names all coordinates of the period; DELETE /assessments/:id names one.
MCGroups == {Keys} \union {{k} : k \in Keys}
MCRequests == [mode : {"fill", "reeval"}, via : {"bridge", "direct"},
               units : {"none", "some", "dup"}]
==============================================================================
