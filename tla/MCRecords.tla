------------------------------- MODULE MCRecords ------------------------------
(* Records with two or three requests to each service. *)
EXTENDS Records, TLC

MCOrder == <<"ann", "bob">>
Symmetry == Permutations(Callers)
==============================================================================
