---------------------------- MODULE MCCollecting -----------------------------
(* Collecting on two or three weeks of one person. *)
EXTENDS Collecting, TLC

Week(s) == [period |-> "week", start |-> s]

\* A page, and pull requests of two repositories with the same number.
Pull1 == [source |-> "github", at |-> 1, ref |-> 1]
Pull3 == [source |-> "github", at |-> 3, ref |-> 1]
Page1 == [source |-> "confluence", at |-> 1, ref |-> 3]

MCCoords == {Week(1), Week(2), Week(3)}
MCActivity == {Pull1, Pull3, Page1}
MCBackoffs == {1}
Symmetry == Permutations(Calls)
==============================================================================
