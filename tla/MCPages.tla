-------------------------------- MODULE MCPages --------------------------------
(***************************************************************************)
(* A small instance of Pages, with the scenes of the functions beside its  *)
(* own.  The rows of the admin page are the users, persons and files of    *)
(* the others.                                                             *)
(***************************************************************************)
EXTENDS FunctionScenes

\* What a behaviour may do in a section of the admin page: changes, and times
\* its lists are read.
Bounds == [users |-> <<3, 2>>, persons |-> <<2, 2>>, groups |-> <<2, 2>>,
           members |-> <<2, 2>>, parts |-> <<1, 2>>, providers |-> <<2, 2>>,
           mappings |-> <<3, 2>>, identities |-> <<3, 1>>, targets |-> <<2, 2>>]
MCClicks == [s \in DOMAIN Bounds |-> Bounds[s][1]]
MCLists == [s \in DOMAIN Bounds |-> Bounds[s][2]]

MCScopes ==
    {Asked("full", 0, 0, {"Person"}), Asked("range", 1, 3, {}),
     Asked("range", 1, 3, {"Assessment"}), Asked("range", 2, 2, {}),
     Asked("partial", 0, 0, {}), Asked("partial", 0, 0, {"Person"})}

Symmetry == Permutations(Rows)
==============================================================================
