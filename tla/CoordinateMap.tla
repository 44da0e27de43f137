---------------------------- MODULE CoordinateMap ----------------------------
(***************************************************************************)
(* What the Assessment table promises its writers, whatever they overlap   *)
(* with.  A coordinate (person, period, scope, periodStart) has one row or *)
(* none, and each writing call takes effect in one indivisible step:       *)
(*   - a "fill" creates the row if there is none, and otherwise keeps it;  *)
(*   - a "reeval" replaces the row, or creates it;                         *)
(*   - a "reset" removes the rows it found;                                *)
(*   - a call is refused only when another call changed its coordinate     *)
(*     after it started, or when its own results name a source twice.      *)
(***************************************************************************)
EXTENDS Naturals

CONSTANTS
    Calls,  \* callers of the store
    Keys,   \* coordinates
    Groups, \* the sets of coordinates that one deleting statement names
    Ids,    \* the ids that rows can have
    NoRow   \* stands for the id of a row that is not there

VARIABLES
    row,    \* coordinate -> the id of its row, or NoRow
    task,   \* call -> what it is doing
    raced   \* call -> coordinates another call changed since this one started

mapVars == <<row, task, raced>>

NoTask == [mode |-> "none", keys |-> {}, id |-> NoRow, distinct |-> TRUE,
           fate |-> "none"]

Open(c) == task[c].fate = "open"

\* The call's fate is sealed; the others see which coordinates changed.
Seal(c, fate) == task' = [task EXCEPT ![c].fate = fate]
Changed(K, c) == raced' = [d \in Calls |->
                            IF d # c /\ task[d].fate # "none"
                            THEN raced[d] \union (K \cap task[d].keys)
                            ELSE raced[d]]

\* A call starts: what it will do is fixed, its effect is still to come.
Start(c) ==
    /\ task[c].fate = "none"
    /\ \E mode \in {"fill", "reeval", "reset"}, K \in Groups \union {{k} : k \in Keys},
          id \in Ids, distinct \in BOOLEAN :
        task' = [task EXCEPT ![c] = [mode |-> mode, keys |-> K, id |-> id,
                                     distinct |-> distinct, fate |-> "open"]]
    /\ raced' = [raced EXCEPT ![c] = {}]
    /\ UNCHANGED row

\* The row of a fill appears; the row of a reeval appears or replaces.
Write(c) ==
    /\ Open(c) /\ task[c].distinct
    /\ \E k \in task[c].keys :
        /\ \/ task[c].mode = "reeval"
           \/ task[c].mode = "fill" /\ row[k] = NoRow
        /\ row' = [row EXCEPT ![k] = task[c].id]
        /\ Changed({k}, c)
    /\ Seal(c, "wrote")

\* A fill finds a row and leaves it.
Keep(c) ==
    /\ Open(c) /\ task[c].mode = "fill"
    /\ \E k \in task[c].keys : row[k] # NoRow
    /\ Seal(c, "kept")
    /\ UNCHANGED <<row, raced>>

\* A reset removes at least each row that nobody changed meanwhile.
Clear(c) ==
    /\ Open(c) /\ task[c].mode = "reset"
    /\ \E K \in SUBSET task[c].keys :
        /\ \A k \in task[c].keys \ K : row[k] = NoRow \/ k \in raced[c]
        /\ row' = [k \in Keys |-> IF k \in K THEN NoRow ELSE row[k]]
        /\ Changed(K, c)
    /\ Seal(c, "wrote")

Refuse(c) ==
    /\ Open(c) /\ (raced[c] # {} \/ ~task[c].distinct)
    /\ Seal(c, "refused")
    /\ UNCHANGED <<row, raced>>

\* The collection, the scoring or the database failed: nothing is changed.
Fail(c) == Open(c) /\ Seal(c, "failed") /\ UNCHANGED <<row, raced>>

\* The caller has its answer.
Close(c) ==
    /\ task[c].fate # "none" /\ ~Open(c)
    /\ task' = [task EXCEPT ![c] = NoTask]
    /\ raced' = [raced EXCEPT ![c] = {}]
    /\ UNCHANGED row

\* The process dies: the calls are gone, the table stays.
Crash == /\ task' = [c \in Calls |-> NoTask]
         /\ raced' = [c \in Calls |-> {}]
         /\ UNCHANGED row

MapInit ==
    /\ row \in [Keys -> Ids \union {NoRow}]
    /\ task = [c \in Calls |-> NoTask]
    /\ raced = [c \in Calls |-> {}]

MapNext ==
    \/ \E c \in Calls :
        \/ Start(c) \/ Write(c) \/ Keep(c) \/ Clear(c) \/ Refuse(c) \/ Fail(c) \/ Close(c)
    \/ Crash

MapSpec == MapInit /\ [][MapNext]_mapVars
==============================================================================
