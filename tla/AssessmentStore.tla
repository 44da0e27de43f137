--------------------------- MODULE AssessmentStore ---------------------------
(***************************************************************************)
(* How the application writes the Assessment table                         *)
(* (src/src/assessment-evaluation/evaluation-result-persist.service.ts,    *)
(* src/src/assessment-evaluation/period-bridge-admin-persist.service.ts).  *)
(*                                                                         *)
(* A call is one request, tick coordinate or refresh coordinate.  It       *)
(* collects and scores (a long await), then runs a transaction that reads  *)
(* the coordinate, may delete the row it read and may create a new one,    *)
(* then reads the stored row back.  The transactions run in PostgreSQL at  *)
(* its default isolation, READ COMMITTED: a read sees committed rows and   *)
(* never waits; a write waits for the transaction that has an uncommitted  *)
(* write of the same coordinate; a delete of a row that has gone removes   *)
(* nothing (P2025), a create of a row that is there fails (P2002).         *)
(***************************************************************************)
EXTENDS Naturals, FiniteSets

CONSTANTS
    Calls,      \* calls in flight at once
    Keys,       \* coordinates; numbered, in the order a statement scans them
    Groups,     \* the sets of coordinates that one deleting statement names
    Requests,   \* what a call that evaluates may ask for and come up with
    Nobody,     \* no transaction holds the coordinate
    MaxTickets  \* bound: how many calls may start

ASSUME CallsAssumption == Nobody \notin Calls
ASSUME KeysAssumption == Keys \subseteq Nat
ASSUME GroupsAssumption == Groups \subseteq SUBSET Keys
ASSUME TicketsAssumption == MaxTickets \in Nat \ {0}

\* A fill or a reeval; through the bridge (tick, refresh, fill-run, period) or
\* from the evaluate endpoint; with no result, some with distinct source
\* references, or some that name a source twice.
Request == [mode : {"fill", "reeval"}, via : {"bridge", "direct"},
            units : {"none", "some", "dup"}]
ASSUME RequestsAssumption == Requests \subseteq Request

NoRow == 0      \* no row
OldRow == 1     \* a row from before the process started; the ids of the
                \* others are the tickets of the calls that created them

VARIABLES
    row,      \* coordinate -> id of its committed row
    holder,   \* coordinate -> the call with an uncommitted write of it
    call,     \* call -> its arguments, locals and program counter
    tickets,  \* calls started so far; a call's ticket is its row's id
    raced     \* history: coordinates another call changed since this one began

vars == <<row, holder, call, tickets, raced>>

Idle == [at |-> "idle", mode |-> "none", via |-> "none", keys |-> {},
         units |-> "none", ticket |-> NoRow, seen |-> [k \in Keys |-> NoRow],
         todo |-> {}, did |-> "none", result |-> "none"]

At(c, at) == call[c].at = at
KeyOf(c) == CHOOSE k \in call[c].keys : TRUE

\* Mutant of Snapshot: only the coordinates that have a row.
Snapshot_FoundOnly(c) == [k \in {j \in call[c].keys : row[j] # NoRow} |-> row[k]]

\* What a read sees of the call's coordinates.
Snapshot(c) == [k \in Keys |-> IF k \in call[c].keys THEN row[k] ELSE NoRow]

\* The call moves on.
Goes(c, at) == call' = [call EXCEPT ![c].at = at]

\* The call has its outcome `did' and answers `result'.
Answers(c, did, result) ==
    call' = [call EXCEPT ![c].at = "answered", ![c].did = did,
                         ![c].result = result]

Released(c) == [k \in Keys |-> IF holder[k] = c THEN Nobody ELSE holder[k]]

\* The transaction rolls back.
RollsBack(c) == holder' = Released(c)

\* A ConflictException leaves persist().  The fill of the bridge goes on to
\* read the coordinate; every other caller sees it.
Conflicts(c) ==
    \/ /\ call[c].via = "bridge" /\ call[c].mode = "fill"
       /\ call' = [call EXCEPT ![c].at = "readKey", ![c].did = "refused"]
    \/ /\ ~(call[c].via = "bridge" /\ call[c].mode = "fill")
       /\ Answers(c, "refused", "conflict")

------------------------------------------------------------------------------
(* Calls that evaluate. *)

\* A call starts.
Begin(c, r, k) ==
    /\ At(c, "idle")
    /\ tickets < MaxTickets
    /\ tickets' = tickets + 1
    /\ call' = [call EXCEPT ![c] =
                [Idle EXCEPT !.at = "evaluating", !.mode = r.mode, !.via = r.via,
                             !.keys = {k}, !.units = r.units,
                             !.ticket = tickets + 1]]
    /\ raced' = [raced EXCEPT ![c] = {}]
    /\ UNCHANGED <<row, holder>>

\* The collection was incomplete, or collecting or scoring failed.
GiveUp(c) ==
    /\ At(c, "evaluating")
    /\ Answers(c, "failed", "failed")
    /\ UNCHANGED <<row, holder, tickets, raced>>

\* Mutant of ReadCoordinate: a fill replaces the row it finds.
ReadCoordinate_FillReplaces(c) ==
    /\ At(c, "evaluating")
    /\ call' = [call EXCEPT ![c].seen = Snapshot(c), ![c].at =
                    IF row[KeyOf(c)] # NoRow THEN "deleting" ELSE "inserting"]
    /\ UNCHANGED <<row, holder, tickets, raced>>

\* persistInTransaction reads the coordinate.  A fill that finds a row is done.
ReadCoordinate(c) ==
    LET found == row[KeyOf(c)] # NoRow IN
    /\ At(c, "evaluating")
    /\ \/ /\ found /\ call[c].mode = "fill" /\ call[c].via = "bridge"
          /\ call' = [call EXCEPT ![c].at = "readBack", ![c].seen = Snapshot(c),
                                  ![c].did = "kept"]
       \/ /\ found /\ call[c].mode = "fill" /\ call[c].via = "direct"
          /\ call' = [call EXCEPT ![c].at = "answered", ![c].seen = Snapshot(c),
                                  ![c].did = "kept", ![c].result = "existing"]
       \/ /\ found /\ call[c].mode = "reeval"
          /\ call' = [call EXCEPT ![c].at = "deleting", ![c].seen = Snapshot(c)]
       \/ /\ ~found
          /\ call' = [call EXCEPT ![c].at = "inserting", ![c].seen = Snapshot(c)]
    /\ UNCHANGED <<row, holder, tickets, raced>>

\* Mutant of DeleteExisting: the delete is a statement of its own.
DeleteExisting_NotInTransaction(c) ==
    LET k == KeyOf(c) IN
    /\ At(c, "deleting")
    /\ holder[k] = Nobody
    /\ \/ /\ row[k] = call[c].seen[k]
          /\ row' = [row EXCEPT ![k] = NoRow]
          /\ Goes(c, "inserting")
       \/ /\ row[k] # call[c].seen[k]
          /\ Conflicts(c)
          /\ UNCHANGED row
    /\ UNCHANGED <<holder, tickets, raced>>

\* The delete of a reeval: it waits for the coordinate, then removes the row
\* it read, or finds that it has gone.
DeleteExisting(c) ==
    LET k == KeyOf(c) IN
    /\ At(c, "deleting")
    /\ holder[k] = Nobody
    /\ \/ /\ row[k] = call[c].seen[k]
          /\ holder' = [holder EXCEPT ![k] = c]
          /\ Goes(c, "inserting")
       \/ /\ row[k] # call[c].seen[k]
          /\ Conflicts(c)
          /\ UNCHANGED holder
    /\ UNCHANGED <<row, tickets, raced>>

\* createAssessment: the row and its contributions.  The row clashes with a
\* committed one, or the contributions with each other: both are P2002.
CreateRow(c) ==
    LET k == KeyOf(c)
        clash == (holder[k] = Nobody /\ row[k] # NoRow) \/ call[c].units = "dup"
    IN
    /\ At(c, "inserting")
    /\ holder[k] \in {Nobody, c}
    /\ \/ /\ ~clash
          /\ holder' = [holder EXCEPT ![k] = c]
          /\ Goes(c, "committing")
       \/ /\ clash
          /\ Conflicts(c)
          /\ RollsBack(c)
    /\ UNCHANGED <<row, tickets, raced>>

Changed(K, c) ==
    raced' = [d \in Calls |->
                IF d # c /\ ~At(d, "idle")
                THEN raced[d] \union (K \cap call[d].keys) ELSE raced[d]]

\* The transaction commits.
Commit(c) ==
    LET K == {k \in Keys : holder[k] = c} IN
    /\ At(c, "committing")
    /\ row' = [k \in Keys |-> IF k \in K THEN call[c].ticket ELSE row[k]]
    /\ holder' = Released(c)
    /\ Changed(K, c)
    /\ \/ /\ call[c].via = "bridge"
          /\ call' = [call EXCEPT ![c].at = "readBack", ![c].did = "wrote"]
       \/ /\ call[c].via = "direct"
          /\ Answers(c, "wrote", "created")
    /\ UNCHANGED tickets

\* Mutant of Abort: the connection keeps its locks.
Abort_KeepsLocks(c) ==
    /\ call[c].at \in {"deleting", "inserting", "committing", "resetting"}
    /\ Answers(c, "failed", "failed")
    /\ UNCHANGED <<row, holder, tickets, raced>>

\* The database fails the transaction (lost connection, transaction timeout).
Abort(c) ==
    /\ call[c].at \in {"deleting", "inserting", "committing", "resetting"}
    /\ RollsBack(c)
    /\ Answers(c, "failed", "failed")
    /\ UNCHANGED <<row, tickets, raced>>

\* Mutant of ReadBackById: it looks for the row the transaction had read.
ReadBackById_OldId(c) ==
    LET k == KeyOf(c) IN
    /\ At(c, "readBack")
    /\ \/ /\ row[k] = call[c].seen[k]
          /\ Answers(c, call[c].did, "created")
       \/ /\ row[k] # call[c].seen[k]
          /\ Answers(c, call[c].did, "notFound")
    /\ UNCHANGED <<row, holder, tickets, raced>>

\* readBackById, and the `created' flag of the answer.
ReadBackById(c) ==
    LET k == KeyOf(c)
        id == IF call[c].did = "wrote" THEN call[c].ticket ELSE call[c].seen[k]
        created == \/ call[c].mode = "reeval"
                   \/ call[c].did = "wrote" /\ call[c].units = "some"
    IN
    /\ At(c, "readBack")
    /\ \/ /\ row[k] = id
          /\ Answers(c, call[c].did, IF created THEN "created" ELSE "existing")
       \/ /\ row[k] # id
          /\ Answers(c, call[c].did, "notFound")
    /\ UNCHANGED <<row, holder, tickets, raced>>

\* readBackByCoordinate after a conflict.
ReadBackByCoordinate(c) ==
    /\ At(c, "readKey")
    /\ Answers(c, call[c].did,
               IF row[KeyOf(c)] # NoRow THEN "existing" ELSE "notFound")
    /\ UNCHANGED <<row, holder, tickets, raced>>

\* The caller has its answer.
Return(c) ==
    /\ At(c, "answered")
    /\ call' = [call EXCEPT ![c] = Idle]
    /\ raced' = [raced EXCEPT ![c] = {}]
    /\ UNCHANGED <<row, holder, tickets>>

------------------------------------------------------------------------------
(* Calls that delete, and crashes. *)

\* resetByPeriod: one deleteMany statement, which sees the rows of its start.
BeginReset(c, K) ==
    /\ At(c, "idle")
    /\ tickets < MaxTickets
    /\ tickets' = tickets + 1
    /\ call' = [call EXCEPT ![c] =
                [Idle EXCEPT !.at = "resetting", !.mode = "reset", !.keys = K,
                             !.seen = [k \in Keys |-> IF k \in K THEN row[k] ELSE NoRow],
                             !.ticket = tickets + 1,
                             !.todo = {k \in K : row[k] # NoRow}]]
    /\ raced' = [raced EXCEPT ![c] = {}]
    /\ UNCHANGED <<row, holder>>

\* The statement comes to the next row: it waits for it, and passes over it
\* when it has been replaced or deleted meanwhile.
ResetRow(c) ==
    /\ At(c, "resetting")
    /\ \E k \in call[c].todo :
        /\ \A j \in call[c].todo : k <= j
        /\ holder[k] = Nobody
        /\ call' = [call EXCEPT ![c].todo = @ \ {k}]
        /\ \/ row[k] = call[c].seen[k] /\ holder' = [holder EXCEPT ![k] = c]
           \/ row[k] # call[c].seen[k] /\ UNCHANGED holder
    /\ UNCHANGED <<row, tickets, raced>>

CommitReset(c) ==
    LET K == {k \in Keys : holder[k] = c} IN
    /\ At(c, "resetting")
    /\ call[c].todo = {}
    /\ row' = [k \in Keys |-> IF k \in K THEN NoRow ELSE row[k]]
    /\ holder' = Released(c)
    /\ Changed(K, c)
    /\ Answers(c, "wrote", "done")
    /\ UNCHANGED tickets

\* The server process dies: PostgreSQL rolls its transactions back.
Crash ==
    /\ \E c \in Calls : ~At(c, "idle")
    /\ call' = [c \in Calls |-> Idle]
    /\ holder' = [k \in Keys |-> Nobody]
    /\ raced' = [c \in Calls |-> {}]
    /\ UNCHANGED <<row, tickets>>

------------------------------------------------------------------------------
Init ==
    /\ row \in [Keys -> {NoRow, OldRow}]
    /\ holder = [k \in Keys |-> Nobody]
    /\ call = [c \in Calls |-> Idle]
    /\ tickets = OldRow
    /\ raced = [c \in Calls |-> {}]

Arrive(c) ==
    \/ \E r \in Requests, k \in Keys : Begin(c, r, k)
    \/ \E K \in Groups : BeginReset(c, K)

\* A call goes on of its own accord.
Step(c) ==
    \/ ReadCoordinate(c) \/ DeleteExisting(c) \/ CreateRow(c) \/ Commit(c)
    \/ ReadBackById(c) \/ ReadBackByCoordinate(c) \/ Return(c)
    \/ ResetRow(c) \/ CommitReset(c)

Next ==
    \/ \E c \in Calls : Arrive(c) \/ Step(c) \/ GiveUp(c) \/ Abort(c)
    \/ Crash

Spec == Init /\ [][Next]_vars

\* Awaited work settles, and PostgreSQL serves the waiters of a row in turn.
FairSpec == Spec /\ \A c \in Calls : SF_vars(Step(c))
------------------------------------------------------------------------------
(* Properties. *)

Places == {"idle", "evaluating", "deleting", "inserting", "committing",
           "readBack", "readKey", "answered", "resetting"}
CallType ==
    [at : Places, mode : {"none", "fill", "reeval", "reset"},
     via : {"none", "bridge", "direct"}, keys : SUBSET Keys,
     units : {"none", "some", "dup"}, ticket : Nat, seen : [Keys -> Nat],
     todo : SUBSET Keys, did : {"none", "kept", "wrote", "refused", "failed"},
     result : {"none", "created", "existing", "conflict", "failed",
               "notFound", "done"}]

TypeOK ==
    /\ row \in [Keys -> Nat]
    /\ holder \in [Keys -> Calls \union {Nobody}]
    /\ call \in [Calls -> CallType]
    /\ tickets \in Nat
    /\ raced \in [Calls -> SUBSET Keys]

\* Each writing call takes effect in one step of the abstract map: fills never
\* change a row, replacing is indivisible, and a call is refused only when
\* another one changed its coordinate meanwhile.
TaskOf(c) ==
    [mode |-> call[c].mode, keys |-> call[c].keys, id |-> call[c].ticket,
     distinct |-> call[c].units # "dup",
     fate |-> IF At(c, "idle") THEN "none"
              ELSE IF call[c].did = "none" THEN "open" ELSE call[c].did]

Map == INSTANCE CoordinateMap WITH
          task <- [c \in Calls |-> TaskOf(c)], Ids <- 1..MaxTickets

ImplementsMap == Map!MapSpec

\* Once a coordinate has a row it is never without one, in the eyes of any
\* reader, unless a reset takes it away: a refresh never loses what a tick or
\* a request stored, however they overlap, fail or crash.
RowsSurviveEvaluation ==
    [][\A k \in Keys : row[k] # NoRow /\ row'[k] = NoRow
            => \E c \in Calls : At(c, "resetting") /\ k \in call[c].keys]_vars

\* The read-back after a write or after a conflict comes up empty only when
\* another call interfered (or the results clash among themselves).
ReadBackFailsOnlyAfterRace ==
    \A c \in Calls :
        call[c].result = "notFound" => raced[c] # {} \/ call[c].units = "dup"

\* Every call is answered: no lock is left behind and no two calls wait for
\* each other.
EveryCallAnswers ==
    \A c \in Calls : ~At(c, "idle") ~> call[c].at \in {"answered", "idle"}
==============================================================================
