---------------------------- MODULE InstanceAccess ---------------------------
(***************************************************************************)
(* Records of denied permissions and who may read them                     *)
(* (src/src/permission-denied, src/src/user-instance-access).              *)
(*                                                                         *)
(* An adapter records a refusal without waiting for it.  Admins read every *)
(* record; others those of the instances they were granted, in two         *)
(* statements: the grants, then the records.                               *)
(***************************************************************************)
EXTENDS Integers, FiniteSets, Sequences

CONSTANTS
    Callers,    \* requests in flight
    Users,      \* users who are not admins
    Instances,  \* instances by the spelling that normalizeInstanceRef gives
    Spelled,    \* instances whose configured host or URL is spelled otherwise
    MaxRecords  \* bound: refusals recorded

VARIABLES
    grants,     \* rows of UserInstanceAccess: <<user, instance>>
    records,    \* the instances of the records, one after another
    emitted,    \* refusals on their way to the table
    caller      \* request -> its locals and program counter

vars == <<grants, records, emitted, caller>>

\* kept and granted are history: the instances granted to the user all the
\* time of the call, and at any time of it; before counts the records then.
Idle == [at |-> "idle", user |-> "none", query |-> "any", allowed |-> {},
         kept |-> {}, granted |-> {}, before |-> 0, result |-> {}]

At(c, place) == caller[c].at = place
Answers(c) == caller' = [caller EXCEPT ![c] = Idle]
GrantedTo(rows, u) == {i \in Instances : <<u, i>> \in rows}

\* What the calls under way have seen once the grants are rows.
Watched(rows) ==
    [c \in Callers |->
        LET now == GrantedTo(rows, caller[c].user) IN
        IF caller[c].at \in {"grants", "records"}
        THEN [caller[c] EXCEPT !.kept = @ \cap now, !.granted = @ \cup now]
        ELSE caller[c]]

------------------------------------------------------------------------------
(* Refusals. *)

\* An adapter is refused and goes on; nobody waits for the record.
Emit(i) ==
    /\ Len(records) + Cardinality(emitted) < MaxRecords
    /\ i \notin emitted
    /\ emitted' = emitted \cup {i}
    /\ UNCHANGED <<grants, records, caller>>

\* The record is created, or the failure logged.
Persist(i) ==
    /\ i \in emitted
    /\ emitted' = emitted \ {i}
    /\ \/ records' = Append(records, i)
       \/ UNCHANGED records
    /\ UNCHANGED <<grants, caller>>

------------------------------------------------------------------------------
(* Grants: by an admin and to somebody else, one statement each. *)

Grant(u, i) ==
    /\ <<u, i>> \notin grants
    /\ grants' = grants \cup {<<u, i>>}
    /\ caller' = Watched(grants')
    /\ UNCHANGED <<records, emitted>>

Revoke(u, i) ==
    /\ <<u, i>> \in grants
    /\ grants' = grants \ {<<u, i>>}
    /\ caller' = Watched(grants')
    /\ UNCHANGED <<records, emitted>>

------------------------------------------------------------------------------
(* Listing the records. *)

\* GET records of a user who is not an admin, with or without an instance.
List(c, u, query) ==
    /\ At(c, "idle")
    /\ caller' = [caller EXCEPT ![c] =
          [Idle EXCEPT !.at = "grants", !.user = u, !.query = query,
                       !.kept = GrantedTo(grants, u), !.granted = GrantedTo(grants, u),
                       !.before = Len(records)]]
    /\ UNCHANGED <<grants, records, emitted>>

\* The instances a user may see: those asked for among those granted.
Visible(u, query) == {i \in GrantedTo(grants, u) : query \in {"any", i}}

\* Mutant of FindGrants: the instance asked for is believed.
FindGrants_QueryWins(c) ==
    /\ At(c, "grants")
    /\ caller' = [caller EXCEPT ![c].at = "records", ![c].allowed =
          IF caller[c].query = "any" THEN GrantedTo(grants, caller[c].user) ELSE {caller[c].query}]
    /\ UNCHANGED <<grants, records, emitted>>

\* The grants are read; without one the list is empty.
FindGrants(c) ==
    /\ At(c, "grants")
    /\ caller' = [caller EXCEPT ![c].at = "records",
                                ![c].allowed = Visible(caller[c].user, caller[c].query)]
    /\ UNCHANGED <<grants, records, emitted>>

\* What a query for the allowed instances finds: an instance spelled otherwise
\* in its configuration is recorded so, and granted as normalized.
Matches(k, allowed) == records[k] \in allowed \ Spelled

\* The records are read, newest first.
FindRecords(c) ==
    /\ At(c, "records")
    /\ caller' = [caller EXCEPT ![c].at = "answer",
                     ![c].result = {k \in 1..Len(records) : Matches(k, caller[c].allowed)}]
    /\ UNCHANGED <<grants, records, emitted>>

\* The list is answered; or a statement fails or the process dies.
CallEnds(c) ==
    /\ ~At(c, "idle")
    /\ Answers(c)
    /\ UNCHANGED <<grants, records, emitted>>

Init ==
    /\ grants = {}
    /\ records = <<>>
    /\ emitted = {}
    /\ caller = [c \in Callers |-> Idle]

Next ==
    \/ \E i \in Instances : Emit(i) \/ Persist(i)
    \/ \E u \in Users, i \in Instances : Grant(u, i) \/ Revoke(u, i)
    \/ \E c \in Callers :
          \/ \E u \in Users, query \in Instances \cup {"any"} : List(c, u, query)
          \/ FindGrants(c) \/ FindRecords(c) \/ CallEnds(c)

Spec == Init /\ [][Next]_vars

------------------------------------------------------------------------------
(* Properties. *)

\* The types of the variables.
TypeOK ==
    /\ grants \subseteq Users \X Instances
    /\ records \in Seq(Instances) /\ emitted \subseteq Instances
    /\ Len(records) + Cardinality(emitted) <= MaxRecords
    /\ \A c \in Callers :
          /\ caller[c].at \in {"idle", "grants", "records", "answer"}
          /\ caller[c].allowed \cup caller[c].granted \subseteq Instances

\* Grants are read before the records they select
\* (permission-denied-record.service.ts:169): a list holds records only of
\* instances that were granted while it was made, and of every instance that
\* stayed granted all the records there were, if its spelling is normal.
ListsWhatWasGranted ==
    \A c \in Callers :
        At(c, "answer") =>
            /\ \A k \in caller[c].result : records[k] \in caller[c].granted
            /\ \A k \in 1..caller[c].before :
                  /\ records[k] \in caller[c].kept \ Spelled
                  /\ caller[c].query \in {"any", records[k]}
                  => k \in caller[c].result
==============================================================================
