-------------------------- MODULE ServiceIdentities --------------------------
(***************************************************************************)
(* The service identities of one person, one of them primary               *)
(* (src/src/user, the service-identity files).                             *)
(*                                                                         *)
(* Handlers read the person and its identities, then write, each statement *)
(* on its own.  Setting the primary one is a READ COMMITTED transaction of *)
(* two statements: clear those that are primary, set the new one.  What    *)
(* the first finds is decided when it begins; it changes only rows that    *)
(* still match once it has their locks, so the transaction is a snapshot   *)
(* and a commit.                                                           *)
(***************************************************************************)
EXTENDS Integers, FiniteSets

CONSTANTS
    Callers,    \* requests, each made at most once
    Services,   \* GitHub, Confluence and so on
    MaxIds      \* bound: identities created

VARIABLES
    person,     \* the person exists
    identity,   \* service -> its row, unique for the person
    ids,        \* rows created so far; ids follow createdAt
    caller,     \* request -> its locals and program counter
    doubled,    \* history: the last transaction that set a primary overlapped another
    loose       \* history: the last choice of a primary was cut short or overtaken

vars == <<person, identity, ids, caller, doubled, loose>>

NoIdentity == [id |-> 0, primary |-> FALSE]
Idle == [at |-> "idle", kind |-> "none", target |-> 0, service |-> "none",
         owned |-> {}, clearing |-> {}, crossed |-> FALSE, result |-> "none"]

At(c, place) == caller[c].at = place
Rows == {identity[s] : s \in {t \in Services : identity[t].id # 0}}
Primaries == {r \in Rows : r.primary}
HasId(rows, id) == \E r \in rows : r.id = id

Goes(c, place) == caller' = [caller EXCEPT ![c].at = place]
Answered(c, result) ==
    [caller EXCEPT ![c] = [Idle EXCEPT !.at = "answered", !.kind = caller[c].kind,
                                       !.result = result]]
Answers(c, result) == caller' = Answered(c, result)

\* Transactions that are between their two statements notice the commit.
Crosses(calls) ==
    [d \in Callers |-> IF calls[d].at = "commit" THEN [calls[d] EXCEPT !.crossed = TRUE]
                                                 ELSE calls[d]]

\* Others that have read the identities and not yet finished.
Overtaken(c) == \E d \in Callers \ {c} : caller[d].at \in {"write", "prime", "commit"}

\* A request arrives: create, setPrimary, update or delete.
Arrive(c, kind, target, service) ==
    /\ At(c, "idle")
    /\ caller' = [caller EXCEPT ![c] = [Idle EXCEPT !.at = "person", !.kind = kind,
                                            !.target = target, !.service = service]]
    /\ UNCHANGED <<person, identity, ids, doubled, loose>>

\* The person is looked up.
FindPerson(c) ==
    /\ At(c, "person")
    /\ IF person THEN Goes(c, "owned") ELSE Answers(c, "notFound")
    /\ UNCHANGED <<person, identity, ids, doubled, loose>>

\* The person's identities are read; all but create look for their target.
FindOwned(c) ==
    /\ At(c, "owned")
    /\ IF caller[c].kind # "create" /\ ~HasId(Rows, caller[c].target)
       THEN Answers(c, "notFound")
       ELSE caller' = [caller EXCEPT ![c].owned = Rows, ![c].at =
                          IF caller[c].kind = "setPrimary" THEN "prime" ELSE "write"]
    /\ UNCHANGED <<person, identity, ids, doubled, loose>>

\* create: the row, unless there is one (P2002) or the person is gone; the
\* first one becomes primary.
Create(c) ==
    LET s == caller[c].service IN
    /\ At(c, "write") /\ caller[c].kind = "create"
    /\ \/ /\ person /\ identity[s].id = 0 /\ ids < MaxIds
          /\ ids' = ids + 1
          /\ identity' = [identity EXCEPT ![s] = [id |-> ids + 1, primary |-> FALSE]]
          /\ IF caller[c].owned = {}
             THEN caller' = [caller EXCEPT ![c].at = "prime", ![c].target = ids + 1]
             ELSE Answers(c, "done")
          /\ loose' = (loose \/ Overtaken(c))
       \/ /\ ~person \/ identity[s].id # 0
          /\ Answers(c, IF person THEN "conflict" ELSE "error")
          /\ UNCHANGED <<identity, ids, loose>>
    /\ UNCHANGED <<person, doubled>>

\* update: another account name, on a row that must be there still.
Update(c) ==
    /\ At(c, "write") /\ caller[c].kind = "update"
    /\ Answers(c, IF HasId(Rows, caller[c].target) THEN "done" ELSE "notFound")
    /\ UNCHANGED <<person, identity, ids, doubled, loose>>

\* selectNextPrimaryIdentity: the oldest one.
NextPrimary(rows) == CHOOSE r \in rows : \A q \in rows : r.id <= q.id

WasPrimary(c) == \E r \in caller[c].owned : r.id = caller[c].target /\ r.primary

\* delete: the row goes; if it was primary when it was read, the oldest of the
\* others that were read succeeds it.
Delete(c) ==
    LET left == {r \in caller[c].owned : r.id # caller[c].target} IN
    /\ At(c, "write") /\ caller[c].kind = "delete"
    /\ \/ /\ HasId(Rows, caller[c].target)
          /\ identity' = [s \in Services |-> IF identity[s].id = caller[c].target
                                             THEN NoIdentity ELSE identity[s]]
          /\ loose' = (loose \/ Overtaken(c))
          /\ IF WasPrimary(c) /\ left # {}
             THEN caller' = [caller EXCEPT ![c].at = "prime", ![c].target = NextPrimary(left).id]
             ELSE Answers(c, "done")
       \/ /\ ~HasId(Rows, caller[c].target)
          /\ Answers(c, "notFound")
          /\ UNCHANGED <<identity, loose>>
    /\ UNCHANGED <<person, ids, doubled>>

\* setPrimary of the repository: updateMany finds those that are primary.
ClearPrimaries(c) ==
    /\ At(c, "prime")
    /\ caller' = [caller EXCEPT ![c].at = "commit",
                                ![c].clearing = {r.id : r \in Primaries}]
    /\ UNCHANGED <<person, identity, ids, doubled, loose>>

\* Mutant of CommitPrimary: the old one is not cleared.
CommitPrimary_SetsOnly(c) ==
    LET id == caller[c].target IN
    /\ At(c, "commit")
    /\ HasId(Rows, id)
    /\ identity' = [s \in Services |->
          IF identity[s].id = id THEN [identity[s] EXCEPT !.primary = TRUE] ELSE identity[s]]
    /\ doubled' = caller[c].crossed /\ loose' = Overtaken(c)
    /\ caller' = Crosses(Answered(c, "done"))
    /\ UNCHANGED <<person, ids>>

\* The target is set and both statements commit; without the target (P2025)
\* neither does, which only setPrimary of the service turns into a 404.
CommitPrimary(c) ==
    LET id == caller[c].target IN
    /\ At(c, "commit")
    /\ \/ /\ HasId(Rows, id)
          /\ identity' = [s \in Services |->
                CASE identity[s].id = id -> [identity[s] EXCEPT !.primary = TRUE]
                  [] identity[s].id # id /\ identity[s].id \in caller[c].clearing
                        -> [identity[s] EXCEPT !.primary = FALSE]
                  [] OTHER -> identity[s]]
          /\ doubled' = caller[c].crossed
          /\ loose' = Overtaken(c)
          /\ caller' = Crosses(Answered(c, "done"))
       \/ /\ ~HasId(Rows, id)
          /\ Answers(c, IF caller[c].kind = "setPrimary" THEN "notFound" ELSE "error")
          /\ loose' = (loose \/ caller[c].kind # "setPrimary")
          /\ UNCHANGED <<identity, doubled>>
    /\ UNCHANGED <<person, ids>>

\* A statement fails or the process dies.
CallFails(c) ==
    /\ caller[c].at \in {"person", "owned", "write", "prime", "commit"}
    /\ Answers(c, "failed")
    /\ loose' = (loose \/ (caller[c].at \in {"prime", "commit"} /\ caller[c].kind # "setPrimary"))
    /\ UNCHANGED <<person, identity, ids, doubled>>

\* DELETE person takes the identities along.
RemovePerson ==
    /\ person
    /\ person' = FALSE
    /\ identity' = [s \in Services |-> NoIdentity]
    /\ UNCHANGED <<ids, caller, doubled, loose>>

Init ==
    /\ person = TRUE
    /\ identity = [s \in Services |-> NoIdentity]
    /\ ids = 0
    /\ caller = [c \in Callers |-> Idle]
    /\ doubled = FALSE
    /\ loose = FALSE

Next ==
    \/ \E c \in Callers :
          \/ \E s \in Services : Arrive(c, "create", 0, s)
          \/ \E kind \in {"setPrimary", "update", "delete"}, id \in 1..ids :
                Arrive(c, kind, id, "none")
          \/ FindPerson(c) \/ FindOwned(c) \/ Create(c) \/ Update(c) \/ Delete(c)
          \/ ClearPrimaries(c) \/ CommitPrimary(c) \/ CallFails(c)
    \/ RemovePerson

Spec == Init /\ [][Next]_vars

------------------------------------------------------------------------------
(* Properties. *)

\* The types of the variables.
TypeOK ==
    /\ {person, doubled, loose} \subseteq BOOLEAN
    /\ identity \in [Services -> [id : 0..MaxIds, primary : BOOLEAN]]
    /\ ids \in 0..MaxIds
    /\ \A c \in Callers :
          /\ caller[c].at \in {"idle", "person", "owned", "write", "prime", "commit", "answered"}
          /\ caller[c].target \in 0..ids
          /\ caller[c].owned \subseteq [id : 1..ids, primary : BOOLEAN]
          /\ caller[c].clearing \subseteq 1..ids

\* schema.prisma:252 asks for one primary identity.  There are two only if
\* two transactions that set one overlapped, each blind to the row the other
\* was setting, and only until the next one.
TwoPrimariesNeedOverlap == Cardinality(Primaries) > 1 => doubled

Quiet == \A c \in Callers : caller[c].at \in {"idle", "answered"}

\* A person with identities is without a primary one only if a request was
\* overtaken by another, failed after its first write or lost its successor
\* (service-identity.service.ts:112 and :283), and only until one is set.
NoPrimaryNeedsRace == Quiet /\ Rows # {} /\ Primaries = {} => loose
==============================================================================
