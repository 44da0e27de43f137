-------------------------------- MODULE Roster -------------------------------
(***************************************************************************)
(* Persons, groups and their members (src/src/user).                       *)
(*                                                                         *)
(* Joining a group and listing its members take several statements, and    *)
(* persons, groups and memberships come and go between them.               *)
(***************************************************************************)
EXTENDS Integers, FiniteSets

CONSTANTS
    Callers,    \* requests in flight
    Persons,
    Groups,
    MaxAdded    \* bound: memberships created

VARIABLES
    person,     \* person -> "unborn", "active", "inactive" or "gone"
    group,      \* group -> "unborn", "there" or "gone"
    member,     \* rows of PersonGroupMembership: [person, group]
    added,      \* memberships created so far
    caller      \* request -> its locals and program counter

vars == <<person, group, member, added, caller>>

\* stayed and seen are history: who was a member, and not removed, all the
\* time since the listing began, and who was one at any time.
Idle == [at |-> "idle", person |-> "none", group |-> "none", todo |-> {}, found |-> {},
         stayed |-> {}, seen |-> {}]

At(c, place) == caller[c].at = place
Present == {p \in Persons : person[p] \in {"active", "inactive"}}
There == {g \in Groups : group[g] = "there"}
MembersOf(rows, g) == {m.person : m \in {n \in rows : n.group = g}}

Goes(c, place) == caller' = [caller EXCEPT ![c].at = place]
Answers(c) == caller' = [caller EXCEPT ![c] = Idle]

\* What the listings under way have seen once the memberships are rows.
Watched(rows) ==
    [c \in Callers |->
        LET members == MembersOf(rows, caller[c].group) IN
        IF caller[c].at \in {"rows", "persons"}
        THEN [caller[c] EXCEPT !.stayed = @ \cap members, !.seen = @ \cup members]
        ELSE caller[c]]

------------------------------------------------------------------------------
(* Persons and groups: one statement each. *)

\* POST persons, or one active again, or PATCH active: false.
Put(p, state) ==
    /\ person[p] \notin {state, "gone"}
    /\ person' = [person EXCEPT ![p] = state]
    /\ UNCHANGED <<group, member, added, caller>>

\* DELETE persons/:id takes the memberships along.
RemovePerson(p) ==
    /\ p \in Present
    /\ person' = [person EXCEPT ![p] = "gone"]
    /\ member' = {m \in member : m.person # p}
    /\ caller' = Watched(member')
    /\ UNCHANGED <<group, added>>

\* POST groups.
CreateGroup(g) ==
    /\ group[g] = "unborn"
    /\ group' = [group EXCEPT ![g] = "there"]
    /\ UNCHANGED <<person, member, added, caller>>

\* DELETE groups/:id takes the memberships along.
DeleteGroup(g) ==
    /\ g \in There
    /\ group' = [group EXCEPT ![g] = "gone"]
    /\ member' = {m \in member : m.group # g}
    /\ caller' = Watched(member')
    /\ UNCHANGED <<person, added>>

\* DELETE memberships/:id.
RemoveMember(m) ==
    /\ m \in member
    /\ member' = member \ {m}
    /\ caller' = Watched(member')
    /\ UNCHANGED <<person, group, added>>

------------------------------------------------------------------------------
(* Joining a group. *)

\* addMember finds the group, or 404.
AddMember(c, p, g) ==
    /\ At(c, "idle")
    /\ g \in There
    /\ caller' = [caller EXCEPT ![c] = [Idle EXCEPT !.at = "person", !.person = p, !.group = g]]
    /\ UNCHANGED <<person, group, member, added>>

\* The person is found, or 404.
FindPerson(c) ==
    /\ At(c, "person")
    /\ IF caller[c].person \in Present THEN Goes(c, "join") ELSE Answers(c)
    /\ UNCHANGED <<person, group, member, added>>

\* The membership is created, unless there is one (409) or the person or the
\* group has gone meanwhile (404): then CallEnds.
Join(c) ==
    LET row == [person |-> caller[c].person, group |-> caller[c].group] IN
    /\ At(c, "join")
    /\ caller[c].person \in Present
    /\ caller[c].group \in There
    /\ added < MaxAdded
    /\ row \notin member
    /\ member' = member \cup {row}
    /\ added' = added + 1
    /\ caller' = [Watched(member') EXCEPT ![c] = Idle]
    /\ UNCHANGED <<person, group>>

------------------------------------------------------------------------------
(* Listing a group. *)

\* findPersonsByGroupId finds the group, or 404.
List(c, g) ==
    /\ At(c, "idle")
    /\ g \in There
    /\ caller' = [caller EXCEPT ![c] =
          [Idle EXCEPT !.at = "rows", !.group = g,
                       !.stayed = MembersOf(member, g), !.seen = MembersOf(member, g)]]
    /\ UNCHANGED <<person, group, member, added>>

\* Its memberships are read.
FindRows(c) ==
    /\ At(c, "rows")
    /\ caller' = [caller EXCEPT ![c].at = "persons", ![c].todo = MembersOf(member, caller[c].group)]
    /\ UNCHANGED <<person, group, member, added>>

\* Each member is looked up, in the order of the rows; one that has gone is
\* left out.
FindMember(c, p) ==
    /\ At(c, "persons") /\ p \in caller[c].todo
    /\ caller' = [caller EXCEPT ![c].todo = @ \ {p}, ![c].found = @ \cup ({p} \cap Present)]
    /\ UNCHANGED <<person, group, member, added>>

Listed(c) == At(c, "persons") /\ caller[c].todo = {}

\* The list is answered; or a statement fails or the process dies.
CallEnds(c) ==
    /\ ~At(c, "idle")
    /\ Answers(c)
    /\ UNCHANGED <<person, group, member, added>>

Init ==
    /\ person = [p \in Persons |-> "unborn"]
    /\ group = [g \in Groups |-> "unborn"]
    /\ member = {}
    /\ added = 0
    /\ caller = [c \in Callers |-> Idle]

Next ==
    \/ \E p \in Persons : Put(p, "active") \/ RemovePerson(p)
    \/ \E p \in Present : Put(p, "inactive")
    \/ \E g \in Groups : CreateGroup(g) \/ DeleteGroup(g)
    \/ \E m \in member : RemoveMember(m)
    \/ \E c \in Callers :
          \/ \E g \in Groups : List(c, g) \/ \E p \in Persons : AddMember(c, p, g)
          \/ \E p \in Persons : FindMember(c, p)
          \/ FindPerson(c) \/ Join(c) \/ FindRows(c) \/ CallEnds(c)

Spec == Init /\ [][Next]_vars

------------------------------------------------------------------------------
(* Properties. *)

\* The types of the variables.
TypeOK ==
    /\ person \in [Persons -> {"unborn", "active", "inactive", "gone"}]
    /\ group \in [Groups -> {"unborn", "there", "gone"}]
    /\ member \subseteq [person : Persons, group : Groups]
    /\ added \in 0..MaxAdded
    /\ \A c \in Callers :
          /\ caller[c].at \in {"idle", "person", "join", "rows", "persons"}
          /\ caller[c].todo \cup caller[c].found \subseteq Persons

\* A membership ties a person and a group that exist, though both were looked
\* up before it was written (group.service.ts:199).
MembersExist == \A m \in member : m.person \in Present /\ m.group \in There

\* A listing made of one lookup per member (group.service.ts:268) holds those
\* who were members all along, and none who never was.
ListingHoldsMembers ==
    \A c \in Callers :
        Listed(c) => caller[c].stayed \subseteq caller[c].found /\ caller[c].found \subseteq caller[c].seen
==============================================================================
