---------------------------- MODULE RecordsProofs ----------------------------
(***************************************************************************)
(* Theorems of Records for any number of requests and rows, one component  *)
(* after another: a run of Records is a run of each component, so what     *)
(* holds of the component's steps holds of it.                             *)
(***************************************************************************)
EXTENDS Records, FiniteSetTheorems, SequenceTheorems, TLAPS

------------------------------------------------------------------------------
(* Each component by itself. *)

\* The other components leave the permission records alone.
LEMMA RunsOfAccess == Spec => Access!Spec
<1>1. Init => Access!Init
  BY DEF Init
<1>2. [Next]_vars => [Access!Next]_(Access!vars)
  BY DEF Next, vars, accessVars, Access!vars
<1> QED BY <1>1, <1>2, PTL DEF Spec, Access!Spec

\* The other components leave the roster alone.
LEMMA RunsOfPeople == Spec => People!Spec
<1>1. Init => People!Init
  BY DEF Init
<1>2. [Next]_vars => [People!Next]_(People!vars)
  BY DEF Next, vars, rosterVars, People!vars
<1> QED BY <1>1, <1>2, PTL DEF Spec, People!Spec

\* The other components leave the providers alone.
LEMMA RunsOfProviders == Spec => Providers!Spec
<1>1. Init => Providers!Init
  BY DEF Init
<1>2. [Next]_vars => [Providers!Next]_(Providers!vars)
  BY DEF Next, vars, providerVars, Providers!vars
<1> QED BY <1>1, <1>2, PTL DEF Spec, Providers!Spec

\* The other components leave the accounts alone.
LEMMA RunsOfAccounts == Spec => Accounts!Spec
<1>1. Init => Accounts!Init
  BY DEF Init
<1>2. [Next]_vars => [Accounts!Next]_(Accounts!vars)
  BY DEF Next, vars, accountVars, Accounts!vars
<1> QED BY <1>1, <1>2, PTL DEF Spec, Accounts!Spec

\* The other components leave the identities alone.
LEMMA RunsOfIdentities == Spec => Identities!Spec
<1>1. Init => Identities!Init
  BY DEF Init
<1>2. [Next]_vars => [Identities!Next]_(Identities!vars)
  BY DEF Next, vars, identityVars, Identities!vars
<1> QED BY <1>1, <1>2, PTL DEF Spec, Identities!Spec

\* The other components leave the summaries alone.
LEMMA RunsOfSummaries == Spec => Summaries!Spec
<1>1. Init => Summaries!Init
  BY DEF Init
<1>2. [Next]_vars => [Summaries!Next]_(Summaries!vars)
  BY DEF Next, vars, summaryVars, Summaries!vars
<1> QED BY <1>1, <1>2, PTL DEF Spec, Summaries!Spec

------------------------------------------------------------------------------
(* Permission records. *)

\* The component counts its refusals as everybody does.
LEMMA AccessCounts == \A S : Access!Cardinality(S) = Cardinality(S)
BY Zenon DEF Access!Cardinality, Cardinality

Reading ==
    [at : {"idle", "grants", "records", "answer"}, user : NonAdmins \cup {"none"},
     query : Instances \cup {"any"}, allowed : SUBSET Instances,
     kept : SUBSET Instances, granted : SUBSET Instances, before : Nat,
     result : SUBSET Nat]

AccessTypes ==
    /\ grants \subseteq NonAdmins \X Instances
    /\ records \in Seq(Instances)
    /\ emitted \subseteq Instances /\ IsFiniteSet(emitted)
    /\ Len(records) + Cardinality(emitted) <= MaxRecords
    /\ reader \in [Readers -> Reading]

\* What a reader r knows of the grants it is about to read or has read, and of
\* the records of its answer.
Knows(r, rows) ==
    /\ r.at \in {"grants", "records"} =>
          /\ r.kept \subseteq Access!GrantedTo(rows, r.user)
          /\ Access!GrantedTo(rows, r.user) \subseteq r.granted
    /\ r.at = "records" =>
          /\ r.allowed \subseteq r.granted
          /\ \A i \in r.kept : r.query \in {"any", i} => i \in r.allowed

Answered(r, list) ==
    /\ r.at # "idle" => r.before <= Len(list)
    /\ r.at = "answer" =>
          /\ r.result \subseteq 1..Len(list)
          /\ \A k \in r.result : list[k] \in r.granted
          /\ \A k \in 1..r.before :
                list[k] \in r.kept \ Spelled /\ r.query \in {"any", list[k]}
                    => k \in r.result

AccessInv ==
    /\ AccessTypes
    /\ \A c \in Readers : Knows(reader[c], grants) /\ Answered(reader[c], records)

\* A request that has not begun knows nothing.
LEMMA IdleReader ==
    /\ Access!Idle \in Reading
    /\ \A rows, list : Knows(Access!Idle, rows) /\ Answered(Access!Idle, list)
BY DEF Access!Idle, Reading, Knows, Answered

\* Whoever is granted what, it is an instance.
LEMMA GrantedAreInstances ==
    ASSUME NEW rows, NEW u
    PROVE  Access!GrantedTo(rows, u) \subseteq Instances
BY DEF Access!GrantedTo

\* Readers that watch the grants change know what was kept and what was seen.
LEMMA WatchingReaders ==
    ASSUME AccessInv, NEW rows
    PROVE  /\ Access!Watched(rows) \in [Readers -> Reading]
           /\ \A c \in Readers : /\ Knows(Access!Watched(rows)[c], rows)
                                 /\ Answered(Access!Watched(rows)[c], records)
<1> DEFINE there(c) == Access!GrantedTo(rows, reader[c].user)
           r(c) == [reader[c] EXCEPT !.kept = reader[c].kept \cap there(c),
                                     !.granted = reader[c].granted \cup there(c)]
<1>1. ASSUME NEW c \in Readers
      PROVE  /\ reader[c] \in Reading
             /\ r(c) \in Reading
             /\ reader[c].at \in {"grants", "records"} =>
                   Knows(r(c), rows) /\ Answered(r(c), records)
             /\ reader[c].at \notin {"grants", "records"} =>
                   Knows(reader[c], rows) /\ Answered(reader[c], records)
  <2>1. /\ reader[c] \in Reading
        /\ Knows(reader[c], grants) /\ Answered(reader[c], records)
    BY DEF AccessInv, AccessTypes
  <2>2. there(c) \subseteq Instances
    BY GrantedAreInstances
  <2> DEFINE q == r(c)
  <2>3. /\ q \in Reading
        /\ q.at = reader[c].at /\ q.user = reader[c].user
        /\ q.query = reader[c].query /\ q.allowed = reader[c].allowed
        /\ q.kept = reader[c].kept \cap there(c)
        /\ q.granted = reader[c].granted \cup there(c)
        /\ q.before = reader[c].before /\ q.result = reader[c].result
    BY <2>1, <2>2 DEF Reading
  <2> HIDE DEF q
  <2>4. reader[c].at \in {"grants", "records"} =>
            Knows(q, rows) /\ Answered(q, records)
    BY <2>1, <2>3 DEF Knows, Answered
  <2> QED BY <2>1, <2>3, <2>4 DEF q, Knows
<1>2. Access!Watched(rows) =
          [c \in Readers |-> IF reader[c].at \in {"grants", "records"}
                             THEN r(c) ELSE reader[c]]
  BY DEF Access!Watched
<1> HIDE DEF r
<1> QED BY <1>1, <1>2

\* What is known of a reader's answer stays so while records are appended.
LEMMA RecordsAppended ==
    ASSUME NEW r \in Reading, NEW list \in Seq(Instances), NEW i \in Instances,
           Answered(r, list)
    PROVE  Answered(r, Append(list, i))
<1>1. /\ Len(Append(list, i)) = Len(list) + 1 /\ Len(list) \in Nat
      /\ \A k \in 1..Len(list) : Append(list, i)[k] = list[k]
  BY AppendProperties
<1>2. r.before \in Nat
  BY DEF Reading
<1> QED BY <1>1, <1>2 DEF Answered

\* A step of one reader alone needs to keep what is known of that reader.
LEMMA AccessAfterCall ==
    ASSUME AccessInv, NEW c \in Readers, NEW r \in Reading,
           reader' = [reader EXCEPT ![c] = r], Knows(r, grants), Answered(r, records),
           UNCHANGED <<grants, records, emitted>>
    PROVE  AccessInv'
BY DEF AccessInv, AccessTypes

\* Initially nobody reads, and there is nothing to read.
LEMMA AccessInit == Access!Init => AccessInv
<1> SUFFICES ASSUME Access!Init PROVE AccessInv
  OBVIOUS
<1>1. /\ IsFiniteSet(emitted) /\ Cardinality(emitted) = 0
      /\ records \in Seq(Instances) /\ Len(records) = 0
  BY FS_EmptySet DEF Access!Init
<1>2. MaxRecords \in Nat
  BY BoundsAssumption
<1> QED BY <1>1, <1>2, IdleReader DEF Access!Init, AccessInv, AccessTypes

\* Every step of the component keeps its invariant.
LEMMA AccessStep == AccessInv /\ [Access!Next]_(Access!vars) => AccessInv'
<1> SUFFICES ASSUME AccessInv, [Access!Next]_(Access!vars) PROVE AccessInv'
  OBVIOUS
<1>0. AccessTypes /\ reader \in [Readers -> Reading] /\ Len(records) \in Nat
      /\ Cardinality(emitted) \in Nat /\ MaxRecords \in Nat
  BY FS_CardinalityType, BoundsAssumption DEF AccessInv, AccessTypes
<1>1. ASSUME NEW i \in Instances, Access!Emit(i)
      PROVE  AccessInv'
  <2>1. /\ IsFiniteSet(emitted \cup {i})
        /\ Cardinality(emitted \cup {i}) = Cardinality(emitted) + 1
    BY <1>0, <1>1, FS_AddElement DEF AccessTypes, Access!Emit
  <2>2. Len(records) + Cardinality(emitted) < MaxRecords
    BY <1>1, AccessCounts DEF Access!Emit
  <2>3. AccessTypes'
    BY <1>0, <1>1, <2>1, <2>2 DEF AccessTypes, Access!Emit
  <2> QED BY <1>1, <2>3 DEF AccessInv, Access!Emit
<1>2. ASSUME NEW i \in Instances, Access!Persist(i)
      PROVE  AccessInv'
  <2>1. /\ IsFiniteSet(emitted \ {i})
        /\ Cardinality(emitted \ {i}) = Cardinality(emitted) - 1
    BY <1>0, <1>2, FS_RemoveElement DEF AccessTypes, Access!Persist
  <2>2. /\ Append(records, i) \in Seq(Instances)
        /\ Len(Append(records, i)) = Len(records) + 1
    BY <1>0, AppendProperties DEF AccessTypes
  <2>3. \A c \in Readers : Answered(reader[c], records')
    BY <1>0, <1>2, RecordsAppended DEF AccessInv, AccessTypes, Access!Persist
  <2>4. AccessTypes'
    <3>1. /\ records' \in Seq(Instances)
          /\ Len(records') \in Nat /\ Len(records') <= Len(records) + 1
      <4>1. records' = Append(records, i) \/ records' = records
        BY <1>2 DEF Access!Persist
      <4> QED BY <1>0, <2>2, <4>1 DEF AccessTypes
    <3>2. emitted' = emitted \ {i} /\ UNCHANGED <<grants, reader>>
      BY <1>2 DEF Access!Persist
    <3>3. Len(records) + Cardinality(emitted) <= MaxRecords
      BY <1>0 DEF AccessTypes
    <3>4. Len(records') + Cardinality(emitted') <= MaxRecords
      BY <1>0, <2>1, <3>1, <3>2, <3>3
    <3> QED BY <1>0, <2>1, <3>1, <3>2, <3>4 DEF AccessTypes
  <2> QED BY <1>2, <2>3, <2>4 DEF AccessInv, Access!Persist
<1>3. ASSUME NEW u \in NonAdmins, NEW i \in Instances, Access!Grant(u, i)
      PROVE  AccessInv'
  BY <1>0, <1>3, WatchingReaders DEF AccessInv, AccessTypes, Access!Grant
<1>4. ASSUME NEW u \in NonAdmins, NEW i \in Instances, Access!Revoke(u, i)
      PROVE  AccessInv'
  BY <1>0, <1>4, WatchingReaders DEF AccessInv, AccessTypes, Access!Revoke
<1>5. ASSUME NEW c \in Readers, NEW u \in NonAdmins, NEW query \in Instances \cup {"any"},
             Access!List(c, u, query)
      PROVE  AccessInv'
  <2> DEFINE r == [Access!Idle EXCEPT !.at = "grants", !.user = u, !.query = query,
                       !.kept = Access!GrantedTo(grants, u),
                       !.granted = Access!GrantedTo(grants, u), !.before = Len(records)]
  <2>1. Access!GrantedTo(grants, u) \subseteq Instances
    BY GrantedAreInstances
  <2>2. /\ r \in Reading /\ r.at = "grants" /\ r.user = u
        /\ r.kept = Access!GrantedTo(grants, u)
        /\ r.granted = Access!GrantedTo(grants, u)
        /\ r.before = Len(records)
    BY <1>0, <2>1, IdleReader DEF Reading, Access!Idle
  <2>3. reader' = [reader EXCEPT ![c] = r] /\ UNCHANGED <<grants, records, emitted>>
    BY <1>5 DEF Access!List
  <2> HIDE DEF r
  <2>4. Knows(r, grants) /\ Answered(r, records)
    BY <1>0, <2>2 DEF Knows, Answered
  <2> QED BY <2>2, <2>3, <2>4, AccessAfterCall
<1>6. ASSUME NEW c \in Readers, Access!FindGrants(c)
      PROVE  AccessInv'
  <2> DEFINE old == reader[c]
             seen == Access!Visible(old.user, old.query)
             r == [old EXCEPT !.at = "records", !.allowed = seen]
  <2>1. /\ seen = {i \in Access!GrantedTo(grants, old.user) : old.query \in {"any", i}}
        /\ seen \subseteq Instances
    BY GrantedAreInstances DEF Access!Visible
  <2>2. old \in Reading /\ old.at = "grants" /\ Knows(old, grants) /\ Answered(old, records)
    BY <1>0, <1>6 DEF AccessInv, Access!FindGrants, Access!At
  <2> HIDE DEF seen
  <2>3. /\ r \in Reading /\ r.at = "records" /\ r.user = old.user
        /\ r.query = old.query /\ r.allowed = seen
        /\ r.kept = old.kept /\ r.granted = old.granted /\ r.before = old.before
    BY <2>1, <2>2 DEF Reading
  <2>4. reader' = [reader EXCEPT ![c] = r] /\ UNCHANGED <<grants, records, emitted>>
    BY <1>6 DEF Access!FindGrants, seen
  <2> HIDE DEF r, old
  <2>5. Knows(r, grants) /\ Answered(r, records)
    BY <2>1, <2>2, <2>3 DEF Knows, Answered
  <2> QED BY <2>3, <2>4, <2>5, AccessAfterCall
<1>7. ASSUME NEW c \in Readers, Access!FindRecords(c)
      PROVE  AccessInv'
  <2> DEFINE old == reader[c]
             found == {k \in 1..Len(records) : records[k] \in old.allowed \ Spelled}
             r == [old EXCEPT !.at = "answer", !.result = found]
  <2>1. old \in Reading /\ old.at = "records" /\ Knows(old, grants) /\ Answered(old, records)
    BY <1>0, <1>7 DEF AccessInv, Access!FindRecords, Access!At
  <2>2. /\ r \in Reading /\ r.at = "answer" /\ r.result = found
        /\ r.query = old.query /\ r.kept = old.kept
        /\ r.granted = old.granted /\ r.before = old.before
    <3>1. found \in SUBSET Nat
      BY <1>0
    <3> HIDE DEF found
    <3> QED BY <2>1, <3>1 DEF Reading
  <2>3. reader' = [reader EXCEPT ![c] = r] /\ UNCHANGED <<grants, records, emitted>>
    BY <1>7 DEF Access!FindRecords, Access!Matches
  <2> HIDE DEF r
  <2>4. old.before \in Nat
    BY <2>1 DEF Reading
  <2> HIDE DEF old
  <2>5. Knows(r, grants) /\ Answered(r, records)
    BY <1>0, <2>1, <2>2, <2>4 DEF Knows, Answered
  <2> QED BY <2>2, <2>3, <2>5, AccessAfterCall
<1>8. ASSUME NEW c \in Readers, Access!CallEnds(c)
      PROVE  AccessInv'
  BY <1>8, IdleReader, AccessAfterCall DEF Access!CallEnds, Access!Answers
<1>9. CASE UNCHANGED Access!vars
  BY <1>9 DEF Access!vars, AccessInv, AccessTypes
<1> QED
  BY <1>1, <1>2, <1>3, <1>4, <1>5, <1>6, <1>7, <1>8, <1>9 DEF Access!Next

\* Every run of the component keeps its invariant.
LEMMA AccessAlways == Spec => []AccessInv
<1>1. Access!Spec => []AccessInv
  BY AccessInit, AccessStep, PTL DEF Access!Spec
<1> QED BY <1>1, RunsOfAccess

\* The invariant has the types, and a list is of what was granted.
LEMMA AccessFacts == AccessInv => Access!TypeOK /\ Access!ListsWhatWasGranted
<1> SUFFICES ASSUME AccessInv PROVE Access!TypeOK /\ Access!ListsWhatWasGranted
  OBVIOUS
<1>1. AccessTypes /\ \A c \in Readers : reader[c] \in Reading
  BY DEF AccessInv, AccessTypes
<1>2. Access!TypeOK
  BY <1>1, AccessCounts DEF AccessTypes, Reading, Access!TypeOK
<1>3. Access!ListsWhatWasGranted
  BY DEF AccessInv, Answered, Access!ListsWhatWasGranted, Access!At
<1> QED BY <1>2, <1>3

------------------------------------------------------------------------------
(* Persons, groups and their members. *)

Visit ==
    [at : {"idle", "person", "join", "rows", "persons"},
     person : Users \cup {"none"}, group : Teams \cup {"none"},
     todo : SUBSET Users, found : SUBSET Users,
     stayed : SUBSET Users, seen : SUBSET Users]

PeopleTypes ==
    /\ person \in [Users -> {"unborn", "active", "inactive", "gone"}]
    /\ group \in [Teams -> {"unborn", "there", "gone"}]
    /\ member \subseteq [person : Users, group : Teams]
    /\ added \in 0..MaxAdded
    /\ visitor \in [Callers -> Visit]

\* What a listing v has of the members: those who stayed are members still,
\* and are found already or to be looked up.
Saw(v, rows) ==
    /\ v.at \in {"rows", "persons"} => v.stayed \subseteq People!MembersOf(rows, v.group)
    /\ v.at = "rows" =>
          /\ People!MembersOf(rows, v.group) \subseteq v.seen
          /\ v.found = {}
    /\ v.at = "persons" =>
          /\ v.todo \cup v.found \subseteq v.seen
          /\ v.stayed \subseteq v.todo \cup v.found

PeopleInv ==
    /\ PeopleTypes
    /\ People!MembersExist
    /\ \A c \in Callers : Saw(visitor[c], member)

\* A request that has not begun has seen nobody.
LEMMA IdleVisit == People!Idle \in Visit /\ \A rows : Saw(People!Idle, rows)
BY DEF People!Idle, Visit, Saw

\* Members are persons.
LEMMA MembersArePersons ==
    ASSUME NEW rows \in SUBSET [person : Users, group : Teams], NEW g
    PROVE  People!MembersOf(rows, g) \subseteq Users
BY DEF People!MembersOf

\* Listings that watch the memberships change see all of it.
LEMMA WatchingListings ==
    ASSUME PeopleInv, NEW rows \in SUBSET [person : Users, group : Teams]
    PROVE  /\ People!Watched(rows) \in [Callers -> Visit]
           /\ \A c \in Callers : Saw(People!Watched(rows)[c], rows)
<1> DEFINE there(c) == People!MembersOf(rows, visitor[c].group)
           v(c) == [visitor[c] EXCEPT !.stayed = visitor[c].stayed \cap there(c),
                                      !.seen = visitor[c].seen \cup there(c)]
<1>1. ASSUME NEW c \in Callers
      PROVE  /\ visitor[c] \in Visit
             /\ v(c) \in Visit
             /\ visitor[c].at \in {"rows", "persons"} => Saw(v(c), rows)
             /\ visitor[c].at \notin {"rows", "persons"} => Saw(visitor[c], rows)
  <2>1. visitor[c] \in Visit /\ Saw(visitor[c], member)
    BY DEF PeopleInv, PeopleTypes
  <2>2. there(c) \subseteq Users
    BY MembersArePersons
  <2> DEFINE w == v(c)
  <2>3. /\ w \in Visit
        /\ w.at = visitor[c].at /\ w.group = visitor[c].group
        /\ w.todo = visitor[c].todo /\ w.found = visitor[c].found
        /\ w.stayed = visitor[c].stayed \cap there(c)
        /\ w.seen = visitor[c].seen \cup there(c)
    BY <2>1, <2>2 DEF Visit
  <2> HIDE DEF w
  <2>4. visitor[c].at \in {"rows", "persons"} => Saw(w, rows)
    BY <2>1, <2>3 DEF Saw
  <2> QED BY <2>1, <2>3, <2>4 DEF w, Saw
<1>2. People!Watched(rows) =
          [c \in Callers |-> IF visitor[c].at \in {"rows", "persons"}
                             THEN v(c) ELSE visitor[c]]
  BY DEF People!Watched
<1> HIDE DEF v
<1> QED BY <1>1, <1>2

\* A step of one request alone needs to keep what that request has seen.
LEMMA PeopleAfterCall ==
    ASSUME PeopleInv, NEW c \in Callers, NEW v \in Visit,
           visitor' = [visitor EXCEPT ![c] = v], Saw(v, member),
           UNCHANGED <<person, group, member, added>>
    PROVE  PeopleInv'
<1>1. PeopleTypes'
  BY DEF PeopleInv, PeopleTypes
<1>2. People!MembersExist'
  BY DEF PeopleInv, People!MembersExist, People!Present, People!There
<1>3. \A d \in Callers : Saw(visitor'[d], member')
  BY DEF PeopleInv, PeopleTypes
<1> QED BY <1>1, <1>2, <1>3 DEF PeopleInv

\* Initially nobody is there.
LEMMA PeopleInit == People!Init => PeopleInv
<1> SUFFICES ASSUME People!Init PROVE PeopleInv
  OBVIOUS
<1>1. 0 \in 0..MaxAdded
  BY BoundsAssumption
<1> QED
  BY <1>1, IdleVisit DEF People!Init, PeopleInv, PeopleTypes, People!MembersExist

\* Every step of the component keeps its invariant.
LEMMA PeopleStep == PeopleInv /\ [People!Next]_(People!vars) => PeopleInv'
<1> SUFFICES ASSUME PeopleInv, [People!Next]_(People!vars) PROVE PeopleInv'
  OBVIOUS
<1>0. /\ PeopleTypes /\ People!MembersExist /\ visitor \in [Callers -> Visit]
      /\ member \subseteq [person : Users, group : Teams]
      /\ \A c \in Callers : Saw(visitor[c], member)
  BY DEF PeopleInv, PeopleTypes
<1>1. ASSUME NEW p \in Users, NEW state \in {"active", "inactive"}, People!Put(p, state)
      PROVE  PeopleInv'
  <2>1. PeopleTypes'
    BY <1>0, <1>1 DEF PeopleTypes, People!Put
  <2>2. People!Present \subseteq People!Present'
    BY <1>0, <1>1 DEF PeopleTypes, People!Put, People!Present
  <2>3. People!There' = People!There /\ UNCHANGED <<member, visitor>>
    BY <1>1 DEF People!Put, People!There
  <2> QED BY <1>0, <2>1, <2>2, <2>3 DEF PeopleInv, People!MembersExist
<1>2. ASSUME NEW p \in Users, People!RemovePerson(p)
      PROVE  PeopleInv'
  <2>1. /\ member' \in SUBSET [person : Users, group : Teams]
        /\ visitor' = People!Watched(member') /\ UNCHANGED <<group, added>>
    BY <1>0, <1>2 DEF People!RemovePerson
  <2>2. PeopleTypes' /\ \A c \in Callers : Saw(visitor'[c], member')
    <3>1. person' \in [Users -> {"unborn", "active", "inactive", "gone"}]
      BY <1>0, <1>2 DEF PeopleTypes, People!RemovePerson
    <3>2. /\ visitor' \in [Callers -> Visit]
          /\ \A c \in Callers : Saw(visitor'[c], member')
      BY <2>1, WatchingListings
    <3> QED BY <1>0, <2>1, <3>1, <3>2 DEF PeopleTypes
  <2>3. People!MembersExist'
    BY <1>0, <1>2 DEF PeopleTypes, People!RemovePerson, People!MembersExist,
                      People!Present, People!There
  <2> QED BY <2>2, <2>3 DEF PeopleInv
<1>3. ASSUME NEW g \in Teams, People!CreateGroup(g)
      PROVE  PeopleInv'
  <2>1. PeopleTypes'
    BY <1>0, <1>3 DEF PeopleTypes, People!CreateGroup
  <2>2. People!There \subseteq People!There'
    BY <1>0, <1>3 DEF PeopleTypes, People!CreateGroup, People!There
  <2>3. People!Present' = People!Present /\ UNCHANGED <<member, visitor>>
    BY <1>3 DEF People!CreateGroup, People!Present
  <2> QED BY <1>0, <2>1, <2>2, <2>3 DEF PeopleInv, People!MembersExist
<1>4. ASSUME NEW g \in Teams, People!DeleteGroup(g)
      PROVE  PeopleInv'
  <2>1. /\ member' \in SUBSET [person : Users, group : Teams]
        /\ visitor' = People!Watched(member') /\ UNCHANGED <<person, added>>
    BY <1>0, <1>4 DEF People!DeleteGroup
  <2>2. PeopleTypes' /\ \A c \in Callers : Saw(visitor'[c], member')
    <3>1. group' \in [Teams -> {"unborn", "there", "gone"}]
      BY <1>0, <1>4 DEF PeopleTypes, People!DeleteGroup
    <3>2. /\ visitor' \in [Callers -> Visit]
          /\ \A c \in Callers : Saw(visitor'[c], member')
      BY <2>1, WatchingListings
    <3> QED BY <1>0, <2>1, <3>1, <3>2 DEF PeopleTypes
  <2>3. People!MembersExist'
    BY <1>0, <1>4 DEF PeopleTypes, People!DeleteGroup, People!MembersExist,
                      People!Present, People!There
  <2> QED BY <2>2, <2>3 DEF PeopleInv
<1>5. ASSUME NEW m \in member, People!RemoveMember(m)
      PROVE  PeopleInv'
  <2>1. /\ member' \in SUBSET [person : Users, group : Teams]
        /\ visitor' = People!Watched(member') /\ UNCHANGED <<person, group, added>>
    BY <1>0, <1>5 DEF People!RemoveMember
  <2>2. PeopleTypes' /\ \A c \in Callers : Saw(visitor'[c], member')
    BY <1>0, <2>1, WatchingListings DEF PeopleTypes
  <2>3. People!MembersExist'
    BY <1>0, <1>5 DEF People!RemoveMember, People!MembersExist, People!Present, People!There
  <2> QED BY <2>2, <2>3 DEF PeopleInv
<1>6. ASSUME NEW c \in Callers, NEW p \in Users, NEW g \in Teams,
             People!AddMember(c, p, g)
      PROVE  PeopleInv'
  <2> DEFINE v == [People!Idle EXCEPT !.at = "person", !.person = p, !.group = g]
  <2>1. v \in Visit /\ v.at = "person"
    BY IdleVisit DEF Visit, People!Idle
  <2>2. visitor' = [visitor EXCEPT ![c] = v] /\ UNCHANGED <<person, group, member, added>>
    BY <1>6 DEF People!AddMember
  <2> HIDE DEF v
  <2>3. Saw(v, member)
    BY <2>1 DEF Saw
  <2> QED BY <2>1, <2>2, <2>3, PeopleAfterCall
<1>7. ASSUME NEW c \in Callers, People!FindPerson(c)
      PROVE  PeopleInv'
  <2> DEFINE v == [visitor[c] EXCEPT !.at = "join"]
  <2>1. v \in Visit /\ v.at = "join"
    BY <1>0 DEF Visit
  <2>2. /\ \/ visitor' = [visitor EXCEPT ![c] = v]
           \/ visitor' = [visitor EXCEPT ![c] = People!Idle]
        /\ UNCHANGED <<person, group, member, added>>
    BY <1>7 DEF People!FindPerson, People!Goes, People!Answers
  <2> HIDE DEF v
  <2>3. Saw(v, member)
    BY <2>1 DEF Saw
  <2> QED BY <2>1, <2>2, <2>3, IdleVisit, PeopleAfterCall
<1>8. ASSUME NEW c \in Callers, People!Join(c)
      PROVE  PeopleInv'
  <2> DEFINE row == [person |-> visitor[c].person, group |-> visitor[c].group]
  <2>1. /\ visitor[c].person \in People!Present /\ visitor[c].group \in People!There
        /\ member' = member \cup {row}
        /\ visitor' = [People!Watched(member') EXCEPT ![c] = People!Idle]
        /\ added < MaxAdded /\ added' = added + 1 /\ UNCHANGED <<person, group>>
    BY <1>8 DEF People!Join
  <2>2. row \in [person : Users, group : Teams]
    BY <2>1 DEF People!Present, People!There
  <2>3. member' \in SUBSET [person : Users, group : Teams]
    BY <1>0, <2>1, <2>2
  <2>4. added' \in 0..MaxAdded
    BY <1>0, <2>1, BoundsAssumption DEF PeopleTypes
  <2>5. PeopleTypes' /\ \A d \in Callers : Saw(visitor'[d], member')
    <3>1. /\ People!Watched(member') \in [Callers -> Visit]
          /\ \A d \in Callers : Saw(People!Watched(member')[d], member')
      BY <2>3, WatchingListings
    <3> QED BY <1>0, <2>1, <2>3, <2>4, <3>1, IdleVisit DEF PeopleTypes
  <2>6. People!MembersExist'
    <3>1. row.person \in People!Present /\ row.group \in People!There
      BY <2>1
    <3>2. \A m \in member' : m.person \in People!Present /\ m.group \in People!There
      BY <1>0, <2>1, <3>1 DEF People!MembersExist
    <3> QED BY <2>1, <3>2 DEF People!MembersExist, People!Present, People!There
  <2> QED BY <2>5, <2>6 DEF PeopleInv
<1>9. ASSUME NEW c \in Callers, NEW g \in Teams, People!List(c, g)
      PROVE  PeopleInv'
  <2> DEFINE members == People!MembersOf(member, g)
             v == [People!Idle EXCEPT !.at = "rows", !.group = g,
                                      !.stayed = members, !.seen = members]
  <2>1. members \subseteq Users
    BY <1>0, MembersArePersons
  <2> HIDE DEF members
  <2>2. /\ v \in Visit /\ v.at = "rows" /\ v.group = g
        /\ v.stayed = members /\ v.seen = members /\ v.found = {}
    BY <2>1, IdleVisit DEF Visit, People!Idle
  <2>3. visitor' = [visitor EXCEPT ![c] = v] /\ UNCHANGED <<person, group, member, added>>
    BY <1>9 DEF People!List, members
  <2> HIDE DEF v
  <2>4. Saw(v, member)
    BY <2>2 DEF Saw, members
  <2> QED BY <2>2, <2>3, <2>4, PeopleAfterCall
<1>10. ASSUME NEW c \in Callers, People!FindRows(c)
       PROVE  PeopleInv'
  <2> DEFINE old == visitor[c]
             members == People!MembersOf(member, old.group)
             v == [old EXCEPT !.at = "persons", !.todo = members]
  <2>1. old \in Visit /\ old.at = "rows" /\ Saw(old, member)
    BY <1>0, <1>10 DEF People!FindRows, People!At
  <2>2. members \subseteq Users
    BY <1>0, MembersArePersons
  <2> HIDE DEF members
  <2>3. /\ v \in Visit /\ v.at = "persons" /\ v.group = old.group
        /\ v.todo = members /\ v.found = old.found
        /\ v.stayed = old.stayed /\ v.seen = old.seen
    BY <2>1, <2>2 DEF Visit
  <2>4. visitor' = [visitor EXCEPT ![c] = v] /\ UNCHANGED <<person, group, member, added>>
    BY <1>10 DEF People!FindRows, members
  <2>5. /\ old.stayed \subseteq members /\ members \subseteq old.seen
        /\ old.found = {}
    BY <2>1 DEF Saw, members
  <2> HIDE DEF v
  <2>6. Saw(v, member)
    BY <2>3, <2>5 DEF Saw, members
  <2> QED BY <2>3, <2>4, <2>6, PeopleAfterCall
<1>11. ASSUME NEW c \in Callers, NEW p \in Users, People!FindMember(c, p)
       PROVE  PeopleInv'
  <2> DEFINE old == visitor[c]
             v == [old EXCEPT !.todo = old.todo \ {p},
                              !.found = old.found \cup ({p} \cap People!Present)]
  <2>1. old \in Visit /\ old.at = "persons" /\ p \in old.todo /\ Saw(old, member)
    BY <1>0, <1>11 DEF People!FindMember, People!At
  <2>2. /\ v \in Visit /\ v.at = "persons" /\ v.group = old.group
        /\ v.todo = old.todo \ {p}
        /\ v.found = old.found \cup ({p} \cap People!Present)
        /\ v.stayed = old.stayed /\ v.seen = old.seen
    BY <2>1 DEF Visit
  <2>3. visitor' = [visitor EXCEPT ![c] = v] /\ UNCHANGED <<person, group, member, added>>
    BY <1>11 DEF People!FindMember
  <2>4. p \in old.stayed => p \in People!Present
    BY <1>0, <2>1 DEF Saw, People!MembersOf, People!MembersExist
  <2> HIDE DEF v, old
  <2>5. Saw(v, member)
    BY <2>1, <2>2, <2>4 DEF Saw
  <2> QED BY <2>2, <2>3, <2>5, PeopleAfterCall
<1>12. ASSUME NEW c \in Callers, People!CallEnds(c)
       PROVE  PeopleInv'
  BY <1>12, IdleVisit, PeopleAfterCall DEF People!CallEnds, People!Answers
<1>13. CASE UNCHANGED People!vars
  BY <1>0, <1>13 DEF People!vars, PeopleInv, PeopleTypes, People!MembersExist,
                     People!Present, People!There
<1> QED
  BY <1>1, <1>2, <1>3, <1>4, <1>5, <1>6, <1>7, <1>8, <1>9, <1>10, <1>11, <1>12, <1>13
  DEF People!Next, People!Present

\* Every run of the component keeps its invariant.
LEMMA PeopleAlways == Spec => []PeopleInv
<1>1. People!Spec => []PeopleInv
  BY PeopleInit, PeopleStep, PTL DEF People!Spec
<1> QED BY <1>1, RunsOfPeople

\* The invariant has the types, and a list holds those who stayed.
LEMMA PeopleFacts ==
    PeopleInv => People!TypeOK /\ People!MembersExist /\ People!ListingHoldsMembers
<1> SUFFICES ASSUME PeopleInv
             PROVE  People!TypeOK /\ People!MembersExist /\ People!ListingHoldsMembers
  OBVIOUS
<1>1. PeopleTypes /\ \A c \in Callers : visitor[c] \in Visit
  BY DEF PeopleInv, PeopleTypes
<1>2. People!TypeOK
  BY <1>1 DEF PeopleTypes, Visit, People!TypeOK
<1>3. People!ListingHoldsMembers
  BY DEF PeopleInv, Saw, People!ListingHoldsMembers, People!Listed, People!At
<1> QED BY <1>2, <1>3 DEF PeopleInv

------------------------------------------------------------------------------
(* LLM providers. *)

Routing ==
    [at : {"idle", "readback", "assign", "seed", "default", "row", "only", "mapped",
           "config"},
     kind : {"none", "setDefault", "assign", "seed", "tick", "refresh", "routed"},
     id : Ids \cup ModelIds \cup {"none"}, slot : Difficulties \cup {"none"},
     todo : SUBSET Difficulties, began : Nat]

ProviderTypes ==
    /\ config \in [Ids -> ModelIds \cup {"unborn", "gone"}]
    /\ slot \in Ids \cup {"none"}
    /\ mapping \in [Difficulties -> Ids \cup {"none", "absent"}]
    /\ moves \in 0..MaxMoves
    /\ router \in [Callers -> Routing]

\* Both slots refer to configurations there are.
References ==
    /\ slot # "none" => slot \in Providers!Stored
    /\ \A d \in Difficulties :
          mapping[d] \notin {"none", "absent"} => mapping[d] \in Providers!Stored

\* While no slot has moved since request r began, what it has looked up is
\* what the slots refer to; a seed has every missing row still to do.
Follows(r, default, map, n) ==
    /\ r.began <= n
    /\ r.at = "mapped" => r.kind = "routed"
    /\ r.at \in {"default", "row", "only"} => r.kind \in {"tick", "refresh"}
    /\ r.kind = "routed" /\ r.at \in {"mapped", "config"} =>
          r.began < n \/ \E d \in Difficulties : map[d] = r.id /\ r.id \in Ids
    /\ r.kind = "refresh" /\ r.at \in {"row", "config"} =>
          r.began < n \/ default = "none" \/ r.id = default
    /\ r.kind = "refresh" /\ r.at = "only" => r.began < n \/ default = "none"
    /\ r.at = "readback" =>
          r.began + 1 < n \/ (r.began + 1 = n /\ r.id = default /\ default \in Ids)
    /\ r.at = "seed" => \A d \in Difficulties : map[d] = "absent" => d \in r.todo

ProviderInv ==
    /\ ProviderTypes
    /\ References
    /\ \A c \in Callers : Follows(router[c], slot, mapping, moves)

\* A request that has not begun follows nothing.
LEMMA IdleRouting ==
    /\ Providers!Idle \in Routing
    /\ \A default, map, n : n \in Nat => Follows(Providers!Idle, default, map, n)
BY DEF Providers!Idle, Routing, Follows

\* Once a slot has moved, nothing is asked of the requests that began before.
LEMMA FollowsAfterMove ==
    ASSUME NEW r \in Routing, NEW n \in Nat, NEW default, NEW map,
           NEW default2, NEW map2, Follows(r, default, map, n),
           \A d \in Difficulties : map2[d] = "absent" => map[d] = "absent"
    PROVE  Follows(r, default2, map2, n + 1)
<1>1. r.began \in Nat
  BY DEF Routing
<1> QED BY <1>1 DEF Follows

\* A step of one request alone needs to keep what that request follows.
LEMMA ProvidersAfterCall ==
    ASSUME ProviderInv, NEW c \in Callers, NEW r \in Routing,
           router' = [router EXCEPT ![c] = r], Follows(r, slot, mapping, moves),
           UNCHANGED <<config, slot, mapping, moves>>
    PROVE  ProviderInv'
<1>1. ProviderTypes'
  BY DEF ProviderInv, ProviderTypes
<1>2. References'
  BY DEF ProviderInv, References, Providers!Stored
<1>3. \A d \in Callers : Follows(router'[d], slot', mapping', moves')
  BY DEF ProviderInv, ProviderTypes
<1> QED BY <1>1, <1>2, <1>3 DEF ProviderInv

\* Initially there is no configuration and no slot.
LEMMA ProviderInit == Providers!Init => ProviderInv
<1> SUFFICES ASSUME Providers!Init PROVE ProviderInv
  OBVIOUS
<1>1. 0 \in 0..MaxMoves
  BY BoundsAssumption
<1> QED
  BY <1>1, IdleRouting DEF Providers!Init, ProviderInv, ProviderTypes, References

\* A request that begins has seen the slots as they are.
LEMMA ProviderBegins ==
    ASSUME ProviderInv, NEW c \in Callers, NEW call \in Routing,
           Providers!Begins(c, call),
           Follows([call EXCEPT !.began = moves], slot, mapping, moves),
           UNCHANGED <<config, slot, mapping, moves>>
    PROVE  ProviderInv'
<1> DEFINE r == [call EXCEPT !.began = moves]
<1>1. moves \in Nat
  BY BoundsAssumption DEF ProviderInv, ProviderTypes
<1>2. r \in Routing
  BY <1>1 DEF Routing
<1>3. router' = [router EXCEPT ![c] = r]
  BY DEF Providers!Begins
<1> HIDE DEF r
<1>4. Follows(r, slot, mapping, moves)
  BY DEF r
<1> QED BY <1>2, <1>3, <1>4, ProvidersAfterCall

\* Every step of the component keeps its invariant.
LEMMA ProviderStep == ProviderInv /\ [Providers!Next]_(Providers!vars) => ProviderInv'
<1> SUFFICES ASSUME ProviderInv, [Providers!Next]_(Providers!vars) PROVE ProviderInv'
  OBVIOUS
<1>0. /\ ProviderTypes /\ References /\ router \in [Callers -> Routing]
      /\ moves \in Nat /\ MaxMoves \in Nat
      /\ \A c \in Callers : Follows(router[c], slot, mapping, moves)
  BY BoundsAssumption DEF ProviderInv, ProviderTypes
<1>n. "none" \notin Ids /\ "absent" \notin Ids /\ "gone" \notin ModelIds
  BY NamesAssumption
<1>1. ASSUME NEW i \in Ids, NEW m \in ModelIds,
             Providers!Create(i, m) \/ Providers!Update(i, m)
      PROVE  ProviderInv'
  <2>1. /\ config' = [config EXCEPT ![i] = m]
        /\ UNCHANGED <<slot, mapping, router, moves>>
    BY <1>1 DEF Providers!Create, Providers!Update
  <2>2. ProviderTypes'
    BY <1>0, <2>1 DEF ProviderTypes
  <2>3. Providers!Stored \subseteq Providers!Stored'
    BY <1>0, <2>1 DEF ProviderTypes, Providers!Stored
  <2> QED BY <1>0, <2>1, <2>2, <2>3 DEF ProviderInv, References
<1>2. ASSUME NEW i \in Ids, Providers!Delete(i)
      PROVE  ProviderInv'
  <2>1. /\ i \notin Providers!Referenced
        /\ config' = [config EXCEPT ![i] = "gone"]
        /\ UNCHANGED <<slot, mapping, router, moves>>
    BY <1>2 DEF Providers!Delete
  <2>2. ProviderTypes'
    BY <1>0, <2>1 DEF ProviderTypes
  <2>3. Providers!Stored \ {i} \subseteq Providers!Stored'
    BY <1>0, <2>1 DEF ProviderTypes, Providers!Stored
  <2>4. References'
    BY <1>0, <2>1, <2>3 DEF References, Providers!Referenced
  <2> QED BY <1>0, <2>1, <2>2, <2>4 DEF ProviderInv
<1>3. ASSUME NEW c \in Callers, NEW i \in Ids, Providers!SetDefault(c, i)
      PROVE  ProviderInv'
  <2> DEFINE r == [[Providers!Idle EXCEPT !.at = "readback", !.kind = "setDefault",
                                          !.id = i] EXCEPT !.began = moves]
  <2>1. /\ r \in Routing /\ r.at = "readback" /\ r.kind = "setDefault"
        /\ r.id = i /\ r.began = moves
    BY <1>0, IdleRouting DEF Routing, Providers!Idle
  <2>2. /\ router' = [router EXCEPT ![c] = r]
        /\ i \in Providers!Stored /\ moves < MaxMoves
        /\ slot' = i /\ moves' = moves + 1 /\ UNCHANGED <<config, mapping>>
    BY <1>3 DEF Providers!SetDefault, Providers!Begins
  <2> HIDE DEF r
  <2>3. Follows(r, slot', mapping', moves')
    BY <1>0, <2>1, <2>2 DEF Follows
  <2>4. \A d \in Callers : Follows(router[d], slot', mapping', moves')
    BY <1>0, <2>2, FollowsAfterMove
  <2>5. ProviderTypes'
    BY <1>0, <2>1, <2>2 DEF ProviderTypes
  <2>6. References'
    BY <1>0, <2>2 DEF References, Providers!Stored
  <2> QED BY <1>0, <2>2, <2>3, <2>4, <2>5, <2>6 DEF ProviderInv
<1>4. ASSUME NEW c \in Callers, NEW d \in Difficulties, NEW i \in Ids,
             Providers!Assign(c, d, i)
      PROVE  ProviderInv'
  <2> DEFINE call == [Providers!Idle EXCEPT !.at = "assign", !.kind = "assign",
                                            !.id = i, !.slot = d]
  <2>1. call \in Routing /\ call.at = "assign" /\ call.kind = "assign"
    BY IdleRouting DEF Routing, Providers!Idle
  <2>2. Providers!Begins(c, call) /\ UNCHANGED <<config, slot, mapping, moves>>
    BY <1>4 DEF Providers!Assign
  <2> HIDE DEF call
  <2>3. Follows([call EXCEPT !.began = moves], slot, mapping, moves)
    BY <1>0, <2>1 DEF Follows, Routing
  <2> QED BY <2>1, <2>2, <2>3, ProviderBegins
<1>5. ASSUME NEW c \in Callers, NEW d \in Difficulties, Providers!Route(c, d)
      PROVE  ProviderInv'
  <2> DEFINE call == [Providers!Idle EXCEPT !.at = "mapped", !.kind = "routed",
                                            !.id = mapping[d]]
  <2>1. mapping[d] \in Ids
    BY <1>0, <1>5 DEF Providers!Route, ProviderTypes
  <2>2. /\ call \in Routing /\ call.at = "mapped" /\ call.kind = "routed"
        /\ call.id = mapping[d]
    BY <2>1, IdleRouting DEF Routing, Providers!Idle
  <2>3. Providers!Begins(c, call) /\ UNCHANGED <<config, slot, mapping, moves>>
    BY <1>5 DEF Providers!Route
  <2> HIDE DEF call
  <2>4. Follows([call EXCEPT !.began = moves], slot, mapping, moves)
    BY <1>0, <2>1, <2>2 DEF Follows, Routing
  <2> QED BY <2>2, <2>3, <2>4, ProviderBegins
<1>6. ASSUME NEW c \in Callers, NEW kind \in {"tick", "refresh"},
             Providers!Evaluate(c, kind)
      PROVE  ProviderInv'
  <2> DEFINE call == [Providers!Idle EXCEPT !.at = "default", !.kind = kind]
  <2>1. call \in Routing /\ call.at = "default" /\ call.kind = kind
    BY IdleRouting DEF Routing, Providers!Idle
  <2>2. Providers!Begins(c, call) /\ UNCHANGED <<config, slot, mapping, moves>>
    BY <1>6 DEF Providers!Evaluate
  <2> HIDE DEF call
  <2>3. Follows([call EXCEPT !.began = moves], slot, mapping, moves)
    BY <1>0, <2>1 DEF Follows, Routing
  <2> QED BY <2>1, <2>2, <2>3, ProviderBegins
<1>7. ASSUME NEW c \in Callers, Providers!Seed(c)
      PROVE  ProviderInv'
  <2> DEFINE missing == {d \in Difficulties : mapping[d] = "absent"}
             call == [Providers!Idle EXCEPT !.at = "seed", !.kind = "seed",
                                            !.todo = missing]
  <2>1. /\ call \in Routing /\ call.at = "seed" /\ call.kind = "seed"
        /\ call.todo = missing
    BY IdleRouting DEF Routing, Providers!Idle
  <2>2. Providers!Begins(c, call) /\ UNCHANGED <<config, slot, mapping, moves>>
    BY <1>7 DEF Providers!Seed
  <2> HIDE DEF call
  <2>3. Follows([call EXCEPT !.began = moves], slot, mapping, moves)
    BY <1>0, <2>1 DEF Follows, Routing
  <2> QED BY <2>1, <2>2, <2>3, ProviderBegins
<1>8. ASSUME NEW c \in Callers, Providers!UpdateMapping(c)
      PROVE  ProviderInv'
  <2>1. /\ router[c].id \in Providers!Stored /\ moves < MaxMoves
        /\ mapping' = [mapping EXCEPT ![router[c].slot] = router[c].id]
        /\ moves' = moves + 1
        /\ router' = [router EXCEPT ![c] = Providers!Idle]
        /\ UNCHANGED <<config, slot>>
    BY <1>8 DEF Providers!UpdateMapping, Providers!UpdateMapping_Unchecked,
                Providers!Answers
  <2>2. router[c].id \in Ids
    BY <2>1 DEF Providers!Stored
  <2>3. ProviderTypes'
    <3>1. moves' \in 0..MaxMoves
      BY <1>0, <2>1
    <3>2. mapping' \in [Difficulties -> Ids \cup {"none", "absent"}]
      BY <1>0, <2>1, <2>2 DEF ProviderTypes
    <3>3. router' \in [Callers -> Routing]
      BY <1>0, <2>1, IdleRouting
    <3> QED BY <1>0, <2>1, <3>1, <3>2, <3>3 DEF ProviderTypes
  <2>4. References'
    BY <1>0, <2>1 DEF References, Providers!Stored, ProviderTypes
  <2>5. \A d \in Difficulties : mapping'[d] = "absent" => mapping[d] = "absent"
    BY <1>0, <1>n, <2>1, <2>2 DEF ProviderTypes
  <2>6. \A d \in Callers : Follows(router[d], slot', mapping', moves')
    BY <1>0, <2>1, <2>5, FollowsAfterMove
  <2>7. Follows(Providers!Idle, slot', mapping', moves')
    BY <1>0, <2>1, IdleRouting
  <2> QED BY <1>0, <2>1, <2>3, <2>4, <2>6, <2>7 DEF ProviderInv
<1>9. ASSUME NEW c \in Callers, Providers!SeedSlot(c)
      PROVE  ProviderInv'
  <2>1. PICK d \in router[c].todo :
            /\ mapping' = [mapping EXCEPT ![d] = IF mapping[d] = "absent" THEN "none"
                                                 ELSE mapping[d]]
            /\ router' = [router EXCEPT ![c] = [router[c] EXCEPT
                                                  !.todo = router[c].todo \ {d}]]
            /\ UNCHANGED <<config, slot, moves>>
    <3>1. router[c].todo \subseteq Difficulties
      BY <1>0 DEF Routing
    <3> QED BY <1>0, <1>9, <3>1 DEF Providers!SeedSlot, ProviderTypes, Routing
  <2> DEFINE r == [router[c] EXCEPT !.todo = router[c].todo \ {d}]
  <2>2. /\ router[c] \in Routing /\ router[c].at = "seed" /\ d \in Difficulties
    BY <1>0, <1>9 DEF Providers!SeedSlot, Providers!At, Routing
  <2>3. /\ r \in Routing /\ r.at = "seed" /\ r.todo = router[c].todo \ {d}
        /\ r.kind = router[c].kind /\ r.began = router[c].began
    BY <2>2 DEF Routing
  <2>4. router' = [router EXCEPT ![c] = r]
    BY <2>1
  <2> HIDE DEF r
  <2>5. /\ mapping' \in [Difficulties -> Ids \cup {"none", "absent"}]
        /\ mapping'[d] # "absent"
        /\ \A e \in Difficulties : /\ mapping'[e] = "absent" => mapping[e] = "absent"
                                   /\ mapping[e] \in Ids => mapping'[e] = mapping[e]
                                   /\ mapping'[e] \in Ids => mapping'[e] = mapping[e]
    BY <1>0, <1>n, <2>1, <2>2 DEF ProviderTypes
  <2>6. ProviderTypes'
    BY <1>0, <2>1, <2>3, <2>4, <2>5 DEF ProviderTypes
  <2>7. References'
    BY <1>0, <2>1, <2>5 DEF References, Providers!Stored
  <2>8. ASSUME NEW e \in Callers
        PROVE  Follows(router[e], slot, mapping', moves)
    BY <1>0, <2>5 DEF Follows
  <2>9. Follows(r, slot, mapping', moves)
    <3>1. Follows(router[c], slot, mapping', moves)
      BY <2>8
    <3> QED BY <2>2, <2>3, <2>5, <3>1 DEF Follows
  <2> QED BY <1>0, <2>1, <2>4, <2>6, <2>7, <2>8, <2>9 DEF ProviderInv
<1>10. ASSUME NEW c \in Callers, Providers!FindSlot(c)
       PROVE  ProviderInv'
  <2> DEFINE place == IF slot = "none" THEN "only" ELSE "row"
             r == [router[c] EXCEPT !.at = place, !.id = slot]
  <2>1. /\ router[c] \in Routing /\ router[c].at = "default"
        /\ Follows(router[c], slot, mapping, moves) /\ slot \in Ids \cup {"none"}
    BY <1>0, <1>10 DEF Providers!FindSlot, Providers!At, ProviderTypes
  <2>2. /\ r \in Routing /\ r.at = place /\ r.id = slot
        /\ r.kind = router[c].kind /\ r.began = router[c].began
    BY <2>1 DEF Routing
  <2>3. router' = [router EXCEPT ![c] = r] /\ UNCHANGED <<config, slot, mapping, moves>>
    BY <1>10 DEF Providers!FindSlot
  <2> HIDE DEF r
  <2>4. Follows(r, slot, mapping, moves)
    BY <2>1, <2>2 DEF Follows
  <2> QED BY <2>2, <2>3, <2>4, ProvidersAfterCall
<1>11. ASSUME NEW c \in Callers, Providers!FindRow(c)
       PROVE  ProviderInv'
  <2> DEFINE i == router[c].id
             found == IF router[c].kind = "tick" THEN config[i] ELSE i
             r == [router[c] EXCEPT !.at = "config", !.id = found]
  <2>1. /\ router[c] \in Routing /\ router[c].at = "row" /\ i \in Providers!Stored
        /\ Follows(router[c], slot, mapping, moves)
    BY <1>0, <1>11 DEF Providers!FindRow, Providers!At
  <2>2. found \in Ids \cup ModelIds /\ (router[c].kind # "tick" => found = i)
    BY <2>1 DEF Providers!Stored
  <2>3. router' = [router EXCEPT ![c] = r] /\ UNCHANGED <<config, slot, mapping, moves>>
    BY <1>11 DEF Providers!FindRow, Providers!Resolved, Providers!Finds
  <2> HIDE DEF found
  <2>4. /\ r \in Routing /\ r.at = "config" /\ r.id = found
        /\ r.kind = router[c].kind /\ r.began = router[c].began
    BY <2>1, <2>2 DEF Routing
  <2> HIDE DEF r
  <2>5. Follows(r, slot, mapping, moves)
    BY <2>1, <2>2, <2>4 DEF Follows
  <2> QED BY <2>3, <2>4, <2>5, ProvidersAfterCall
<1>12. ASSUME NEW c \in Callers, Providers!FindOnly(c)
       PROVE  ProviderInv'
  <2>1. PICK i \in Ids : Providers!Stored = {i} /\ Providers!Resolved(c, i)
    BY <1>12 DEF Providers!FindOnly
  <2> DEFINE found == IF router[c].kind = "tick" THEN config[i] ELSE i
             r == [router[c] EXCEPT !.at = "config", !.id = found]
  <2>2. /\ router[c] \in Routing /\ router[c].at = "only"
        /\ Follows(router[c], slot, mapping, moves)
    BY <1>0, <1>12 DEF Providers!FindOnly, Providers!At
  <2>3. found \in Ids \cup ModelIds
    BY <2>1 DEF Providers!Stored
  <2>4. router' = [router EXCEPT ![c] = r] /\ UNCHANGED <<config, slot, mapping, moves>>
    BY <1>12, <2>1 DEF Providers!FindOnly, Providers!Resolved, Providers!Finds
  <2> HIDE DEF found
  <2>5. /\ r \in Routing /\ r.at = "config" /\ r.id = found
        /\ r.kind = router[c].kind /\ r.began = router[c].began
    BY <2>2, <2>3 DEF Routing
  <2> HIDE DEF r
  <2>6. Follows(r, slot, mapping, moves)
    BY <2>2, <2>5 DEF Follows
  <2> QED BY <2>4, <2>5, <2>6, ProvidersAfterCall
<1>13. ASSUME NEW c \in Callers, Providers!FindMapped(c) \/ Providers!Generate(c)
       PROVE  ProviderInv'
  <2> DEFINE r == [router[c] EXCEPT !.at = "config"]
  <2>1. /\ router[c] \in Routing /\ router[c].at \in {"mapped", "config"}
        /\ Follows(router[c], slot, mapping, moves)
    BY <1>0, <1>13 DEF Providers!FindMapped, Providers!Generate, Providers!At
  <2>2. /\ r \in Routing /\ r.at = "config" /\ r.id = router[c].id
        /\ r.kind = router[c].kind /\ r.began = router[c].began
    BY <2>1 DEF Routing
  <2>3. /\ \/ router' = [router EXCEPT ![c] = r]
           \/ router' = [router EXCEPT ![c] = Providers!Idle]
        /\ UNCHANGED <<config, slot, mapping, moves>>
    <3>1. [router[c] EXCEPT !.at = "config", !.id = router[c].id] = r
      BY <2>1 DEF Routing
    <3> QED BY <1>13, <3>1 DEF Providers!FindMapped, Providers!Generate, Providers!Finds,
                               Providers!Goes, Providers!Answers
  <2> HIDE DEF r
  <2>4. Follows(r, slot, mapping, moves)
    BY <2>1, <2>2 DEF Follows
  <2> QED BY <1>0, <2>2, <2>3, <2>4, IdleRouting, ProvidersAfterCall
<1>14. ASSUME NEW c \in Callers,
              \/ Providers!ReadBack(c) \/ Providers!Seeded(c)
              \/ Providers!NotFound(c) \/ Providers!CallFails(c)
       PROVE  ProviderInv'
  <2>1. /\ router' = [router EXCEPT ![c] = Providers!Idle]
        /\ UNCHANGED <<config, slot, mapping, moves>>
    BY <1>14 DEF Providers!ReadBack, Providers!Seeded, Providers!NotFound,
                 Providers!CallFails, Providers!Answers
  <2> QED BY <1>0, <2>1, IdleRouting, ProvidersAfterCall
<1>15. CASE UNCHANGED Providers!vars
  BY <1>0, <1>15 DEF Providers!vars, ProviderInv, ProviderTypes, References,
                     Providers!Stored
<1> QED
  BY <1>1, <1>2, <1>3, <1>4, <1>5, <1>6, <1>7, <1>8, <1>9, <1>10, <1>11, <1>12, <1>13,
     <1>14, <1>15
  DEF Providers!Next

\* Every run of the component keeps its invariant.
LEMMA ProvidersAlways == Spec => []ProviderInv
<1>1. Providers!Spec => []ProviderInv
  BY ProviderInit, ProviderStep, PTL DEF Providers!Spec
<1> QED BY <1>1, RunsOfProviders

\* The invariant has the types, and whoever finds no configuration was
\* overtaken by a move of a slot.
LEMMA ProviderFacts == ProviderInv => Providers!TypeOK /\ Providers!ServedUnlessMoved
<1> SUFFICES ASSUME ProviderInv
             PROVE  Providers!TypeOK /\ Providers!ServedUnlessMoved
  OBVIOUS
<1>1. /\ ProviderTypes /\ References
      /\ \A c \in Callers : /\ router[c] \in Routing
                            /\ Follows(router[c], slot, mapping, moves)
   BY DEF ProviderInv, ProviderTypes
<1>2. Providers!TypeOK
  BY <1>1 DEF ProviderTypes, Routing, Providers!TypeOK
<1>3. Providers!ServedUnlessMoved
  <2> SUFFICES ASSUME NEW c \in Callers
               PROVE  /\ Providers!Misses(c) /\ router[c].kind = "routed" =>
                            moves > router[c].began
                      /\ Providers!Misses(c) /\ router[c].kind = "refresh" =>
                            moves > router[c].began \/ slot = "none"
                      /\ Providers!At(c, "readback") /\ router[c].id \notin Providers!Stored
                            => moves > router[c].began + 1
    BY DEF Providers!ServedUnlessMoved
  <2>1. moves \in Nat /\ router[c].began \in Nat
    BY <1>1, BoundsAssumption DEF ProviderTypes, Routing
  <2>2. "none" \notin Ids /\ "absent" \notin Ids
    BY NamesAssumption
  <2>3. \A d \in Difficulties : mapping[d] \in Ids => mapping[d] \in Providers!Stored
    BY <1>1, <2>2 DEF References
  <2> QED BY <1>1, <2>1, <2>2, <2>3 DEF Follows, References, Providers!Misses, Providers!At
<1> QED BY <1>2, <1>3

\* A step of the providers takes no assigned slot, and a seed ends with a row
\* of every slot.
LEMMA SeedsKeep ==
    ASSUME ProviderInv, [Providers!Next]_(Providers!vars)
    PROVE  Providers!SeedsKeepAssignments
<1>0. /\ ProviderTypes
      /\ \A c \in Callers : /\ router[c] \in Routing
                            /\ Follows(router[c], slot, mapping, moves)
      /\ "absent" \notin Ids
  BY NamesAssumption DEF ProviderInv, ProviderTypes
<1>1. ASSUME NEW d \in Difficulties, mapping[d] \in Ids
      PROVE  mapping'[d] \in Ids
  <2>1. CASE \E c \in Callers : Providers!UpdateMapping(c)
    BY <1>0, <1>1, <2>1 DEF Providers!UpdateMapping, Providers!UpdateMapping_Unchecked,
                            Providers!Stored, ProviderTypes
  <2>2. CASE \E c \in Callers : Providers!SeedSlot(c)
    BY <1>0, <1>1, <2>2 DEF Providers!SeedSlot, ProviderTypes
  <2>3. CASE mapping' = mapping
    BY <1>1, <2>3
  <2> QED
    BY <2>1, <2>2, <2>3 DEF Providers!Next, Providers!vars, Providers!Create,
       Providers!Update, Providers!Delete, Providers!SetDefault, Providers!Assign,
       Providers!Route, Providers!Evaluate, Providers!ReadBack, Providers!Seed,
       Providers!Seeded, Providers!FindSlot, Providers!FindRow, Providers!FindOnly,
       Providers!FindMapped, Providers!Generate, Providers!NotFound, Providers!CallFails
<1>2. ASSUME NEW c \in Callers, Providers!Seeded(c)
      PROVE  \A d \in Difficulties : mapping[d] # "absent"
  BY <1>0, <1>2 DEF Follows, Providers!Seeded, Providers!At
<1> QED BY <1>1, <1>2 DEF Providers!SeedsKeepAssignments

------------------------------------------------------------------------------
(* User accounts. *)

Asking ==
    [at : {"idle", "password", "hash", "actor", "target", "update"},
     kind : {"none", "login", "signup", "role"},
     actor : Users \cup {"none"}, target : Users \cup {"none"},
     role : Accounts!Roles \cup {"none"}, began : Nat]

AccountTypes ==
    /\ role \in [Users -> Accounts!Roles \cup {"none"}]
    /\ access \in [Users -> Accounts!Roles \cup {"none"}]
    /\ refresh \in [Users -> Accounts!Roles \cup {"none"}]
    /\ changes \in 0..MaxChanges
    /\ held \in [Users -> 0..changes]
    /\ session \in [Callers -> Asking]

\* What request s has established of the roles, after n writes: a signup that
\* will make a SuperAdmin began before any write, any other after the first
\* user; the actor of a change of role was SuperAdmin at some time since it
\* began, and is not about to step down.
Established(s, roles, n, since) ==
    /\ s.began <= n
    /\ s.at = "password" => s.kind = "login" /\ s.actor \in Users /\ s.role \in Accounts!Roles
    /\ s.at = "hash" =>
          /\ s.kind = "signup" /\ s.target \in Users /\ s.role \in {"SuperAdmin", "User"}
          /\ s.role = "SuperAdmin" => s.began = 0
          /\ s.role = "User" => \E u \in Users : roles[u] # "none"
    /\ s.at \in {"actor", "target", "update"} =>
          s.kind = "role" /\ s.actor \in Users /\ s.target \in Users
             /\ s.role \in Accounts!Roles
    /\ s.at \in {"target", "update"} =>
          roles[s.actor] = "SuperAdmin" \/ s.began < since[s.actor]
    /\ s.at = "update" =>
          /\ roles[s.target] # "none"
          /\ s.actor = s.target => s.role = "SuperAdmin"

AccountInv ==
    /\ AccountTypes
    /\ changes > 0 => Accounts!Known # {}
    /\ \A c \in Callers : Established(session[c], role, changes, held)

\* A request that has not begun has established nothing.
LEMMA IdleAsking ==
    /\ Accounts!Idle \in Asking
    /\ \A roles, n, since : n \in Nat => Established(Accounts!Idle, roles, n, since)
BY DEF Accounts!Idle, Asking, Established

\* A step of one request that writes no role.
LEMMA AccountsAfterCall ==
    ASSUME AccountInv, NEW c \in Callers, NEW s \in Asking,
           session' = [session EXCEPT ![c] = s], Established(s, role, changes, held),
           access' \in [Users -> Accounts!Roles \cup {"none"}],
           refresh' \in [Users -> Accounts!Roles \cup {"none"}],
           UNCHANGED <<role, changes, held>>
    PROVE  AccountInv'
<1>1. AccountTypes'
  BY DEF AccountInv, AccountTypes
<1>2. changes' > 0 => Accounts!Known' # {}
  BY DEF AccountInv, Accounts!Known
<1>3. \A d \in Callers : Established(session'[d], role', changes', held')
  BY DEF AccountInv, AccountTypes
<1> QED BY <1>1, <1>2, <1>3 DEF AccountInv

\* What a write of the role new of u does: nobody is forgotten, and who was
\* SuperAdmin before it has held the role until now.
Wrote(u, new) ==
    /\ role' \in [Users -> Accounts!Roles \cup {"none"}]
    /\ role'[u] = new /\ new # "none"
    /\ \A v \in Users : /\ v # u => role'[v] = role[v]
                        /\ role[v] # "none" => role'[v] # "none"
    /\ changes' = changes + 1 /\ changes' \in 0..MaxChanges
    /\ held' \in [Users -> 0..changes']
    /\ \A v \in Users : /\ held[v] <= held'[v]
                        /\ role[v] = "SuperAdmin" => held'[v] = changes + 1

\* Every write of a role does that.
LEMMA WriteFacts ==
    ASSUME AccountTypes, NEW u \in Users, NEW new \in Accounts!Roles,
           Accounts!Writes(u, new)
    PROVE  Wrote(u, new)
<1>1. /\ changes \in Nat /\ MaxChanges \in Nat
      /\ role \in [Users -> Accounts!Roles \cup {"none"}]
      /\ held \in [Users -> 0..changes]
  BY BoundsAssumption DEF AccountTypes
<1>2. /\ changes < MaxChanges /\ changes' = changes + 1
      /\ role' = [role EXCEPT ![u] = new]
      /\ held' = [v \in Users |-> IF "SuperAdmin" \in {role[v], role'[v]}
                                  THEN changes' ELSE held[v]]
  BY DEF Accounts!Writes
<1>3. "none" \notin Accounts!Roles
  BY DEF Accounts!Roles
<1>4. role' \in [Users -> Accounts!Roles \cup {"none"}] /\ role'[u] = new
  BY <1>1, <1>2
<1>5. \A v \in Users : held'[v] \in 0..changes' /\ held[v] <= held'[v]
  BY <1>1, <1>2
<1> QED BY <1>1, <1>2, <1>3, <1>4, <1>5 DEF Wrote

\* A write of a role, after which its request is over, keeps what the others
\* have established.
LEMMA AccountsAfterWrite ==
    ASSUME AccountInv, NEW c \in Callers, NEW u \in Users, NEW new \in Accounts!Roles,
           Accounts!Writes(u, new), session' = [session EXCEPT ![c] = Accounts!Idle],
           UNCHANGED <<access, refresh>>
    PROVE  AccountInv'
<1>1. /\ AccountTypes /\ changes \in Nat /\ session \in [Callers -> Asking]
      /\ role \in [Users -> Accounts!Roles \cup {"none"}]
      /\ held \in [Users -> 0..changes]
  BY BoundsAssumption DEF AccountInv, AccountTypes
<1>a. Wrote(u, new)
  BY <1>1, WriteFacts
<1>2. AccountTypes'
  BY <1>1, <1>a, IdleAsking DEF AccountTypes, Wrote
<1>3. Accounts!Known' # {}
  BY <1>1, <1>a DEF Accounts!Known, Wrote
<1>w. \A v \in Users :
         /\ role[v] # "none" => role'[v] # "none"
         /\ held[v] \in Nat /\ held'[v] \in Nat /\ held[v] <= held'[v]
         /\ role[v] = "SuperAdmin" => held'[v] = changes + 1
  BY <1>1, <1>a DEF Wrote
<1>4. ASSUME NEW d \in Callers
      PROVE  Established(session[d], role', changes', held')
  <2> DEFINE s == session[d]
  <2>1. s \in Asking /\ s.began \in Nat /\ Established(s, role, changes, held)
    BY <1>1 DEF AccountInv, Asking
  <2> HIDE DEF s
  <2>2. s.began <= changes'
    BY <1>1, <1>a, <2>1 DEF Established, Wrote
  <2>3. s.at = "hash" /\ s.role = "User" => \E v \in Users : role'[v] # "none"
    BY <1>1, <1>a DEF Wrote
  <2>4. ASSUME s.at \in {"target", "update"}
        PROVE  role'[s.actor] = "SuperAdmin" \/ s.began < held'[s.actor]
    <3>1. s.actor \in Users
      BY <2>1, <2>4 DEF Established
    <3>2. CASE role[s.actor] = "SuperAdmin"
      <4>1. held'[s.actor] = changes + 1
        BY <1>w, <3>1, <3>2
      <4> QED BY <1>1, <2>1, <4>1 DEF Established
    <3>3. CASE s.began < held[s.actor]
      <4>1. /\ held[s.actor] <= held'[s.actor] /\ held[s.actor] \in Nat
            /\ held'[s.actor] \in Nat
        BY <1>w, <3>1
      <4> QED BY <2>1, <3>3, <4>1
    <3> QED BY <2>1, <2>4, <3>2, <3>3 DEF Established
  <2>5. s.at = "update" => role'[s.target] # "none"
    BY <1>w, <2>1 DEF Established
  <2>6. Established(s, role', changes', held')
    BY <2>1, <2>2, <2>3, <2>4, <2>5 DEF Established
  <2> QED BY <2>6 DEF s
<1>5. changes' \in Nat
  BY <1>1, <1>a DEF Wrote
<1>6. \A d \in Callers : Established(session'[d], role', changes', held')
  BY <1>1, <1>4, <1>5, IdleAsking
<1> QED BY <1>2, <1>3, <1>6 DEF AccountInv

\* Initially there is no user.
LEMMA AccountInit == Accounts!Init => AccountInv
<1> SUFFICES ASSUME Accounts!Init PROVE AccountInv
  OBVIOUS
<1>1. 0 \in 0..MaxChanges /\ 0 \in 0..0
  BY BoundsAssumption
<1> QED BY <1>1, IdleAsking DEF Accounts!Init, AccountInv, AccountTypes

\* Every step of the component keeps its invariant.
LEMMA AccountStep == AccountInv /\ [Accounts!Next]_(Accounts!vars) => AccountInv'
<1> SUFFICES ASSUME AccountInv, [Accounts!Next]_(Accounts!vars) PROVE AccountInv'
  OBVIOUS
<1>0. /\ AccountTypes /\ session \in [Callers -> Asking] /\ changes \in Nat
      /\ access \in [Users -> Accounts!Roles \cup {"none"}]
      /\ refresh \in [Users -> Accounts!Roles \cup {"none"}]
      /\ role \in [Users -> Accounts!Roles \cup {"none"}]
      /\ changes > 0 => Accounts!Known # {}
      /\ \A c \in Callers : Established(session[c], role, changes, held)
  BY BoundsAssumption DEF AccountInv, AccountTypes
<1>1. ASSUME NEW c \in Callers, NEW u \in Users, Accounts!Login(c, u)
      PROVE  AccountInv'
  <2> DEFINE s == [Accounts!Idle EXCEPT !.at = "password", !.kind = "login",
                      !.actor = u, !.role = role[u], !.began = changes]
  <2>1. role[u] \in Accounts!Roles
    BY <1>0, <1>1 DEF Accounts!Login, Accounts!Known
  <2>2. /\ s \in Asking /\ s.at = "password" /\ s.kind = "login" /\ s.actor = u
        /\ s.role = role[u] /\ s.began = changes
    BY <1>0, <2>1, IdleAsking DEF Asking, Accounts!Idle
  <2>3. session' = [session EXCEPT ![c] = s]
        /\ UNCHANGED <<role, access, refresh, changes, held>>
    BY <1>1 DEF Accounts!Login
  <2> HIDE DEF s
  <2>4. Established(s, role, changes, held)
    BY <1>0, <2>1, <2>2 DEF Established
  <2> QED BY <1>0, <2>2, <2>3, <2>4, AccountsAfterCall
<1>2. ASSUME NEW c \in Callers, NEW u \in Users, Accounts!Signup(c, u)
      PROVE  AccountInv'
  <2> DEFINE new == IF Accounts!Known = {} THEN "SuperAdmin" ELSE "User"
             s == [Accounts!Idle EXCEPT !.at = "hash", !.kind = "signup",
                      !.target = u, !.began = changes, !.role = new]
  <2>1. /\ new = "SuperAdmin" => changes = 0
        /\ new = "User" => \E v \in Users : role[v] # "none"
        /\ new \in {"SuperAdmin", "User"}
    BY <1>0 DEF Accounts!Known
  <2>2. session' = [session EXCEPT ![c] = s]
        /\ UNCHANGED <<role, access, refresh, changes, held>>
    BY <1>2 DEF Accounts!Signup
  <2> HIDE DEF new
  <2>3. /\ s \in Asking /\ s.at = "hash" /\ s.kind = "signup" /\ s.target = u
        /\ s.role = new /\ s.began = changes
    BY <1>0, <2>1, IdleAsking DEF Asking, Accounts!Idle, Accounts!Roles
  <2> HIDE DEF s
  <2>4. Established(s, role, changes, held)
    BY <1>0, <2>1, <2>3 DEF Established
  <2> QED BY <1>0, <2>2, <2>3, <2>4, AccountsAfterCall
<1>3. ASSUME NEW c \in Callers, NEW actor \in Users, NEW target \in Users,
             NEW new \in Accounts!Roles, Accounts!ChangeRole(c, actor, target, new)
      PROVE  AccountInv'
  <2> DEFINE s == [at |-> "actor", kind |-> "role", actor |-> actor, target |-> target,
                   role |-> new, began |-> changes]
  <2>1. s \in Asking
    BY <1>0 DEF Asking
  <2>2. Established(s, role, changes, held)
    BY <1>0 DEF Established
  <2>3. session' = [session EXCEPT ![c] = s]
        /\ UNCHANGED <<role, access, refresh, changes, held>>
    BY <1>3 DEF Accounts!ChangeRole
  <2> HIDE DEF s
  <2> QED BY <1>0, <2>1, <2>2, <2>3, AccountsAfterCall
<1>4. ASSUME NEW c \in Callers, Accounts!Authenticate(c)
      PROVE  AccountInv'
  <2>1. session[c].role \in Accounts!Roles
    BY <1>0, <1>4 DEF Established, Accounts!Authenticate, Accounts!At
  <2>2. /\ access' \in [Users -> Accounts!Roles \cup {"none"}]
        /\ refresh' \in [Users -> Accounts!Roles \cup {"none"}]
        /\ session' = [session EXCEPT ![c] = Accounts!Idle]
        /\ UNCHANGED <<role, changes, held>>
    BY <1>0, <1>4, <2>1 DEF Accounts!Authenticate, Accounts!Answers
  <2> QED BY <1>0, <2>2, IdleAsking, AccountsAfterCall
<1>5. ASSUME NEW c \in Callers, Accounts!CreateUser(c)
      PROVE  AccountInv'
  <2>1. session[c].target \in Users /\ session[c].role \in Accounts!Roles
    BY <1>0, <1>5 DEF Established, Accounts!CreateUser, Accounts!At, Accounts!Roles
  <2> QED BY <1>5, <2>1, AccountsAfterWrite DEF Accounts!CreateUser, Accounts!Answers
<1>6. ASSUME NEW c \in Callers, Accounts!FindActor(c)
      PROVE  AccountInv'
  <2> DEFINE old == session[c]
             s == [old EXCEPT !.at = "target"]
  <2>1. old \in Asking /\ old.at = "actor" /\ Established(old, role, changes, held)
    BY <1>0, <1>6 DEF Accounts!FindActor, Accounts!At
  <2>2. /\ s \in Asking /\ s.at = "target" /\ s.kind = old.kind
        /\ s.actor = old.actor /\ s.target = old.target /\ s.role = old.role
        /\ s.began = old.began
    BY <2>1 DEF Asking
  <2>3. /\ \/ role[old.actor] = "SuperAdmin" /\ session' = [session EXCEPT ![c] = s]
           \/ session' = [session EXCEPT ![c] = Accounts!Idle]
        /\ UNCHANGED <<role, access, refresh, changes, held>>
    BY <1>6 DEF Accounts!FindActor, Accounts!Goes, Accounts!Answers
  <2> HIDE DEF s, old
  <2>4. role[old.actor] = "SuperAdmin" => Established(s, role, changes, held)
    BY <2>1, <2>2 DEF Established
  <2> QED BY <1>0, <2>2, <2>3, <2>4, IdleAsking, AccountsAfterCall
<1>7. ASSUME NEW c \in Callers, Accounts!FindTarget(c)
      PROVE  AccountInv'
  <2> DEFINE old == session[c]
             s == [old EXCEPT !.at = "update"]
  <2>1. old \in Asking /\ old.at = "target" /\ Established(old, role, changes, held)
    BY <1>0, <1>7 DEF Accounts!FindTarget, Accounts!At
  <2>2. /\ s \in Asking /\ s.at = "update" /\ s.kind = old.kind
        /\ s.actor = old.actor /\ s.target = old.target /\ s.role = old.role
        /\ s.began = old.began
    BY <2>1 DEF Asking
  <2>3. /\ \/ /\ role[old.target] # "none"
              /\ old.actor = old.target => old.role = "SuperAdmin"
              /\ session' = [session EXCEPT ![c] = s]
           \/ session' = [session EXCEPT ![c] = Accounts!Idle]
        /\ UNCHANGED <<role, access, refresh, changes, held>>
    BY <1>7 DEF Accounts!FindTarget, Accounts!Goes, Accounts!Answers, Accounts!Known
  <2> HIDE DEF s, old
  <2>4. /\ role[old.target] # "none"
        /\ old.actor = old.target => old.role = "SuperAdmin"
        => Established(s, role, changes, held)
    BY <2>1, <2>2 DEF Established
  <2> QED BY <1>0, <2>2, <2>3, <2>4, IdleAsking, AccountsAfterCall
<1>8. ASSUME NEW c \in Callers, Accounts!UpdateRole(c)
      PROVE  AccountInv'
  <2>1. session[c].target \in Users /\ session[c].role \in Accounts!Roles
    BY <1>0, <1>8 DEF Established, Accounts!UpdateRole, Accounts!At
  <2> QED BY <1>8, <2>1, AccountsAfterWrite DEF Accounts!UpdateRole, Accounts!Answers
<1>9. ASSUME NEW c \in Callers, Accounts!CallFails(c)
      PROVE  AccountInv'
  BY <1>0, <1>9, IdleAsking, AccountsAfterCall DEF Accounts!CallFails, Accounts!Answers
<1>10. ASSUME NEW u \in Users, Accounts!Expire(u) \/ Accounts!Refresh(u) \/ Accounts!Logout(u)
       PROVE  AccountInv'
  <2>1. /\ access' \in [Users -> Accounts!Roles \cup {"none"}]
        /\ refresh' \in [Users -> Accounts!Roles \cup {"none"}]
        /\ UNCHANGED <<role, session, changes, held>>
    BY <1>0, <1>10 DEF Accounts!Expire, Accounts!Refresh, Accounts!Logout
  <2> QED BY <1>0, <2>1 DEF AccountInv, AccountTypes, Accounts!Known
<1>11. CASE UNCHANGED Accounts!vars
  BY <1>0, <1>11 DEF Accounts!vars, AccountInv, AccountTypes, Accounts!Known
<1> QED
  BY <1>1, <1>2, <1>3, <1>4, <1>5, <1>6, <1>7, <1>8, <1>9, <1>10, <1>11
  DEF Accounts!Next

\* Every run of the component keeps its invariant.
LEMMA AccountsAlways == Spec => []AccountInv
<1>1. Accounts!Spec => []AccountInv
  BY AccountInit, AccountStep, PTL DEF Accounts!Spec
<1> QED BY <1>1, RunsOfAccounts

\* The invariant has the types.
LEMMA AccountFacts == AccountInv => Accounts!TypeOK
<1> SUFFICES ASSUME AccountInv PROVE Accounts!TypeOK
  OBVIOUS
<1>1. /\ AccountTypes /\ changes \in Nat
      /\ \A c \in Callers : session[c] \in Asking /\ session[c].began <= changes
  BY BoundsAssumption DEF AccountInv, AccountTypes, Established
<1>2. \A c \in Callers : session[c].began \in 0..changes
  BY <1>1 DEF Asking
<1>3. \A c \in Callers :
          /\ session[c].at \in {"idle", "password", "hash", "actor", "target", "update"}
          /\ {session[c].actor, session[c].target} \subseteq Users \cup {"none"}
          /\ session[c].role \in Accounts!Roles \cup {"none"}
  BY <1>1 DEF Asking
<1> QED BY <1>1, <1>2, <1>3 DEF AccountTypes, Accounts!TypeOK

\* Only a signup and an update of a role write a role, each of its target, and
\* the request is then over.
LEMMA WhoWritesRoles ==
    ASSUME AccountInv, [Accounts!Next]_(Accounts!vars), role' # role
    PROVE  \E c \in Callers :
              /\ \/ Accounts!CreateUser(c) /\ role[session[c].target] = "none"
                 \/ Accounts!UpdateRole(c)
              /\ Accounts!Writes(session[c].target, session[c].role)
              /\ session[c].target \in Users /\ session[c].role \in Accounts!Roles
              /\ session[c].at \in {"hash", "update"}
              /\ session' = [session EXCEPT ![c] = Accounts!Idle]
<1>1. PICK c \in Callers : Accounts!CreateUser(c) \/ Accounts!UpdateRole(c)
  BY DEF Accounts!Next, Accounts!vars, Accounts!Login, Accounts!Signup,
         Accounts!ChangeRole, Accounts!Authenticate, Accounts!FindActor,
         Accounts!FindTarget, Accounts!CallFails, Accounts!Expire, Accounts!Refresh,
         Accounts!Logout
<1>2. /\ session[c].at \in {"hash", "update"}
      /\ Accounts!Writes(session[c].target, session[c].role)
      /\ session' = [session EXCEPT ![c] = Accounts!Idle]
  BY <1>1 DEF Accounts!CreateUser, Accounts!UpdateRole, Accounts!At, Accounts!Answers
<1>3. session[c].target \in Users /\ session[c].role \in Accounts!Roles
  BY <1>2 DEF AccountInv, Established, Accounts!Roles
<1> QED BY <1>1, <1>2, <1>3 DEF Accounts!CreateUser

\* Who writes a role was SuperAdmin since the request began, or is the first
\* to sign up.
LEMMA RolesAreGiven ==
    ASSUME AccountInv, [Accounts!Next]_(Accounts!vars)
    PROVE  Accounts!RolesFromSuperAdmins
<1> SUFFICES ASSUME NEW c \in Callers, session[c].at # "idle", role' # role,
                    session'[c] # session[c]
             PROVE  IF session[c].kind = "role"
                    THEN \/ held[session[c].actor] > session[c].began
                         \/ session[c].actor \in Accounts!SuperAdmins
                    ELSE session[c].role = "SuperAdmin" => session[c].began = 0
  BY DEF Accounts!RolesFromSuperAdmins, Accounts!At
<1>1. PICK d \in Callers : /\ session[d].at \in {"hash", "update"}
                           /\ session' = [session EXCEPT ![d] = Accounts!Idle]
  BY WhoWritesRoles
<1>2. /\ d = c /\ Established(session[c], role, changes, held)
      /\ session[c] \in Asking /\ held \in [Users -> 0..changes]
  BY <1>1 DEF AccountInv, AccountTypes
<1>3. CASE session[c].at = "hash"
  BY <1>2, <1>3 DEF Established
<1>4. CASE session[c].at = "update"
  <2>1. /\ session[c].kind = "role" /\ session[c].actor \in Users
        /\ role[session[c].actor] = "SuperAdmin"
              \/ session[c].began < held[session[c].actor]
    BY <1>2, <1>4 DEF Established
  <2>2. session[c].began < held[session[c].actor] =>
            held[session[c].actor] > session[c].began
    OBVIOUS
  <2> QED BY <2>1, <2>2 DEF Accounts!SuperAdmins
<1> QED BY <1>1, <1>2, <1>3, <1>4

\* The last SuperAdmin is left without the role only by one who lost it.
LEMMA ASuperAdminStays ==
    ASSUME AccountInv, [Accounts!Next]_(Accounts!vars)
    PROVE  Accounts!SomeSuperAdmin
<1> SUFFICES ASSUME Accounts!Known = {} \/ Accounts!SuperAdmins # {},
                    Accounts!Known' # {}, Accounts!SuperAdmins' = {}
             PROVE  \E c \in Callers :
                       /\ session[c].at = "update" /\ session'[c] # session[c]
                       /\ session[c].actor \notin Accounts!SuperAdmins
                       /\ held[session[c].actor] > session[c].began
  BY DEF Accounts!SomeSuperAdmin, Accounts!At
<1>1. role' # role
  BY DEF Accounts!Known, Accounts!SuperAdmins
<1>2. PICK c \in Callers :
         /\ \/ Accounts!CreateUser(c) /\ role[session[c].target] = "none"
            \/ Accounts!UpdateRole(c)
         /\ Accounts!Writes(session[c].target, session[c].role)
         /\ session[c].target \in Users /\ session[c].role \in Accounts!Roles
         /\ session[c].at \in {"hash", "update"}
         /\ session' = [session EXCEPT ![c] = Accounts!Idle]
  BY <1>1, WhoWritesRoles
<1> DEFINE s == session[c]
<1>3. /\ AccountTypes /\ s \in Asking /\ Established(s, role, changes, held)
      /\ session \in [Callers -> Asking]
  BY DEF AccountInv, AccountTypes
<1>4. /\ role'[s.target] = s.role
      /\ \A v \in Users : v # s.target => role'[v] = role[v]
  <2>1. s.target \in Users /\ s.role \in Accounts!Roles
        /\ Accounts!Writes(s.target, s.role)
    BY <1>2
  <2> HIDE DEF s
  <2>2. Wrote(s.target, s.role)
    BY <1>3, <2>1, WriteFacts
  <2> QED BY <2>2 DEF Wrote
<1>5. s.role # "SuperAdmin"
  BY <1>2, <1>4 DEF Accounts!SuperAdmins
<1>6. \A v \in Accounts!SuperAdmins : v = s.target
  BY <1>4 DEF Accounts!SuperAdmins
<1>7. s.at = "update"
  <2> SUFFICES ASSUME s.at = "hash" PROVE FALSE
    BY <1>2
  <2>1. Accounts!Known # {}
    BY <1>3, <1>5 DEF Established, Accounts!Known
  <2>2. role[s.target] = "SuperAdmin"
    BY <1>6, <2>1 DEF Accounts!SuperAdmins
  <2>3. role[s.target] = "none"
    BY <1>2 DEF Accounts!UpdateRole, Accounts!At
  <2> QED BY <2>2, <2>3
<1>8. s.actor \in Users /\ s.actor # s.target
  BY <1>3, <1>5, <1>7 DEF Established
<1>9. s.actor \notin Accounts!SuperAdmins
  BY <1>6, <1>8
<1>10. s.began < held[s.actor]
  BY <1>3, <1>7, <1>8, <1>9 DEF Established, Accounts!SuperAdmins
<1>11. session'[c] # session[c]
  BY <1>2, <1>3, <1>7 DEF Accounts!Idle
<1>12. held[s.actor] > s.began
  BY <1>10
<1> QED BY <1>7, <1>9, <1>11, <1>12

------------------------------------------------------------------------------
(* Service identities. *)

Holding ==
    [at : {"idle", "person", "owned", "write", "prime", "commit", "answered"},
     kind : {"none", "create", "setPrimary", "update", "delete"},
     target : Nat, service : Services \cup {"none"},
     owned : SUBSET [id : Nat, primary : BOOLEAN], clearing : SUBSET Nat,
     crossed : BOOLEAN,
     result : {"none", "notFound", "done", "conflict", "error", "failed"}]

IdentityTypes ==
    /\ owner \in BOOLEAN /\ doubled \in BOOLEAN /\ loose \in BOOLEAN
    /\ ids \in 0..MaxIds
    /\ identity \in [Services -> [id : 0..ids, primary : BOOLEAN]]
    /\ holder \in [Requests -> Holding]

\* What request h has read is of the first n rows; a create is for a service.
Bounded(h, n) ==
    /\ h.target <= n
    /\ h.owned \subseteq [id : 1..n, primary : BOOLEAN]
    /\ h.clearing \subseteq 1..n
    /\ h.kind = "create" /\ h.at # "answered" => h.service \in Services

\* A transaction that none has crossed clears every primary row there is.
ClearsAll(h) ==
    h.at = "commit" /\ ~h.crossed => \A r \in Identities!Primaries : r.id \in h.clearing

\* A request that none has overtaken has read the rows there are.
ReadAll(h) == h.at = "write" /\ ~loose /\ owner => h.owned = Identities!Rows

\* A create or delete that is about to set a primary row.
Settles(h) == h.at \in {"prime", "commit"} /\ h.kind # "setPrimary"

IdentityInv ==
    /\ IdentityTypes
    /\ \A c \in Requests : Bounded(holder[c], ids)
    /\ ~owner => Identities!Rows = {}
    /\ ~doubled => \A r, q \in Identities!Primaries : r = q
    /\ \A c \in Requests : ClearsAll(holder[c])
    /\ \A c \in Requests : ReadAll(holder[c])
    /\ Identities!Rows # {} /\ Identities!Primaries = {} =>
          loose \/ \E c \in Requests : Settles(holder[c])

\* A row is that of a service whose row is there.
LEMMA RowsAre ==
    \A r : r \in Identities!Rows <=>
              \E s \in Services : identity[s].id # 0 /\ r = identity[s]
BY DEF Identities!Rows

\* A set of numbers up to n that is not empty has a least one.
LEMMA LeastExists ==
    ASSUME NEW n \in Nat, NEW S \in SUBSET (0..n), S # {}
    PROVE  \E s \in S : \A t \in S : s <= t
<1> DEFINE UpTo(s) == {t \in 0..n : t <= s}
           T == {UpTo(s) : s \in S}
<1>1. IsFiniteSet(0..n)
  BY FS_Interval
<1>2. T \subseteq FiniteSubsetsOf(0..n) /\ T # {}
  <2>1. FiniteSubsetsOf(0..n) = SUBSET (0..n)
    BY <1>1, FS_FiniteSubsetsOfFinite
  <2>2. \A V \in T : V \in SUBSET (0..n)
    OBVIOUS
  <2>3. \E V : V \in T
    OBVIOUS
  <2> HIDE DEF T
  <2> QED BY <2>1, <2>2, <2>3
<1>3. IsWellFoundedOn(StrictSubsetOrdering(0..n), FiniteSubsetsOf(0..n))
  BY FS_StrictSubsetOrderingWellFounded
<1>4. PICK U \in T : \A V \in T : <<V, U>> \notin StrictSubsetOrdering(0..n)
  <2> HIDE DEF T
  <2> QED BY <1>2, <1>3, WFMin
<1>5. PICK s \in S : U = UpTo(s)
  OBVIOUS
<1>6. \A t \in S : s <= t
  <2> SUFFICES ASSUME NEW t \in S, ~ (s <= t)
               PROVE  FALSE
    OBVIOUS
  <2>1. s \in Int /\ t \in Int /\ t < s
    OBVIOUS
  <2>2. UpTo(t) \subseteq UpTo(s) /\ s \in UpTo(s) /\ s \notin UpTo(t)
    BY <2>1
  <2>3. UpTo(t) \in SUBSET (0..n) /\ UpTo(s) \in SUBSET (0..n)
    OBVIOUS
  <2>4. <<UpTo(t), UpTo(s)>> \in StrictSubsetOrdering(0..n)
    <3> HIDE DEF UpTo
    <3> QED BY <2>2, <2>3 DEF StrictSubsetOrdering
  <2> QED BY <1>4, <1>5, <2>4
<1> QED BY <1>6

\* Of the rows that were read one is the oldest, and it succeeds.
LEMMA NextPrimaryIsOne ==
    ASSUME NEW n \in Nat, NEW rows \in SUBSET [id : 1..n, primary : BOOLEAN], rows # {}
    PROVE  Identities!NextPrimary(rows) \in rows
<1>1. PICK i \in {r.id : r \in rows} : \A j \in {r.id : r \in rows} : i <= j
  <2>1. {r.id : r \in rows} \in SUBSET (0..n) /\ {r.id : r \in rows} # {}
    OBVIOUS
  <2> QED BY <2>1, LeastExists
<1>2. \E r \in rows : \A q \in rows : r.id <= q.id
  BY <1>1
<1> QED BY <1>2 DEF Identities!NextPrimary

\* The record of request c once it is answered.
Over(c, result) ==
    [Identities!Idle EXCEPT !.at = "answered", !.kind = holder[c].kind,
                            !.result = result]

Outcomes == {"notFound", "done", "conflict", "error", "failed"}

\* An answered request has read nothing.
LEMMA OverHolder ==
    ASSUME holder \in [Requests -> Holding], NEW c \in Requests, NEW result \in Outcomes
    PROVE  /\ Over(c, result) \in Holding
           /\ Over(c, result).at = "answered"
           /\ \A n \in Nat : Bounded(Over(c, result), n)
<1> DEFINE h == Over(c, result)
<1>1. holder[c].kind \in {"none", "create", "setPrimary", "update", "delete"}
  BY DEF Holding
<1>2. /\ h.at = "answered" /\ h.target = 0 /\ h.owned = {} /\ h.clearing = {}
  BY DEF Over, Identities!Idle
<1>3. h \in Holding
  BY <1>1 DEF Over, Identities!Idle, Holding, Outcomes
<1> QED BY <1>2, <1>3 DEF Bounded

\* A step of one request that writes no row.
LEMMA IdentitiesAfterCall ==
    ASSUME IdentityInv, NEW c \in Requests, NEW h \in Holding,
           holder' = [holder EXCEPT ![c] = h], Bounded(h, ids), ClearsAll(h),
           UNCHANGED <<owner, identity, ids, doubled>>,
           loose' \in BOOLEAN, loose => loose',
           h.at = "write" /\ ~loose' /\ owner => h.owned = Identities!Rows,
           Settles(holder[c]) => Settles(h) \/ loose'
    PROVE  IdentityInv'
<1>1. /\ IdentityTypes /\ holder \in [Requests -> Holding]
      /\ Identities!Rows' = Identities!Rows /\ Identities!Primaries' = Identities!Primaries
  BY DEF IdentityInv, IdentityTypes, Identities!Rows, Identities!Primaries
<1>2. IdentityTypes'
  BY <1>1 DEF IdentityTypes
<1>3. \A d \in Requests : Bounded(holder'[d], ids')
  BY <1>1 DEF IdentityInv
<1>4. \A d \in Requests : ClearsAll(holder[d])' /\ ReadAll(holder[d])'
  BY <1>1 DEF IdentityInv, ClearsAll, ReadAll
<1>5. ASSUME Identities!Rows # {}, Identities!Primaries = {}, ~loose'
      PROVE  \E d \in Requests : Settles(holder'[d])
  <2>1. PICK d \in Requests : Settles(holder[d])
    BY <1>5 DEF IdentityInv
  <2> QED BY <1>1, <1>5, <2>1
<1> QED BY <1>1, <1>2, <1>3, <1>4, <1>5 DEF IdentityInv, ClearsAll, ReadAll, Settles

\* A request is answered without writing a row.
LEMMA IdentitiesAnswered ==
    ASSUME IdentityInv, NEW c \in Requests, NEW result \in Outcomes,
           Identities!Answers(c, result),
           UNCHANGED <<owner, identity, ids, doubled>>,
           loose' \in BOOLEAN, loose => loose', Settles(holder[c]) => loose'
    PROVE  IdentityInv'
<1>1. holder \in [Requests -> Holding] /\ ids \in Nat
  BY BoundsAssumption DEF IdentityInv, IdentityTypes
<1>2. /\ Over(c, result) \in Holding /\ Over(c, result).at = "answered"
      /\ Bounded(Over(c, result), ids)
  BY <1>1, OverHolder
<1>3. holder' = [holder EXCEPT ![c] = Over(c, result)]
  BY DEF Identities!Answers, Identities!Answered, Over
<1>4. ClearsAll(Over(c, result))
  BY <1>2 DEF ClearsAll
<1> QED BY <1>2, <1>3, <1>4, IdentitiesAfterCall

\* Initially there is no row and no request.
LEMMA IdentityInit == Identities!Init => IdentityInv
<1> SUFFICES ASSUME Identities!Init PROVE IdentityInv
  OBVIOUS
<1>1. Identities!Idle \in Holding /\ Identities!Idle.at = "idle"
  BY DEF Identities!Idle, Holding
<1>2. Bounded(Identities!Idle, 0)
  BY DEF Identities!Idle, Bounded
<1>3. IdentityTypes
  <2>1. identity = [s \in Services |-> Identities!NoIdentity] /\ ids = 0
        /\ holder = [c \in Requests |-> Identities!Idle]
        /\ owner = TRUE /\ doubled = FALSE /\ loose = FALSE
    BY DEF Identities!Init
  <2>2. Identities!NoIdentity \in [id : 0..ids, primary : BOOLEAN] /\ ids \in 0..MaxIds
    BY <2>1, BoundsAssumption DEF Identities!NoIdentity
  <2>3. identity \in [Services -> [id : 0..ids, primary : BOOLEAN]]
    BY <2>1, <2>2
  <2>4. holder \in [Requests -> Holding]
    BY <1>1, <2>1
  <2> QED BY <2>1, <2>2, <2>3, <2>4 DEF IdentityTypes
<1>4. Identities!Rows = {} /\ Identities!Primaries = {}
  BY DEF Identities!Init, Identities!NoIdentity, Identities!Rows, Identities!Primaries
<1>5. \A c \in Requests : holder[c] = Identities!Idle
  BY DEF Identities!Init
<1>6. ids = 0
  BY DEF Identities!Init
<1> QED BY <1>1, <1>2, <1>3, <1>4, <1>5, <1>6 DEF IdentityInv, ClearsAll, ReadAll

\* A create or delete that writes keeps the invariant, for who is overtaken
\* is noted.
LEMMA IdentitiesAfterWrite ==
    ASSUME IdentityInv, NEW c \in Requests, NEW h \in Holding,
           holder[c].at = "write", holder' = [holder EXCEPT ![c] = h],
           h.at \notin {"write", "commit"}, Bounded(h, ids'),
           ids' \in 0..MaxIds, ids <= ids',
           identity' \in [Services -> [id : 0..ids', primary : BOOLEAN]],
           UNCHANGED <<owner, doubled>>, loose' = (loose \/ Identities!Overtaken(c)),
           Identities!Primaries' \subseteq Identities!Primaries,
           ~owner => Identities!Rows' = {},
           ~loose' /\ Identities!Rows' # {} /\ Identities!Primaries' = {} =>
              Settles(h) \/ (Identities!Rows # {} /\ Identities!Primaries = {})
    PROVE  IdentityInv'
<1>1. /\ IdentityTypes /\ holder \in [Requests -> Holding]
      /\ ids \in Nat /\ ids' \in Nat /\ loose \in BOOLEAN
  BY BoundsAssumption DEF IdentityInv, IdentityTypes
<1>2. IdentityTypes'
  <2>1. holder' \in [Requests -> Holding] /\ loose' \in BOOLEAN
    BY <1>1 DEF Identities!Overtaken
  <2> QED BY <1>1, <2>1 DEF IdentityTypes
<1>3. \A d \in Requests : Bounded(holder'[d], ids')
  <2>1. \A d \in Requests : Bounded(holder[d], ids)
    BY DEF IdentityInv
  <2>2. 1..ids \subseteq 1..ids' /\ \A d \in Requests : holder[d].target \in Nat
    BY <1>1 DEF Holding
  <2>3. \A d \in Requests : Bounded(holder[d], ids')
    <3> SUFFICES ASSUME NEW d \in Requests PROVE Bounded(holder[d], ids')
      OBVIOUS
    <3>1. holder[d].target <= ids'
      BY <1>1, <2>1, <2>2 DEF Bounded
    <3>2. [id : 1..ids, primary : BOOLEAN] \subseteq [id : 1..ids', primary : BOOLEAN]
      BY <2>2
    <3> QED BY <2>1, <2>2, <3>1, <3>2 DEF Bounded
  <2> QED BY <1>1, <2>3
<1>4. \A d \in Requests \ {c} : holder[d].at \in {"write", "prime", "commit"} => loose'
  BY DEF Identities!Overtaken
<1>5. \A d \in Requests : ClearsAll(holder[d])' /\ ReadAll(holder[d])'
  BY <1>1, <1>4 DEF IdentityInv, ClearsAll, ReadAll
<1>6. ASSUME Identities!Rows' # {}, Identities!Primaries' = {}, ~loose'
      PROVE  \E d \in Requests : Settles(holder'[d])
  <2>1. CASE Settles(h)
    BY <1>1, <2>1
  <2>2. CASE Identities!Rows # {} /\ Identities!Primaries = {}
    <3>1. PICK d \in Requests : Settles(holder[d])
      BY <1>6, <2>2 DEF IdentityInv
    <3> QED BY <1>4, <1>6, <3>1 DEF Settles
  <2> QED BY <1>6, <2>1, <2>2
<1>7. ~doubled' => \A r, q \in Identities!Primaries' : r = q
  BY DEF IdentityInv
<1> QED BY <1>2, <1>3, <1>5, <1>6, <1>7 DEF IdentityInv, ClearsAll, ReadAll, Settles

\* A create keeps the invariant: one that was overtaken by nobody has read
\* all rows, and it sets a primary one if there was no row.
LEMMA CreateStep ==
    ASSUME IdentityInv, NEW c \in Requests, Identities!Create(c)
    PROVE  IdentityInv'
<1> DEFINE s == holder[c].service
           h == [holder[c] EXCEPT !.at = "prime", !.target = ids + 1]
           new == [id |-> ids + 1, primary |-> FALSE]
<1>1. /\ IdentityTypes /\ holder \in [Requests -> Holding] /\ ids \in Nat
      /\ holder[c] \in Holding /\ holder[c].at = "write" /\ holder[c].kind = "create"
      /\ identity \in [Services -> [id : 0..ids, primary : BOOLEAN]]
      /\ loose \in BOOLEAN /\ Bounded(holder[c], ids) /\ s \in Services
      /\ UNCHANGED <<owner, doubled>>
  BY BoundsAssumption
  DEF IdentityInv, IdentityTypes, Identities!Create, Identities!At, Bounded
<1>2. CASE ~(owner /\ identity[s].id = 0)
  <2>1. /\ UNCHANGED <<owner, identity, ids, doubled, loose>>
        /\ Identities!Answers(c, IF owner THEN "conflict" ELSE "error")
    BY <1>1, <1>2 DEF Identities!Create
  <2>2. (IF owner THEN "conflict" ELSE "error") \in Outcomes
    BY DEF Outcomes
  <2>3. ~Settles(holder[c])
    BY <1>1 DEF Settles
  <2> HIDE DEF s
  <2> QED BY <1>1, <2>1, <2>2, <2>3, IdentitiesAnswered
<1>3. CASE owner /\ identity[s].id = 0
  <2>1. /\ ids < MaxIds /\ ids' = ids + 1
        /\ identity' = [identity EXCEPT ![s] = new]
        /\ loose' = (loose \/ Identities!Overtaken(c))
        /\ \/ holder[c].owned = {} /\ holder' = [holder EXCEPT ![c] = h]
           \/ holder[c].owned # {} /\ holder' = [holder EXCEPT ![c] = Over(c, "done")]
    <3>1. [holder EXCEPT ![c].at = "prime", ![c].target = ids + 1]
             = [holder EXCEPT ![c] = h]
      BY <1>1
    <3> HIDE DEF h
    <3> QED BY <1>3, <3>1 DEF Identities!Create, Identities!Answers, Identities!Answered, Over
  <2>2. /\ h \in Holding /\ h.at = "prime" /\ h.kind = "create" /\ h.target = ids + 1
        /\ h.owned = holder[c].owned /\ h.clearing = holder[c].clearing
        /\ h.service = s
    <3>1. ids + 1 \in Nat /\ holder[c] \in Holding
      BY <1>1
    <3>2. h \in Holding
      BY <3>1 DEF Holding
    <3>3. /\ h.at = "prime" /\ h.target = ids + 1
          /\ h.owned = holder[c].owned /\ h.clearing = holder[c].clearing
          /\ h.service = s /\ h.kind = holder[c].kind
      BY <3>1 DEF Holding
    <3> QED BY <1>1, <3>2, <3>3
  <2>3. Over(c, "done") \in Holding /\ Over(c, "done").at = "answered"
        /\ Bounded(Over(c, "done"), ids')
    <3>1. "done" \in Outcomes /\ ids' \in Nat
      BY <1>1, <2>1 DEF Outcomes
    <3> QED BY <1>1, <3>1, OverHolder
  <2> HIDE DEF h
  <2>4. Bounded(h, ids')
    <3>1. /\ [id : 1..ids, primary : BOOLEAN] \subseteq [id : 1..ids', primary : BOOLEAN]
          /\ 1..ids \subseteq 1..ids' /\ h.target <= ids'
      BY <1>1, <2>1, <2>2
    <3> QED BY <1>1, <2>2, <3>1 DEF Bounded
  <2>5. /\ identity' \in [Services -> [id : 0..ids', primary : BOOLEAN]]
        /\ ids' \in 0..MaxIds /\ ids <= ids'
    BY <1>1, <2>1, BoundsAssumption DEF IdentityTypes
  <2>6. /\ \A r : r \in Identities!Rows' <=> r \in Identities!Rows \/ r = new
        /\ Identities!Primaries' = Identities!Primaries
    <3>1. \A t \in Services : identity'[t] = IF t = s THEN new ELSE identity[t]
      BY <1>1, <2>1
    <3>2. new.id # 0 /\ new.primary = FALSE
      BY <1>1
    <3> HIDE DEF new, s
    <3>3. \A r : r \in Identities!Rows' <=> r \in Identities!Rows \/ r = new
      BY <1>1, <1>3, <3>1, <3>2 DEF Identities!Rows
    <3> QED BY <3>2, <3>3 DEF Identities!Primaries
  <2>7. CASE holder[c].owned = {}
    <3>1. Settles(h) /\ h.at \notin {"write", "commit"} /\ holder' = [holder EXCEPT ![c] = h]
      BY <2>1, <2>2, <2>7 DEF Settles
    <3> QED BY <1>1, <1>3, <2>1, <2>2, <2>4, <2>5, <2>6, <3>1, IdentitiesAfterWrite
  <2>8. CASE holder[c].owned # {}
    <3>1. ~loose' => Identities!Rows # {}
      BY <1>1, <1>3, <2>1, <2>8 DEF IdentityInv, ReadAll
    <3>2. holder' = [holder EXCEPT ![c] = Over(c, "done")]
      BY <2>1, <2>8
    <3> QED BY <1>1, <1>3, <2>1, <2>3, <2>5, <2>6, <3>1, <3>2, IdentitiesAfterWrite
  <2> QED BY <2>7, <2>8
<1> QED BY <1>2, <1>3

\* The rows are those of ids created.
LEMMA RowsAreCreated ==
    ASSUME IdentityTypes
    PROVE  Identities!Rows \subseteq [id : 1..ids, primary : BOOLEAN]
<1> SUFFICES ASSUME NEW s \in Services, identity[s].id # 0
             PROVE  identity[s] \in [id : 1..ids, primary : BOOLEAN]
  BY RowsAre
<1>1. identity[s] \in [id : 0..ids, primary : BOOLEAN] /\ ids \in Nat
  BY BoundsAssumption DEF IdentityTypes
<1>2. identity[s].id \in 1..ids
  BY <1>1
<1> QED BY <1>1, <1>2

\* A delete keeps the invariant: one that was overtaken by nobody has read
\* all rows, so it deletes the last one, or has another succeed a primary one.
LEMMA DeleteStep ==
    ASSUME IdentityInv, NEW c \in Requests, Identities!Delete(c)
    PROVE  IdentityInv'
<1> DEFINE id == holder[c].target
           left == {r \in holder[c].owned : r.id # id}
           h == [holder[c] EXCEPT !.at = "prime", !.target = Identities!NextPrimary(left).id]
<1>1. /\ IdentityTypes /\ holder \in [Requests -> Holding] /\ ids \in Nat
      /\ holder[c] \in Holding /\ holder[c].at = "write" /\ holder[c].kind = "delete"
      /\ identity \in [Services -> [id : 0..ids, primary : BOOLEAN]]
      /\ loose \in BOOLEAN /\ Bounded(holder[c], ids)
      /\ UNCHANGED <<owner, ids, doubled>>
  BY BoundsAssumption DEF IdentityInv, IdentityTypes, Identities!Delete, Identities!At
<1>2. CASE ~Identities!HasId(Identities!Rows, id)
  <2>1. /\ UNCHANGED <<owner, identity, ids, doubled, loose>>
        /\ Identities!Answers(c, "notFound")
    BY <1>1, <1>2 DEF Identities!Delete
  <2>2. ~Settles(holder[c]) /\ "notFound" \in Outcomes
    BY <1>1 DEF Settles, Outcomes
  <2> QED BY <1>1, <2>1, <2>2, IdentitiesAnswered
<1>3. CASE Identities!HasId(Identities!Rows, id)
  <2>1. /\ identity' = [s \in Services |-> IF identity[s].id = id
                                          THEN Identities!NoIdentity ELSE identity[s]]
        /\ loose' = (loose \/ Identities!Overtaken(c))
        /\ \/ /\ Identities!WasPrimary(c) /\ left # {}
              /\ holder' = [holder EXCEPT ![c] = h]
           \/ /\ ~(Identities!WasPrimary(c) /\ left # {})
              /\ holder' = [holder EXCEPT ![c] = Over(c, "done")]
    <3>1. [holder EXCEPT ![c].at = "prime", ![c].target = Identities!NextPrimary(left).id]
             = [holder EXCEPT ![c] = h]
      BY <1>1
    <3> HIDE DEF h
    <3> QED BY <1>3, <3>1 DEF Identities!Delete, Identities!Answers, Identities!Answered, Over
  <2>2. /\ Over(c, "done") \in Holding /\ Over(c, "done").at = "answered"
        /\ Bounded(Over(c, "done"), ids')
    <3>1. "done" \in Outcomes /\ ids' \in Nat
      BY <1>1 DEF Outcomes
    <3> QED BY <1>1, <3>1, OverHolder
  <2>3. /\ identity' \in [Services -> [id : 0..ids', primary : BOOLEAN]]
        /\ ids' \in 0..MaxIds /\ ids <= ids'
    <3>1. Identities!NoIdentity \in [id : 0..ids, primary : BOOLEAN]
      BY <1>1 DEF Identities!NoIdentity
    <3> QED BY <1>1, <2>1, <3>1 DEF IdentityTypes
  <2>4. /\ \A r : r \in Identities!Rows' <=> r \in Identities!Rows /\ r.id # id
        /\ Identities!Primaries' = {r \in Identities!Primaries : r.id # id}
    <3>1. \A s \in Services :
             identity'[s] = IF identity[s].id = id THEN Identities!NoIdentity ELSE identity[s]
      BY <2>1
    <3>2. Identities!NoIdentity.id = 0
      BY DEF Identities!NoIdentity
    <3> HIDE DEF id
    <3>3. \A r : r \in Identities!Rows' <=> r \in Identities!Rows /\ r.id # id
      BY <3>1, <3>2 DEF Identities!Rows
    <3> QED BY <3>3 DEF Identities!Primaries
  <2>5. /\ Identities!Primaries' \subseteq Identities!Primaries
        /\ ~owner => Identities!Rows' = {}
    BY <2>4 DEF IdentityInv
  <2>6. CASE Identities!WasPrimary(c) /\ left # {}
    <3>1. Identities!NextPrimary(left) \in left
      <4>1. left \in SUBSET [id : 1..ids, primary : BOOLEAN]
        BY <1>1 DEF Bounded
      <4> HIDE DEF left
      <4> QED BY <1>1, <2>6, <4>1, NextPrimaryIsOne
    <3>2. Identities!NextPrimary(left).id \in 1..ids
      BY <1>1, <3>1 DEF Bounded
    <3>3. /\ h \in Holding /\ h.at = "prime" /\ h.kind = "delete"
          /\ h.target \in 1..ids /\ h.owned = holder[c].owned
          /\ h.clearing = holder[c].clearing /\ h.service = holder[c].service
      <4> DEFINE next == Identities!NextPrimary(left).id
      <4>1. next \in 1..ids /\ next \in Nat /\ holder[c] \in Holding
        BY <1>1, <3>2
      <4> HIDE DEF next, left
      <4>2. h = [holder[c] EXCEPT !.at = "prime", !.target = next]
        BY DEF next
      <4> HIDE DEF h
      <4>3. h \in Holding
        BY <4>1, <4>2 DEF Holding
      <4>4. /\ h.at = "prime" /\ h.target = next /\ h.kind = holder[c].kind
            /\ h.owned = holder[c].owned /\ h.clearing = holder[c].clearing
            /\ h.service = holder[c].service
        BY <4>1, <4>2 DEF Holding
      <4> QED BY <1>1, <4>1, <4>3, <4>4
    <3>4. holder' = [holder EXCEPT ![c] = h]
      BY <2>1, <2>6
    <3> HIDE DEF h, left, id
    <3>5. Bounded(h, ids')
      BY <1>1, <3>3 DEF Bounded
    <3>6. Settles(h) /\ h.at \notin {"write", "commit"}
      BY <3>3 DEF Settles
    <3> QED BY <1>1, <2>1, <2>3, <2>5, <3>3, <3>4, <3>5, <3>6, IdentitiesAfterWrite
  <2>7. CASE ~(Identities!WasPrimary(c) /\ left # {})
    <3>1. ASSUME ~loose', Identities!Rows' # {}, Identities!Primaries' = {}
          PROVE  Identities!Rows # {} /\ Identities!Primaries = {}
      <4>1. PICK q \in Identities!Rows : q.id # id
        BY <2>4, <3>1
      <4>2. holder[c].owned = Identities!Rows
        BY <1>1, <2>1, <2>5, <3>1 DEF IdentityInv, ReadAll
      <4>3. left # {}
        BY <4>1, <4>2
      <4>4. ASSUME NEW r \in Identities!Primaries PROVE FALSE
        <5>1. r.id = id /\ r.primary /\ r \in Identities!Rows
          BY <2>4, <3>1 DEF Identities!Primaries
        <5>2. Identities!WasPrimary(c)
          BY <4>2, <5>1 DEF Identities!WasPrimary
        <5> QED BY <2>7, <4>3, <5>2
      <4> QED BY <4>1, <4>4
    <3>2. holder' = [holder EXCEPT ![c] = Over(c, "done")]
      BY <2>1, <2>7
    <3> HIDE DEF h, left, id
    <3>3. Over(c, "done").at \notin {"write", "commit"}
      BY <2>2
    <3> QED BY <1>1, <2>1, <2>2, <2>3, <2>5, <3>1, <3>2, <3>3, IdentitiesAfterWrite
  <2> QED BY <2>6, <2>7
<1> QED BY <1>2, <1>3

\* A commit keeps the invariant: of what was primary it leaves only its
\* target, unless it was crossed.
LEMMA CommitStep ==
    ASSUME IdentityInv, NEW c \in Requests, Identities!CommitPrimary(c)
    PROVE  IdentityInv'
<1> DEFINE id == holder[c].target
           clearing == holder[c].clearing
<1>1. /\ IdentityTypes /\ holder \in [Requests -> Holding] /\ ids \in Nat
      /\ holder[c] \in Holding /\ holder[c].at = "commit"
      /\ identity \in [Services -> [id : 0..ids, primary : BOOLEAN]]
      /\ loose \in BOOLEAN /\ UNCHANGED <<owner, ids>>
  BY BoundsAssumption DEF IdentityInv, IdentityTypes, Identities!CommitPrimary, Identities!At
<1>2. CASE ~Identities!HasId(Identities!Rows, id)
  <2> DEFINE result == IF holder[c].kind = "setPrimary" THEN "notFound" ELSE "error"
  <2>1. /\ UNCHANGED <<owner, identity, ids, doubled>>
        /\ Identities!Answers(c, result)
        /\ loose' = (loose \/ holder[c].kind # "setPrimary")
    BY <1>1, <1>2 DEF Identities!CommitPrimary
  <2>2. result \in Outcomes
    BY DEF Outcomes
  <2> HIDE DEF result
  <2>3. loose' \in BOOLEAN /\ (loose => loose') /\ (Settles(holder[c]) => loose')
    BY <1>1, <2>1 DEF Settles
  <2> QED BY <1>1, <2>1, <2>2, <2>3, IdentitiesAnswered
<1>3. CASE Identities!HasId(Identities!Rows, id)
  <2> DEFINE after(s) == CASE identity[s].id = id -> [identity[s] EXCEPT !.primary = TRUE]
                           [] identity[s].id # id /\ identity[s].id \in clearing
                                 -> [identity[s] EXCEPT !.primary = FALSE]
                           [] OTHER -> identity[s]
  <2>1. /\ identity' = [s \in Services |-> after(s)]
        /\ doubled' = holder[c].crossed /\ loose' = Identities!Overtaken(c)
        /\ holder' = Identities!Crosses(Identities!Answered(c, "done"))
    BY <1>3 DEF Identities!CommitPrimary
  <2>2. \A s \in Services :
           /\ identity'[s] \in [id : 0..ids, primary : BOOLEAN]
           /\ identity'[s].id = identity[s].id
           /\ identity[s].id = id => identity'[s].primary = TRUE
           /\ identity[s].id # id /\ identity'[s].primary =>
                 identity[s].primary /\ identity[s].id \notin clearing
    <3> SUFFICES ASSUME NEW s \in Services
                 PROVE  /\ after(s) \in [id : 0..ids, primary : BOOLEAN]
                        /\ after(s).id = identity[s].id
                        /\ identity[s].id = id => after(s).primary = TRUE
                        /\ identity[s].id # id /\ after(s).primary =>
                              identity[s].primary /\ identity[s].id \notin clearing
      BY <2>1
    <3>1. identity[s] \in [id : 0..ids, primary : BOOLEAN]
      BY <1>1
    <3> HIDE DEF id, clearing
    <3>2. CASE identity[s].id = id
      BY <3>1, <3>2
    <3>3. CASE identity[s].id # id /\ identity[s].id \in clearing
      BY <3>1, <3>3
    <3>4. CASE identity[s].id # id /\ identity[s].id \notin clearing
      BY <3>1, <3>4
    <3> QED BY <3>2, <3>3, <3>4
  <2> HIDE DEF after
  <2>3. \A d \in Requests :
           /\ holder'[d] \in Holding /\ Bounded(holder'[d], ids)
           /\ holder'[c].at = "answered"
           /\ d # c => /\ holder'[d].at = holder[d].at
                       /\ holder'[d].owned = holder[d].owned
           /\ holder'[d].at = "commit" => holder'[d].crossed
    <3> DEFINE calls == Identities!Answered(c, "done")
               crossed(d) == IF calls[d].at = "commit" THEN [calls[d] EXCEPT !.crossed = TRUE]
                                                       ELSE calls[d]
    <3>1. /\ Over(c, "done") \in Holding /\ Over(c, "done").at = "answered"
          /\ Bounded(Over(c, "done"), ids)
      <4>1. "done" \in Outcomes
        BY DEF Outcomes
      <4> QED BY <1>1, <4>1, OverHolder
    <3>2. calls = [holder EXCEPT ![c] = Over(c, "done")]
      BY DEF Identities!Answered, Over
    <3> HIDE DEF calls
    <3>3. \A d \in Requests : /\ calls[d] \in Holding /\ Bounded(calls[d], ids)
                              /\ calls[c].at = "answered"
                              /\ d # c => calls[d] = holder[d]
      BY <1>1, <3>1, <3>2 DEF IdentityInv
    <3>4. holder' = [d \in Requests |-> crossed(d)]
      BY <2>1 DEF calls, Identities!Crosses
    <3> SUFFICES ASSUME NEW d \in Requests
                 PROVE  /\ crossed(d) \in Holding /\ Bounded(crossed(d), ids)
                        /\ crossed(c).at = "answered"
                        /\ d # c => /\ crossed(d).at = holder[d].at
                                    /\ crossed(d).owned = holder[d].owned
                        /\ crossed(d).at = "commit" => crossed(d).crossed
      <4> HIDE DEF crossed
      <4> QED BY <3>4
    <3>5. CASE calls[d].at = "commit"
      <4> DEFINE old == calls[d]
                 h == [old EXCEPT !.crossed = TRUE]
      <4>1. old \in Holding /\ Bounded(old, ids) /\ old.at = "commit"
        BY <3>3, <3>5
      <4> HIDE DEF old
      <4>2. /\ h \in Holding /\ h.crossed = TRUE /\ h.at = old.at /\ h.owned = old.owned
            /\ h.target = old.target /\ h.clearing = old.clearing /\ h.kind = old.kind
            /\ h.service = old.service
        BY <4>1 DEF Holding
      <4> HIDE DEF h
      <4>3. Bounded(h, ids)
        BY <4>1, <4>2 DEF Bounded
      <4>4. crossed(d) = h /\ crossed(c) = calls[c]
        BY <3>3, <3>5 DEF h, old
      <4> HIDE DEF crossed
      <4>5. d # c => old = holder[d]
        BY <3>3 DEF old
      <4> QED BY <3>3, <4>2, <4>3, <4>4, <4>5
    <3>6. CASE calls[d].at # "commit"
      BY <3>3, <3>6
    <3> QED BY <3>5, <3>6
  <2>4. PICK t \in Services : identity[t].id # 0 /\ identity[t].id = id
    BY <1>3, RowsAre DEF Identities!HasId
  <2>5. /\ identity'[t] \in Identities!Primaries' /\ owner
    <3>1. Identities!Rows # {}
      BY <2>4, RowsAre
    <3>2. identity'[t].id # 0 /\ identity'[t].primary = TRUE
      BY <2>2, <2>4
    <3> QED BY <3>1, <3>2 DEF IdentityInv, Identities!Rows, Identities!Primaries
  <2>6. ASSUME ~doubled'
        PROVE  \A r \in Identities!Primaries' :
                  r \in [id : 0..ids, primary : BOOLEAN] /\ r.id = id /\ r.primary = TRUE
    <3> SUFFICES ASSUME NEW s \in Services, identity'[s].id # 0, identity'[s].primary
                 PROVE  /\ identity'[s] \in [id : 0..ids, primary : BOOLEAN]
                        /\ identity'[s].id = id /\ identity'[s].primary = TRUE
      BY DEF Identities!Primaries, Identities!Rows
    <3>1. ASSUME identity[s].id # id PROVE FALSE
      <4>1. /\ identity[s].primary /\ identity[s].id \notin clearing /\ identity[s].id # 0
        BY <2>2, <3>1
      <4>2. identity[s] \in Identities!Primaries
        BY <4>1 DEF Identities!Primaries, Identities!Rows
      <4>3. ClearsAll(holder[c]) /\ ~holder[c].crossed
        BY <2>1, <2>6 DEF IdentityInv
      <4> QED BY <1>1, <4>1, <4>2, <4>3 DEF ClearsAll
    <3>2. identity'[s].primary = TRUE
      BY <2>2
    <3> QED BY <2>2, <3>1, <3>2
  <2>7. ~doubled' => \A r, q \in Identities!Primaries' : r = q
    <3> SUFFICES ASSUME ~doubled', NEW r \in Identities!Primaries',
                        NEW q \in Identities!Primaries'
                 PROVE  r = q
      OBVIOUS
    <3>1. /\ r \in [id : 0..ids, primary : BOOLEAN] /\ q \in [id : 0..ids, primary : BOOLEAN]
          /\ r.id = q.id /\ r.primary = q.primary
      BY <2>6
    <3> QED BY <3>1
  <2>8. IdentityTypes'
    <3>1. doubled' \in BOOLEAN /\ loose' \in BOOLEAN
      BY <1>1, <2>1 DEF Holding, Identities!Overtaken
    <3>2. holder' \in [Requests -> Holding]
      BY <2>1, <2>3 DEF Identities!Crosses
    <3>3. identity' \in [Services -> [id : 0..ids, primary : BOOLEAN]]
      BY <2>1, <2>2
    <3> QED BY <1>1, <3>1, <3>2, <3>3 DEF IdentityTypes
  <2>9. \A d \in Requests : ClearsAll(holder[d])' /\ ReadAll(holder[d])'
    <3>1. \A d \in Requests \ {c} : holder[d].at = "write" => loose'
      BY <2>1 DEF Identities!Overtaken
    <3> QED BY <1>1, <2>3, <3>1 DEF ClearsAll, ReadAll
  <2> QED BY <1>1, <2>3, <2>5, <2>7, <2>8, <2>9 DEF IdentityInv, ClearsAll, ReadAll
<1> QED BY <1>2, <1>3

\* Every step of the component keeps its invariant.
LEMMA IdentityStep == IdentityInv /\ [Identities!Next]_(Identities!vars) => IdentityInv'
<1> SUFFICES ASSUME IdentityInv, [Identities!Next]_(Identities!vars) PROVE IdentityInv'
  OBVIOUS
<1>0. /\ IdentityTypes /\ holder \in [Requests -> Holding] /\ ids \in Nat
      /\ loose \in BOOLEAN
      /\ \A c \in Requests : holder[c] \in Holding /\ Bounded(holder[c], ids)
  BY BoundsAssumption DEF IdentityInv, IdentityTypes
<1>1. ASSUME NEW c \in Requests, NEW kind \in {"create", "setPrimary", "update", "delete"},
             NEW id \in 0..ids, NEW s \in Services \cup {"none"},
             kind = "create" => s \in Services, Identities!Arrive(c, kind, id, s)
      PROVE  IdentityInv'
  <2> DEFINE h == [Identities!Idle EXCEPT !.at = "person", !.kind = kind,
                                          !.target = id, !.service = s]
  <2>1. /\ h \in Holding /\ h.at = "person" /\ h.kind = kind /\ h.target = id
        /\ h.service = s /\ h.owned = {} /\ h.clearing = {}
    <3>1. /\ Identities!Idle \in Holding
          /\ Identities!Idle.owned = {} /\ Identities!Idle.clearing = {}
      BY DEF Identities!Idle, Holding
    <3>2. id \in Nat
      BY <1>0
    <3>3. h \in Holding
      BY <3>1, <3>2 DEF Holding
    <3>4. /\ h.at = "person" /\ h.kind = kind /\ h.target = id /\ h.service = s
          /\ h.owned = Identities!Idle.owned /\ h.clearing = Identities!Idle.clearing
      BY <3>1 DEF Holding
    <3> QED BY <3>1, <3>3, <3>4
  <2>2. holder' = [holder EXCEPT ![c] = h] /\ holder[c].at = "idle"
        /\ UNCHANGED <<owner, identity, ids, doubled, loose>>
    BY <1>1 DEF Identities!Arrive, Identities!At
  <2> HIDE DEF h
  <2>3. Bounded(h, ids) /\ ClearsAll(h) /\ h.at # "write" /\ ~Settles(holder[c])
    BY <1>0, <1>1, <2>1, <2>2 DEF Bounded, ClearsAll, Settles
  <2> QED BY <1>0, <2>1, <2>2, <2>3, IdentitiesAfterCall
<1>2. ASSUME NEW c \in Requests, Identities!FindPerson(c)
      PROVE  IdentityInv'
  <2> DEFINE old == holder[c]
             h == [old EXCEPT !.at = "owned"]
  <2>1. /\ holder[c].at = "person" /\ UNCHANGED <<owner, identity, ids, doubled, loose>>
        /\ ~Settles(holder[c]) /\ "notFound" \in Outcomes
    BY <1>2 DEF Identities!FindPerson, Identities!At, Settles, Outcomes
  <2>2. CASE ~owner
    <3>1. Identities!Answers(c, "notFound")
      BY <1>2, <2>2 DEF Identities!FindPerson
    <3> QED BY <1>0, <2>1, <3>1, IdentitiesAnswered
  <2>3. CASE owner
    <3>1. holder' = [holder EXCEPT ![c] = h]
      BY <1>2, <2>3 DEF Identities!FindPerson, Identities!Goes
    <3>2. old \in Holding /\ Bounded(old, ids) /\ old.at = "person"
      BY <1>0, <2>1
    <3> HIDE DEF old
    <3>3. /\ h \in Holding /\ h.at = "owned" /\ h.owned = old.owned /\ h.target = old.target
          /\ h.clearing = old.clearing /\ h.kind = old.kind /\ h.service = old.service
      BY <3>2 DEF Holding
    <3> HIDE DEF h
    <3>4. Bounded(h, ids) /\ ClearsAll(h) /\ h.at # "write"
      BY <3>2, <3>3 DEF Bounded, ClearsAll
    <3> QED BY <1>0, <2>1, <3>1, <3>3, <3>4, IdentitiesAfterCall
  <2> QED BY <2>2, <2>3
<1>3. ASSUME NEW c \in Requests, Identities!FindOwned(c)
      PROVE  IdentityInv'
  <2> DEFINE old == holder[c]
             place == IF old.kind = "setPrimary" THEN "prime" ELSE "write"
             h == [old EXCEPT !.owned = Identities!Rows, !.at = place]
  <2>1. /\ holder[c].at = "owned" /\ UNCHANGED <<owner, identity, ids, doubled, loose>>
        /\ ~Settles(holder[c]) /\ "notFound" \in Outcomes
    BY <1>3 DEF Identities!FindOwned, Identities!At, Settles, Outcomes
  <2>2. CASE holder[c].kind # "create" /\ ~Identities!HasId(Identities!Rows, holder[c].target)
    <3>1. Identities!Answers(c, "notFound")
      BY <1>3, <2>2 DEF Identities!FindOwned
    <3> QED BY <1>0, <2>1, <3>1, IdentitiesAnswered
  <2>3. CASE ~(holder[c].kind # "create" /\ ~Identities!HasId(Identities!Rows, holder[c].target))
    <3>1. holder' = [holder EXCEPT ![c] = h]
      BY <1>0, <1>3, <2>3 DEF Identities!FindOwned
    <3>2. /\ old \in Holding /\ Bounded(old, ids) /\ old.at = "owned"
          /\ Identities!Rows \subseteq [id : 1..ids, primary : BOOLEAN]
          /\ Identities!Rows \in SUBSET [id : Nat, primary : BOOLEAN]
      BY <1>0, <2>1, RowsAreCreated
    <3>3. place \in {"prime", "write"}
      OBVIOUS
    <3> HIDE DEF old, place
    <3>4. h \in Holding
      BY <3>2, <3>3 DEF Holding
    <3>5. /\ h.at = place /\ h.owned = Identities!Rows /\ h.target = old.target
          /\ h.clearing = old.clearing /\ h.kind = old.kind /\ h.service = old.service
      BY <3>2 DEF Holding
    <3> HIDE DEF h
    <3>6. Bounded(h, ids) /\ ClearsAll(h)
      BY <3>2, <3>3, <3>5 DEF Bounded, ClearsAll
    <3> QED BY <1>0, <2>1, <3>1, <3>4, <3>5, <3>6, IdentitiesAfterCall
  <2> QED BY <2>2, <2>3
<1>4. ASSUME NEW c \in Requests, Identities!Update(c)
      PROVE  IdentityInv'
  <2> DEFINE result == IF Identities!HasId(Identities!Rows, holder[c].target)
                       THEN "done" ELSE "notFound"
  <2>1. /\ UNCHANGED <<owner, identity, ids, doubled, loose>>
        /\ Identities!Answers(c, result) /\ ~Settles(holder[c])
    BY <1>4 DEF Identities!Update, Identities!At, Settles
  <2>2. result \in Outcomes
    BY DEF Outcomes
  <2> HIDE DEF result
  <2> QED BY <1>0, <2>1, <2>2, IdentitiesAnswered
<1>5. ASSUME NEW c \in Requests, Identities!ClearPrimaries(c)
      PROVE  IdentityInv'
  <2> DEFINE old == holder[c]
             found == {r.id : r \in Identities!Primaries}
             h == [old EXCEPT !.at = "commit", !.clearing = found]
  <2>1. /\ UNCHANGED <<owner, identity, ids, doubled, loose>>
        /\ holder' = [holder EXCEPT ![c] = h] /\ old.at = "prime"
    BY <1>0, <1>5 DEF Identities!ClearPrimaries, Identities!At
  <2>2. /\ old \in Holding /\ Bounded(old, ids)
        /\ found \subseteq 1..ids
    BY <1>0, RowsAreCreated DEF Identities!Primaries
  <2>3. found \in SUBSET Nat /\ \A r \in Identities!Primaries : r.id \in found
    BY <2>2
  <2> HIDE DEF old, found
  <2>4. h \in Holding
    BY <2>2, <2>3 DEF Holding
  <2>5. /\ h.at = "commit" /\ h.clearing = found /\ h.owned = old.owned
        /\ h.target = old.target /\ h.kind = old.kind /\ h.service = old.service
    BY <2>2 DEF Holding
  <2> HIDE DEF h
  <2>6. Bounded(h, ids) /\ ClearsAll(h) /\ h.at # "write" /\ (Settles(old) => Settles(h))
    BY <2>1, <2>2, <2>3, <2>5 DEF Bounded, ClearsAll, Settles
  <2>7. Settles(holder[c]) => Settles(h)
    BY <2>6 DEF old
  <2> QED BY <1>0, <2>1, <2>4, <2>6, <2>7, IdentitiesAfterCall
<1>6. ASSUME NEW c \in Requests, Identities!CallFails(c)
      PROVE  IdentityInv'
  <2>1. /\ UNCHANGED <<owner, identity, ids, doubled>> /\ "failed" \in Outcomes
        /\ Identities!Answers(c, "failed") /\ loose' \in BOOLEAN /\ (loose => loose')
        /\ Settles(holder[c]) => loose'
    BY <1>0, <1>6 DEF Identities!CallFails, Settles, Outcomes
  <2> QED BY <1>0, <2>1, IdentitiesAnswered
<1>7. ASSUME Identities!RemovePerson
      PROVE  IdentityInv'
  <2>1. /\ owner' = FALSE /\ UNCHANGED <<ids, holder, doubled, loose>>
        /\ \A s \in Services : identity'[s].id = 0
        /\ identity' = [s \in Services |-> Identities!NoIdentity]
    BY <1>7 DEF Identities!RemovePerson, Identities!NoIdentity
  <2>2. Identities!Rows' = {} /\ Identities!Primaries' = {}
    BY <2>1 DEF Identities!Rows, Identities!Primaries
  <2>3. Identities!NoIdentity \in [id : 0..ids, primary : BOOLEAN]
    BY <1>0 DEF Identities!NoIdentity
  <2>4. IdentityTypes'
    BY <1>0, <2>1, <2>3 DEF IdentityTypes
  <2> QED BY <2>1, <2>2, <2>4 DEF IdentityInv, ClearsAll, ReadAll, Settles
<1>8. CASE UNCHANGED Identities!vars
  <2>1. UNCHANGED <<owner, identity, ids, holder, doubled, loose>>
    BY <1>8 DEF Identities!vars
  <2>2. Identities!Rows' = Identities!Rows /\ Identities!Primaries' = Identities!Primaries
    BY <2>1 DEF Identities!Rows, Identities!Primaries
  <2> QED BY <2>1, <2>2 DEF IdentityInv, IdentityTypes, ClearsAll, ReadAll, Settles
<1>9. ASSUME NEW c \in Requests, NEW s \in Services, Identities!Arrive(c, "create", 0, s)
      PROVE  IdentityInv'
  <2>1. 0 \in 0..ids
    BY <1>0
  <2> QED BY <1>1, <1>9, <2>1
<1>10. ASSUME NEW c \in Requests, NEW kind \in {"setPrimary", "update", "delete"},
              NEW id \in 1..ids, Identities!Arrive(c, kind, id, "none")
       PROVE  IdentityInv'
  <2>1. id \in 0..ids
    BY <1>0
  <2> QED BY <1>1, <1>10, <2>1
<1> QED
  BY <1>2, <1>3, <1>4, <1>5, <1>6, <1>7, <1>8, <1>9, <1>10, CreateStep, DeleteStep, CommitStep
  DEF Identities!Next

\* Every run of the component keeps its invariant.
LEMMA IdentitiesAlways == Spec => []IdentityInv
<1>1. Identities!Spec => []IdentityInv
  BY IdentityInit, IdentityStep, PTL DEF Identities!Spec
<1> QED BY <1>1, RunsOfIdentities

\* The invariant has the types and both properties of the primary identity.
LEMMA IdentityFacts ==
    IdentityInv => /\ Identities!TypeOK
                   /\ Identities!TwoPrimariesNeedOverlap
                   /\ Identities!NoPrimaryNeedsRace
<1> SUFFICES ASSUME IdentityInv
             PROVE  /\ Identities!TypeOK
                    /\ Identities!TwoPrimariesNeedOverlap
                    /\ Identities!NoPrimaryNeedsRace
  OBVIOUS
<1>1. /\ IdentityTypes /\ ids \in Nat
      /\ \A c \in Requests : holder[c] \in Holding /\ Bounded(holder[c], ids)
  BY BoundsAssumption DEF IdentityInv, IdentityTypes
<1>2. Identities!TypeOK
  <2>1. identity \in [Services -> [id : 0..MaxIds, primary : BOOLEAN]]
    <3>1. 0..ids \subseteq 0..MaxIds
      BY <1>1, BoundsAssumption DEF IdentityTypes
    <3> QED BY <1>1, <3>1 DEF IdentityTypes
  <2>2. \A c \in Requests :
           /\ holder[c].at \in {"idle", "person", "owned", "write", "prime", "commit",
                                "answered"}
           /\ holder[c].target \in 0..ids
    BY <1>1 DEF Holding, Bounded
  <2> QED BY <1>1, <2>1, <2>2 DEF IdentityTypes, Identities!TypeOK, Bounded
<1>3. Identities!TwoPrimariesNeedOverlap
  <2> SUFFICES ASSUME Identities!Cardinality(Identities!Primaries) > 1, ~doubled
               PROVE  FALSE
    BY DEF Identities!TwoPrimariesNeedOverlap
  <2>1. Identities!Cardinality(Identities!Primaries) = Cardinality(Identities!Primaries)
    BY Zenon DEF Identities!Cardinality, Cardinality
  <2>2. \A r, q \in Identities!Primaries : r = q
    BY DEF IdentityInv
  <2>3. CASE Identities!Primaries = {}
    BY <2>1, <2>3, FS_EmptySet
  <2>4. CASE Identities!Primaries # {}
    <3>1. PICK r : Identities!Primaries = {r}
      BY <2>2, <2>4
    <3>2. Cardinality(Identities!Primaries) = 1
      BY <3>1, FS_Singleton
    <3> QED BY <2>1, <3>2
  <2> QED BY <2>3, <2>4
<1>4. Identities!NoPrimaryNeedsRace
  BY DEF IdentityInv, Identities!NoPrimaryNeedsRace, Identities!Quiet, Settles
<1> QED BY <1>2, <1>3, <1>4

------------------------------------------------------------------------------
(* Summaries. *)

Working ==
    [at : Summaries!Places, kind : {"none", "one", "batch", "reset"},
     mode : {"fill", "reeval"}, todo : Seq(Summaries!Coords), now : Nat, began : Nat,
     found : Nat, outcomes : Seq({"skipped", "existing", "created"}),
     seen : SUBSET [coord : Summaries!Coords, row : Nat], result : Summaries!Results]

SummaryTypes ==
    /\ now \in 0..MaxNow /\ stamp \in 0..MaxStamp
    /\ summary \in [Summaries!Coords -> 0..stamp]
    /\ assessed \in [Summaries!Coords -> 0..stamp]
    /\ touched \in [Summaries!Coords -> 0..stamp]
    /\ emptied \in [Summaries!Coords -> 0..stamp]
    /\ half \in [Scopes -> 0..stamp]
    /\ batch \in [Callers -> Working]

\* Where request b is and what it holds there: a reset has its group in todo
\* and has seen rows of that group only, and only a reeval replaces a row.
Placed(b) ==
    /\ b.at \in {"next", "narrating", "writing"} =>
          b.kind \in {"one", "batch"} /\ b.result = "none"
    /\ b.at \in {"narrating", "writing"} => b.todo # <<>>
    /\ b.at \in {"assessments", "summaries"} => b.kind = "reset" /\ b.result = "none"
    /\ b.at = "idle" => b.kind = "none" /\ b.result = "none"
    /\ b.kind = "reset" =>
          /\ \E g \in Scopes : b.todo = <<[group |-> g, start |-> 0]>>
          /\ \A s \in b.seen : s.coord.group = Head(b.todo).group
    /\ b.found # 0 => b.at = "writing" /\ b.mode = "reeval"

\* Request b, and what it has seen, is of the first n commits.
Timed(b, n) ==
    /\ b.began <= n /\ b.found <= n
    /\ b.seen \subseteq [coord : Summaries!Coords, row : 1..n]

\* Of the rows of table that were there when reset b began, those that still
\* are have been seen.
AllSeen(b, table) ==
    \A k \in Summaries!Coords :
        k.group = Head(b.todo).group /\ table[k] # 0 /\ table[k] <= b.began =>
            [coord |-> k, row |-> table[k]] \in b.seen

\* Of the rows of table that were there when reset b began, none is left.
AllGone(b, table) ==
    \A k \in Summaries!Coords :
        k.group = Head(b.todo).group => table[k] = 0 \/ table[k] > b.began

\* A reset has the first table emptied, and knows what is left in the second.
ResetSees(b, sums, works) ==
    /\ b.at = "assessments" => AllSeen(b, works)
    /\ b.at = "summaries" => AllGone(b, works) /\ AllSeen(b, sums)
    /\ b.kind = "reset" /\ b.result = "done" => AllGone(b, works) /\ AllGone(b, sums)

\* The row a request has read is as it was, or was changed since it began.
WriteSees(b, sums, changed) ==
    /\ b.at = "writing" =>
          sums[Head(b.todo)] = b.found \/ changed[Head(b.todo)] > b.began
    /\ b.result \in {"conflict", "recordGone"} =>
          b.todo # <<>> /\ changed[Head(b.todo)] > b.began

\* The coordinate of the i-th scope of batch b.
Due(b, i) == [group |-> BatchOrder[i], start |-> b.now - 1]

\* A batch has the rest of the roster before it, and each it has dealt with
\* has a summary unless that was changed since.
BatchDid(b, sums, changed) ==
    b.kind = "batch" /\ b.result # "refused" =>
        /\ b.now > 0 /\ b.now <= MaxNow
        /\ Len(b.outcomes) + Len(b.todo) = Len(BatchOrder)
        /\ \A j \in 1..Len(b.todo) : b.todo[j] = Due(b, Len(b.outcomes) + j)
        /\ \A i \in 1..Len(b.outcomes) : sums[Due(b, i)] # 0 \/ changed[Due(b, i)] > b.began
        /\ b.result = "done" => b.todo = <<>>

Kept(b, sums, works, changed, n) ==
    /\ Placed(b) /\ Timed(b, n)
    /\ ResetSees(b, sums, works) /\ WriteSees(b, sums, changed) /\ BatchDid(b, sums, changed)

\* A reset that is about to delete summary k has seen it.
Pending(b, k) ==
    /\ b.at = "summaries" /\ Head(b.todo).group = k.group
    /\ [coord |-> k, row |-> summary[k]] \in b.seen

\* A summary older than the removal of its assessments goes, or stays because
\* a reset failed half way.
Orphaned(k) == summary[k] # 0 /\ summary[k] < emptied[k]

OrphansPend ==
    \A k \in Summaries!Coords : Orphaned(k) =>
        half[k.group] >= emptied[k] \/ \E c \in Callers : Pending(batch[c], k)

SummaryInv ==
    /\ SummaryTypes
    /\ \A c \in Callers : Kept(batch[c], summary, assessed, touched, stamp)
    /\ OrphansPend

\* What a request holds, field by field.
LEMMA WorkingFacts ==
    ASSUME NEW b \in Working
    PROVE  /\ b.todo \in Seq(Summaries!Coords) /\ b.began \in Nat /\ b.found \in Nat
           /\ b.now \in Nat /\ b.outcomes \in Seq({"skipped", "existing", "created"})
           /\ Len(b.todo) \in Nat /\ Len(b.outcomes) \in Nat
           /\ b.todo # <<>> => Head(b.todo) \in Summaries!Coords /\ Len(b.todo) > 0
<1>1. /\ b.todo \in Seq(Summaries!Coords) /\ b.began \in Nat /\ b.found \in Nat
      /\ b.now \in Nat /\ b.outcomes \in Seq({"skipped", "existing", "created"})
  BY DEF Working
<1>2. b.todo # <<>> => Head(b.todo) \in Summaries!Coords /\ Len(b.todo) > 0
  <2> DEFINE todo == b.todo
             C == Summaries!Coords
  <2>1. todo \in Seq(C)
    BY <1>1
  <2> HIDE DEF todo, C
  <2>2. todo # <<>> => Head(todo) \in C /\ Len(todo) > 0
    BY <2>1
  <2> QED BY <2>2 DEF todo, C
<1> QED BY <1>1, <1>2

\* A coordinate that is due is one.
LEMMA DueIsCoord ==
    ASSUME NEW b, NEW i \in 1..Len(BatchOrder), b.now \in 1..MaxNow
    PROVE  Due(b, i) \in Summaries!Coords
<1>1. BatchOrder[i] \in Scopes
  BY OrderAssumption
<1>2. b.now - 1 \in 0..(MaxNow - 1)
  BY BoundsAssumption
<1> QED BY <1>1, <1>2 DEF Due, Summaries!Coords

\* What a commit may do to the rows: a summary that changes is touched by it.
RowsMove ==
    /\ stamp' = stamp + 1
    /\ \A k \in Summaries!Coords :
          /\ \/ summary'[k] = summary[k]
             \/ summary'[k] \in {0, stamp + 1} /\ touched'[k] = stamp + 1
          /\ touched'[k] \in {touched[k], stamp + 1}
          /\ assessed'[k] \in {assessed[k], 0, stamp + 1}

\* A commit of one request keeps what the others rely on.
LEMMA KeptByOthers ==
    ASSUME SummaryTypes, RowsMove, NEW b \in Working,
           Kept(b, summary, assessed, touched, stamp)
    PROVE  Kept(b, summary', assessed', touched', stamp')
<1>1. /\ stamp \in Nat /\ b.began \in Nat /\ b.began <= stamp /\ b.found <= stamp
      /\ b.found \in Nat
      /\ \A k \in Summaries!Coords : summary[k] \in Nat /\ assessed[k] \in Nat
                                     /\ touched[k] \in Nat
  BY WorkingFacts, BoundsAssumption DEF SummaryTypes, Kept, Timed
<1>2. /\ stamp' = stamp + 1 /\ b.began < stamp'
      /\ \A k \in Summaries!Coords :
            /\ touched[k] > b.began => touched'[k] > b.began
            /\ summary'[k] = summary[k] \/ touched'[k] > b.began
            /\ summary'[k] # 0 /\ summary'[k] <= b.began => summary'[k] = summary[k]
            /\ assessed'[k] # 0 /\ assessed'[k] <= b.began => assessed'[k] = assessed[k]
            /\ assessed'[k] \in Nat /\ summary'[k] \in Nat
  BY <1>1 DEF RowsMove
<1>3. Placed(b)
  BY DEF Kept
<1>4. Timed(b, stamp')
  <2>1. [coord : Summaries!Coords, row : 1..stamp]
           \subseteq [coord : Summaries!Coords, row : 1..stamp']
    BY <1>1, <1>2
  <2> QED BY <1>1, <1>2, <2>1 DEF Kept, Timed
<1>5. ResetSees(b, summary', assessed')
  <2>1. /\ AllSeen(b, assessed) => AllSeen(b, assessed')
        /\ AllSeen(b, summary) => AllSeen(b, summary')
    BY <1>2 DEF AllSeen
  <2>2. /\ AllGone(b, assessed) => AllGone(b, assessed')
        /\ AllGone(b, summary) => AllGone(b, summary')
    <3>1. \A k \in Summaries!Coords :
             /\ assessed'[k] # 0 /\ ~(assessed'[k] > b.began) => assessed'[k] = assessed[k]
             /\ summary'[k] # 0 /\ ~(summary'[k] > b.began) => summary'[k] = summary[k]
      BY <1>1, <1>2
    <3> QED BY <3>1 DEF AllGone
  <2> QED BY <2>1, <2>2 DEF Kept, ResetSees
<1>6. WriteSees(b, summary', touched')
  <2>1. b.at = "writing" => b.todo # <<>>
    BY <1>3 DEF Placed
  <2>2. b.todo # <<>> => Head(b.todo) \in Summaries!Coords
    BY WorkingFacts
  <2> QED BY <1>2, <2>1, <2>2 DEF Kept, WriteSees
<1>7. BatchDid(b, summary', touched')
  <2> SUFFICES ASSUME b.kind = "batch", b.result # "refused"
               PROVE  \A i \in 1..Len(b.outcomes) :
                         summary'[Due(b, i)] # 0 \/ touched'[Due(b, i)] > b.began
    BY DEF Kept, BatchDid
  <2> TAKE i \in 1..Len(b.outcomes)
  <2>1. /\ Len(b.outcomes) \in Nat /\ Len(b.todo) \in Nat /\ b.now \in Nat
        /\ b.now > 0 /\ b.now <= MaxNow
        /\ Len(b.outcomes) + Len(b.todo) = Len(BatchOrder)
        /\ summary[Due(b, i)] # 0 \/ touched[Due(b, i)] > b.began
    BY WorkingFacts DEF Kept, BatchDid
  <2>2. Due(b, i) \in Summaries!Coords
    <3>1. i \in 1..Len(BatchOrder) /\ b.now \in 1..MaxNow
      <4> DEFINE n == Len(b.outcomes)
                 m == Len(b.todo)
                 l == Len(BatchOrder)
      <4>1. n \in Nat /\ m \in Nat /\ n + m = l /\ i \in 1..n
        BY <2>1
      <4> HIDE DEF n, m, l
      <4>2. i \in 1..l
        BY <4>1
      <4>3. b.now \in 1..MaxNow
        BY <2>1, BoundsAssumption
      <4> QED BY <4>2, <4>3 DEF l
    <3> QED BY <3>1, DueIsCoord
  <2> QED BY <1>2, <2>1, <2>2
<1> QED BY <1>3, <1>4, <1>5, <1>6, <1>7 DEF Kept

\* A step of one request that writes no row; a reset that gives up half way
\* says so.
LEMMA SummariesAfterCall ==
    ASSUME SummaryInv, NEW c \in Callers, NEW b \in Working,
           batch' = [batch EXCEPT ![c] = b], Kept(b, summary, assessed, touched, stamp),
           now' \in 0..MaxNow, UNCHANGED <<summary, assessed, touched, emptied, stamp>>,
           half' \in [Scopes -> 0..stamp], \A g \in Scopes : half[g] <= half'[g],
           batch[c].at = "summaries" => half'[Head(batch[c].todo).group] = stamp
    PROVE  SummaryInv'
<1>1. /\ SummaryTypes /\ batch \in [Callers -> Working] /\ stamp \in Nat
      /\ half \in [Scopes -> 0..stamp] /\ emptied \in [Summaries!Coords -> 0..stamp]
      /\ \A k \in Summaries!Coords : k.group \in Scopes
  BY BoundsAssumption DEF SummaryInv, SummaryTypes, Summaries!Coords
<1>2. SummaryTypes'
  BY <1>1 DEF SummaryTypes
<1>3. \A d \in Callers : Kept(batch'[d], summary, assessed, touched, stamp)
  BY <1>1 DEF SummaryInv
<1>4. OrphansPend'
  <2> SUFFICES ASSUME NEW k \in Summaries!Coords, summary[k] # 0, summary[k] < emptied[k]
               PROVE  half'[k.group] >= emptied[k] \/ \E d \in Callers : Pending(batch[d], k)'
    BY DEF OrphansPend, Orphaned
  <2>1. half[k.group] >= emptied[k] \/ \E d \in Callers : Pending(batch[d], k)
    BY DEF SummaryInv, OrphansPend, Orphaned
  <2>2. /\ half[k.group] \in Nat /\ half'[k.group] \in Nat /\ emptied[k] \in Nat
        /\ half[k.group] <= half'[k.group] /\ emptied[k] <= stamp
    BY <1>1
  <2>3. CASE half[k.group] >= emptied[k]
    BY <2>2, <2>3
  <2>4. ASSUME NEW d \in Callers, Pending(batch[d], k)
        PROVE  half'[k.group] >= emptied[k] \/ \E e \in Callers : Pending(batch[e], k)'
    <3>1. CASE d = c
      <4>1. half'[k.group] = stamp
        BY <2>4, <3>1 DEF Pending
      <4> QED BY <2>2, <4>1
    <3>2. CASE d # c
      <4>1. batch'[d] = batch[d]
        BY <1>1, <3>2
      <4>2. Pending(batch[d], k)'
        BY <2>4, <4>1 DEF Pending
      <4> QED BY <4>2
    <3> QED BY <3>1, <3>2
  <2> QED BY <2>1, <2>3, <2>4
<1>5. \A d \in Callers : Kept(batch'[d], summary', assessed', touched', stamp')
  BY <1>3
<1> QED BY <1>2, <1>4, <1>5 DEF SummaryInv

\* An answer: what the request was for stays, what it held goes.
AnswerOf(old, b, result) ==
    /\ b \in Working /\ b.at = "answered" /\ b.result = result
    /\ b.found = 0 /\ b.seen = {}
    /\ b.kind = old.kind /\ b.todo = old.todo /\ b.now = old.now /\ b.began = old.began
    /\ b.outcomes = old.outcomes

\* Every answer is one.
LEMMA AnswersAre ==
    ASSUME NEW c \in Callers, batch[c] \in Working, NEW result \in Summaries!Results
    PROVE  AnswerOf(batch[c], Summaries!Answers(c, result), result)
<1> DEFINE old == batch[c]
           b == [old EXCEPT !.at = "answered", !.result = result,
                            !.mode = "fill", !.found = 0, !.seen = {}]
<1>1. Summaries!Answers(c, result) = b
  BY DEF Summaries!Answers, Summaries!NoRow
<1>2. old \in Working /\ "answered" \in Summaries!Places
  BY DEF Summaries!Places
<1> HIDE DEF old
<1>3. b \in Working
  BY <1>2 DEF Working
<1>4. /\ b.at = "answered" /\ b.result = result /\ b.found = 0 /\ b.seen = {}
      /\ b.kind = old.kind /\ b.todo = old.todo /\ b.now = old.now /\ b.began = old.began
      /\ b.outcomes = old.outcomes
  BY <1>2 DEF Working
<1> HIDE DEF b
<1>5. AnswerOf(old, b, result)
  BY <1>3, <1>4 DEF AnswerOf
<1> QED BY <1>1, <1>5 DEF old

\* An answer keeps what was kept; a batch that is done has nothing before it,
\* a reset none of the rows, and an error has a rival.
LEMMA AnswerKept ==
    ASSUME NEW old \in Working, NEW b, NEW result, AnswerOf(old, b, result),
           NEW S, NEW A, NEW T, NEW n \in Nat, Kept(old, S, A, T, n),
           old.at \notin {"idle", "answered"}, result # "refused",
           result \in {"conflict", "recordGone"} =>
              old.todo # <<>> /\ T[Head(old.todo)] > old.began,
           result = "done" /\ old.kind = "batch" => old.todo = <<>>,
           result = "done" /\ old.kind = "reset" => AllGone(old, A) /\ AllGone(old, S)
    PROVE  Kept(b, S, A, T, n)
<1>1. /\ b.at = "answered" /\ b.result = result /\ b.found = 0 /\ b.seen = {}
      /\ b.kind = old.kind /\ b.todo = old.todo /\ b.now = old.now /\ b.began = old.began
      /\ b.outcomes = old.outcomes
  BY DEF AnswerOf
<1>2. Placed(b)
  BY <1>1 DEF Kept, Placed
<1>3. Timed(b, n)
  BY <1>1 DEF Kept, Timed
<1>4. ResetSees(b, S, A)
  BY <1>1 DEF ResetSees, AllGone
<1>5. WriteSees(b, S, T)
  BY <1>1 DEF WriteSees
<1>6. BatchDid(b, S, T)
  <2>1. old.kind = "batch" => old.result = "none"
    BY DEF Kept, Placed, Working, Summaries!Places
  <2>2. \A i : Due(b, i) = Due(old, i)
    BY <1>1 DEF Due
  <2> QED BY <1>1, <2>1, <2>2 DEF Kept, BatchDid
<1> QED BY <1>2, <1>3, <1>4, <1>5, <1>6 DEF Kept

\* A coordinate is done, and the request goes on to the next.
Noted(old, b) ==
    /\ b \in Working /\ b.at = "next" /\ b.result = old.result
    /\ b.found = 0 /\ b.seen = old.seen
    /\ b.kind = old.kind /\ b.now = old.now /\ b.began = old.began
    /\ Len(b.todo) = Len(old.todo) - 1
    /\ \A j \in 1..Len(b.todo) : b.todo[j] = old.todo[j + 1]
    /\ Len(b.outcomes) = Len(old.outcomes) + 1

\* Every outcome that is noted is one.
LEMMA NotesAre ==
    ASSUME NEW c \in Callers, batch[c] \in Working, batch[c].todo # <<>>,
           NEW outcome \in {"skipped", "existing", "created"}
    PROVE  Noted(batch[c], Summaries!Notes(c, outcome))
<1> DEFINE old == batch[c]
           todo == Tail(old.todo)
           outcomes == Append(old.outcomes, outcome)
           b == [old EXCEPT !.at = "next", !.todo = todo, !.found = 0,
                            !.outcomes = outcomes]
           C == Summaries!Coords
           O == {"skipped", "existing", "created"}
<1>1. Summaries!Notes(c, outcome) = b
  BY DEF Summaries!Notes, Summaries!NoRow
<1>2. old \in Working /\ "next" \in Summaries!Places /\ old.todo # <<>>
      /\ old.todo \in Seq(C) /\ old.outcomes \in Seq(O)
  BY WorkingFacts DEF Summaries!Places
<1> HIDE DEF old, C, O
<1>3. /\ todo \in Seq(C) /\ Len(todo) = Len(old.todo) - 1
      /\ \A j \in 1..Len(todo) : todo[j] = old.todo[j + 1]
  BY <1>2
<1>4. outcomes \in Seq(O) /\ Len(outcomes) = Len(old.outcomes) + 1
  BY <1>2 DEF O
<1> HIDE DEF todo, outcomes
<1>5. b \in Working
  BY <1>2, <1>3, <1>4 DEF Working, C, O
<1>6. /\ b.at = "next" /\ b.result = old.result /\ b.found = 0 /\ b.seen = old.seen
      /\ b.kind = old.kind /\ b.todo = todo /\ b.now = old.now /\ b.began = old.began
      /\ b.outcomes = outcomes
  BY <1>2 DEF Working
<1> HIDE DEF b
<1>7. Noted(old, b)
  BY <1>3, <1>4, <1>5, <1>6 DEF Noted
<1> QED BY <1>1, <1>7 DEF old

\* It keeps what was kept, if a batch leaves a summary or a rival behind.
LEMMA NoteKept ==
    ASSUME NEW old \in Working, NEW b, Noted(old, b),
           NEW S, NEW A, NEW T, NEW n \in Nat, Kept(old, S, A, T, n),
           old.at \in {"next", "narrating", "writing"}, old.todo # <<>>,
           old.kind = "batch" => S[Head(old.todo)] # 0 \/ T[Head(old.todo)] > old.began
    PROVE  Kept(b, S, A, T, n)
<1>1. /\ b \in Working /\ b.at = "next" /\ b.result = old.result
      /\ b.found = 0 /\ b.seen = old.seen
      /\ b.kind = old.kind /\ b.now = old.now /\ b.began = old.began
      /\ Len(b.todo) = Len(old.todo) - 1
      /\ \A j \in 1..Len(b.todo) : b.todo[j] = old.todo[j + 1]
      /\ Len(b.outcomes) = Len(old.outcomes) + 1
  BY DEF Noted
<1>2. old.kind \in {"one", "batch"} /\ old.result = "none"
  BY DEF Kept, Placed
<1>3. Placed(b)
  BY <1>1, <1>2 DEF Placed
<1>4. Timed(b, n)
  BY <1>1 DEF Kept, Timed
<1>5. ResetSees(b, S, A) /\ WriteSees(b, S, T)
  BY <1>1, <1>2 DEF ResetSees, WriteSees
<1>6. BatchDid(b, S, T)
  <2> SUFFICES ASSUME old.kind = "batch"
               PROVE  BatchDid(b, S, T)
    BY <1>1, <1>2 DEF BatchDid
  <2> DEFINE m == Len(old.outcomes)
             l == Len(old.todo)
             todo == old.todo
  <2>1. /\ old.now > 0 /\ old.now <= MaxNow /\ m + l = Len(BatchOrder)
        /\ \A j \in 1..l : todo[j] = Due(old, m + j)
        /\ \A i \in 1..m : S[Due(old, i)] # 0 \/ T[Due(old, i)] > old.began
    BY <1>2 DEF Kept, BatchDid
  <2>2. m \in Nat /\ l \in Nat /\ l > 0 /\ Head(todo) = todo[1]
    BY WorkingFacts
  <2>3. \A i : Due(b, i) = Due(old, i)
    BY <1>1 DEF Due
  <2>4. Head(todo) = Due(old, m + 1)
    BY <2>1, <2>2
  <2>5. /\ Len(b.outcomes) = m + 1 /\ Len(b.todo) = l - 1
        /\ \A j \in 1..(l - 1) : b.todo[j] = todo[j + 1]
    BY <1>1
  <2>h. S[Head(todo)] # 0 \/ T[Head(todo)] > old.began
    OBVIOUS
  <2> HIDE DEF m, l, todo
  <2>6. \A j \in 1..(l - 1) : b.todo[j] = Due(b, m + 1 + j)
    <3> TAKE j \in 1..(l - 1)
    <3>1. j + 1 \in 1..l /\ m + (j + 1) = m + 1 + j
      BY <2>2
    <3>2. todo[j + 1] = Due(old, m + (j + 1))
      BY <2>1, <3>1
    <3> QED BY <2>3, <2>5, <3>1, <3>2
  <2>7. \A i \in 1..(m + 1) : S[Due(b, i)] # 0 \/ T[Due(b, i)] > b.began
    <3> TAKE i \in 1..(m + 1)
    <3>1. i \in 1..m \/ i = m + 1
      BY <2>2
    <3> QED BY <1>1, <2>1, <2>3, <2>4, <2>h, <3>1
  <2>8. (m + 1) + (l - 1) = Len(BatchOrder)
    BY <2>1, <2>2
  <2> QED BY <1>1, <1>2, <2>1, <2>5, <2>6, <2>7, <2>8 DEF BatchDid
<1> QED BY <1>3, <1>4, <1>5, <1>6 DEF Kept

\* A commit keeps the invariant if it keeps what its request relies on, and
\* if orphans stay pending.
LEMMA SummariesAfterCommit ==
    ASSUME SummaryInv, RowsMove, stamp < MaxStamp, UNCHANGED <<now, half>>,
           summary' \in [Summaries!Coords -> 0..stamp'],
           assessed' \in [Summaries!Coords -> 0..stamp'],
           touched' \in [Summaries!Coords -> 0..stamp'],
           emptied' \in [Summaries!Coords -> 0..stamp'],
           batch' \in [Callers -> Working],
           \A d \in Callers :
              \/ batch'[d] = batch[d]
              \/ Kept(batch'[d], summary', assessed', touched', stamp'),
           \A k \in Summaries!Coords : Orphaned(k)' =>
              \/ /\ summary'[k] = summary[k] /\ emptied'[k] = emptied[k]
                 /\ \A d \in Callers : Pending(batch[d], k) => batch'[d] = batch[d]
              \/ \E d \in Callers : Pending(batch[d], k)'
    PROVE  SummaryInv'
<1>1. /\ SummaryTypes /\ batch \in [Callers -> Working] /\ stamp \in Nat /\ MaxStamp \in Nat
      /\ stamp' = stamp + 1
  BY BoundsAssumption DEF SummaryInv, SummaryTypes, RowsMove
<1>2. SummaryTypes'
  <2>1. stamp' \in 0..MaxStamp /\ half' \in [Scopes -> 0..stamp']
    BY <1>1 DEF SummaryTypes
  <2> QED BY <1>1, <2>1 DEF SummaryTypes
<1>3. ASSUME NEW d \in Callers
      PROVE  Kept(batch'[d], summary', assessed', touched', stamp')
  <2>1. Kept(batch[d], summary', assessed', touched', stamp')
    BY <1>1, KeptByOthers DEF SummaryInv
  <2> QED BY <2>1
<1>4. OrphansPend'
  <2> SUFFICES ASSUME NEW k \in Summaries!Coords, Orphaned(k)'
               PROVE  half'[k.group] >= emptied'[k] \/ \E d \in Callers : Pending(batch[d], k)'
    BY DEF OrphansPend
  <2>1. CASE /\ summary'[k] = summary[k] /\ emptied'[k] = emptied[k]
             /\ \A d \in Callers : Pending(batch[d], k) => batch'[d] = batch[d]
    <3>1. Orphaned(k)
      BY <2>1 DEF Orphaned
    <3>2. CASE half[k.group] >= emptied[k]
      BY <2>1, <3>2
    <3>3. ASSUME NEW d \in Callers, Pending(batch[d], k)
          PROVE  Pending(batch[d], k)'
      BY <2>1, <3>3 DEF Pending
    <3> QED BY <3>1, <3>2, <3>3 DEF SummaryInv, OrphansPend
  <2> QED BY <2>1
<1> QED BY <1>2, <1>3, <1>4 DEF SummaryInv

\* A request that has not begun.
LEMMA IdleWorking ==
    /\ Summaries!Idle \in Working
    /\ Summaries!Idle.at = "idle" /\ Summaries!Idle.kind = "none"
    /\ Summaries!Idle.result = "none" /\ Summaries!Idle.found = 0
    /\ Summaries!Idle.began = 0 /\ Summaries!Idle.seen = {}
    /\ Summaries!Idle.outcomes = <<>>
<1>1. <<>> \in Seq(Summaries!Coords) /\ <<>> \in Seq({"skipped", "existing", "created"})
  OBVIOUS
<1>2. "idle" \in Summaries!Places /\ "none" \in Summaries!Results
  BY DEF Summaries!Places, Summaries!Results
<1> QED BY <1>1, <1>2 DEF Summaries!Idle, Summaries!NoRow, Working

\* Initially there is no row and no request.
LEMMA SummaryInit == Summaries!Init => SummaryInv
<1> SUFFICES ASSUME Summaries!Init PROVE SummaryInv
  OBVIOUS
<1> DEFINE C == Summaries!Coords
           I == Summaries!Idle
<1>1. /\ now = 0 /\ stamp = 0
      /\ summary = [k \in C |-> 0] /\ assessed = [k \in C |-> 0]
      /\ touched = [k \in C |-> 0] /\ emptied = [k \in C |-> 0]
      /\ half = [g \in Scopes |-> 0] /\ batch = [c \in Callers |-> I]
  BY DEF Summaries!Init, Summaries!NoRow
<1>2. /\ I \in Working /\ I.at = "idle" /\ I.kind = "none" /\ I.result = "none"
      /\ I.found = 0 /\ I.began = 0 /\ I.seen = {}
  BY IdleWorking
<1> HIDE DEF C, I
<1>4. SummaryTypes
  BY <1>1, <1>2, BoundsAssumption DEF SummaryTypes, C
<1>5. \A S, A, T : Kept(I, S, A, T, 0)
  BY <1>2 DEF Kept, Placed, Timed, ResetSees, WriteSees, BatchDid
<1>6. OrphansPend
  BY <1>1 DEF OrphansPend, Orphaned, C
<1> QED BY <1>1, <1>4, <1>5, <1>6 DEF SummaryInv

\* What a request begins with.
Begun(b, kind, mode, todo) ==
    /\ b \in Working /\ b.at = "next" /\ b.kind = kind /\ b.mode = mode
    /\ b.todo = todo /\ b.now = now /\ b.began = stamp /\ b.found = 0
    /\ b.outcomes = <<>> /\ b.seen = {} /\ b.result = "none"

\* Every request begins with that.
LEMMA BeginsAre ==
    ASSUME SummaryTypes, NEW kind \in {"one", "batch", "reset"},
           NEW mode \in {"fill", "reeval"}, NEW todo \in Seq(Summaries!Coords)
    PROVE  Begun(Summaries!Begins(kind, mode, todo), kind, mode, todo)
<1> DEFINE idle == Summaries!Idle
           b == [idle EXCEPT !.at = "next", !.kind = kind, !.mode = mode, !.todo = todo,
                             !.now = now, !.began = stamp]
<1>1. Summaries!Begins(kind, mode, todo) = b
  BY DEF Summaries!Begins
<1>2. /\ now \in Nat /\ stamp \in Nat
      /\ "next" \in Summaries!Places
  BY BoundsAssumption DEF SummaryTypes, Summaries!Places
<1>3. idle \in Working /\ idle.found = 0 /\ idle.outcomes = <<>> /\ idle.seen = {}
      /\ idle.result = "none"
  BY IdleWorking
<1> HIDE DEF idle
<1>4. b \in Working
  BY <1>2, <1>3 DEF Working
<1>5. /\ b.at = "next" /\ b.kind = kind /\ b.mode = mode /\ b.todo = todo
      /\ b.now = now /\ b.began = stamp /\ b.found = idle.found
      /\ b.outcomes = idle.outcomes /\ b.seen = idle.seen /\ b.result = idle.result
  BY <1>3 DEF Working
<1> HIDE DEF b
<1> QED BY <1>1, <1>3, <1>4, <1>5 DEF Begun

\* A request that goes on with the coordinate in hand keeps what was kept.
LEMMA GoesKept ==
    ASSUME NEW old \in Working, NEW b \in Working,
           NEW S, NEW A, NEW T, NEW n \in Nat, Kept(old, S, A, T, n),
           old.at \in {"next", "narrating"}, b.at \in {"narrating", "writing"},
           old.todo # <<>>, b.kind = old.kind, b.todo = old.todo, b.now = old.now,
           b.began = old.began, b.outcomes = old.outcomes, b.seen = old.seen,
           b.result = old.result, b.found <= n,
           b.found # 0 => b.at = "writing" /\ b.mode = "reeval",
           b.at = "writing" => b.found = S[Head(b.todo)]
    PROVE  Kept(b, S, A, T, n)
<1>1. old.kind \in {"one", "batch"} /\ old.result = "none"
  BY DEF Kept, Placed
<1>2. Placed(b)
  BY <1>1 DEF Placed
<1>3. Timed(b, n)
  BY DEF Kept, Timed
<1>4. ResetSees(b, S, A) /\ WriteSees(b, S, T)
  BY <1>1 DEF ResetSees, WriteSees
<1>5. BatchDid(b, S, T)
  <2>1. \A i : Due(b, i) = Due(old, i)
    BY DEF Due
  <2> QED BY <2>1 DEF Kept, BatchDid
<1> QED BY <1>2, <1>3, <1>4, <1>5 DEF Kept

\* A step of one request that writes no row and is not amid a reset.
LEMMA SummariesGoOn ==
    ASSUME SummaryInv, NEW c \in Callers, NEW b \in Working,
           batch' = [batch EXCEPT ![c] = b], Kept(b, summary, assessed, touched, stamp),
           UNCHANGED <<now, summary, assessed, touched, emptied, stamp, half>>,
           batch[c].at # "summaries"
    PROVE  SummaryInv'
<1>1. now' \in 0..MaxNow /\ half' \in [Scopes -> 0..stamp] /\ stamp \in Nat
  BY BoundsAssumption DEF SummaryInv, SummaryTypes
<1>2. \A g \in Scopes : half[g] <= half'[g]
  BY <1>1
<1> QED BY <1>1, <1>2, SummariesAfterCall

\* A summary of one coordinate, a batch or a reset begins.
LEMMA BeginStep ==
    ASSUME SummaryInv, NEW c \in Callers,
           \/ \E k \in Summaries!Coords, mode \in {"fill", "reeval"} :
                 Summaries!Summarize(c, k, mode)
           \/ \E mode \in {"fill", "reeval"}, stray \in BOOLEAN :
                 Summaries!Batch(c, mode, stray)
           \/ \E g \in Scopes : Summaries!Reset(c, g)
    PROVE  SummaryInv'
<1>0. /\ SummaryTypes /\ stamp \in Nat /\ now \in 0..MaxNow
      /\ assessed \in [Summaries!Coords -> 0..stamp]
  BY BoundsAssumption DEF SummaryInv, SummaryTypes
<1>1. ASSUME NEW k \in Summaries!Coords, NEW mode \in {"fill", "reeval"},
             Summaries!Summarize(c, k, mode)
      PROVE  SummaryInv'
  <2> DEFINE b == Summaries!Begins("one", mode, <<k>>)
             C == Summaries!Coords
  <2>1. batch' = [batch EXCEPT ![c] = b] /\ batch[c].at = "idle"
        /\ UNCHANGED <<now, summary, assessed, touched, emptied, stamp, half>>
    BY <1>1 DEF Summaries!Summarize, Summaries!At, Summaries!rows
  <2>2. <<k>> \in Seq(C) /\ "one" \in {"one", "batch", "reset"}
    <3> HIDE DEF C
    <3>1. k \in C
      BY DEF C
    <3> QED BY <3>1
  <2>3. /\ b \in Working /\ b.at = "next" /\ b.kind = "one"
        /\ b.began = stamp /\ b.found = 0
        /\ b.seen = {} /\ b.result = "none"
    <3>1. Begun(Summaries!Begins("one", mode, <<k>>), "one", mode, <<k>>)
      BY <1>0, <2>2, BeginsAre
    <3> QED BY <3>1 DEF Begun
  <2> HIDE DEF b
  <2>4. Kept(b, summary, assessed, touched, stamp)
    BY <1>0, <2>3 DEF Kept, Placed, Timed, ResetSees, WriteSees, BatchDid
  <2> QED BY <2>1, <2>3, <2>4, SummariesGoOn
<1>2. ASSUME NEW mode \in {"fill", "reeval"}, NEW stray \in BOOLEAN,
             Summaries!Batch(c, mode, stray)
      PROVE  SummaryInv'
  <2>1. batch[c].at = "idle" /\ now > 0
        /\ UNCHANGED <<now, summary, assessed, touched, emptied, stamp, half>>
    BY <1>2 DEF Summaries!Batch, Summaries!At, Summaries!rows
  <2>2. CASE stray
    <3> DEFINE new == Summaries!Begins("batch", mode, <<>>)
               b == [new EXCEPT !.at = "answered", !.result = "refused"]
    <3>1. batch' = [batch EXCEPT ![c] = b]
      BY <1>2, <2>2 DEF Summaries!Batch
    <3>2. /\ new \in Working /\ new.kind = "batch" /\ new.began = stamp /\ new.found = 0
          /\ new.seen = {}
      <4>1. <<>> \in Seq(Summaries!Coords) /\ "batch" \in {"one", "batch", "reset"}
        OBVIOUS
      <4>2. Begun(Summaries!Begins("batch", mode, <<>>), "batch", mode, <<>>)
        BY <1>0, <4>1, BeginsAre
      <4> QED BY <4>2 DEF Begun
    <3> HIDE DEF new
    <3>3. b \in Working
      BY <3>2 DEF Working, Summaries!Places, Summaries!Results
    <3>4. /\ b.at = "answered" /\ b.kind = new.kind /\ b.began = new.began
          /\ b.found = new.found /\ b.seen = new.seen /\ b.result = "refused"
      BY <3>2 DEF Working
    <3> HIDE DEF b
    <3>5. Kept(b, summary, assessed, touched, stamp)
      BY <1>0, <3>2, <3>4 DEF Kept, Placed, Timed, ResetSees, WriteSees, BatchDid
    <3> QED BY <2>1, <3>1, <3>3, <3>5, SummariesGoOn
  <2>3. CASE ~stray
    <3> DEFINE due == Summaries!DueCoordinates(now)
               b == Summaries!Begins("batch", mode, due)
               l == Len(BatchOrder)
    <3>1. batch' = [batch EXCEPT ![c] = b]
      BY <1>2, <2>3 DEF Summaries!Batch
    <3>2. /\ due \in Seq(Summaries!Coords) /\ Len(due) = l /\ l \in Nat
          /\ \A j \in 1..l : due[j] = [group |-> BatchOrder[j], start |-> now - 1]
      <4>1. BatchOrder \in Seq(Scopes) /\ DOMAIN BatchOrder = 1..l /\ l \in Nat
        BY OrderAssumption
      <4>2. due = [j \in 1..l |-> [group |-> BatchOrder[j], start |-> now - 1]]
        BY <4>1 DEF Summaries!DueCoordinates, Summaries!DueStart
      <4>3. \A j \in 1..l : [group |-> BatchOrder[j], start |-> now - 1] \in Summaries!Coords
        <5>1. now - 1 \in 0..(MaxNow - 1)
          BY <1>0, <2>1, BoundsAssumption
        <5> QED BY <4>1, <5>1 DEF Summaries!Coords
      <4> DEFINE C == Summaries!Coords
      <4> HIDE DEF due, l, C
      <4>4. due \in [1..l -> C]
        BY <4>2, <4>3 DEF C
      <4>5. due \in Seq(C) /\ Len(due) = l
        BY <4>1, <4>4
      <4> QED BY <4>1, <4>2, <4>5 DEF C
    <3>3. /\ b \in Working /\ b.at = "next" /\ b.kind = "batch" /\ b.todo = due
          /\ b.now = now /\ b.began = stamp /\ b.found = 0 /\ b.outcomes = <<>>
          /\ b.seen = {} /\ b.result = "none"
      <4> HIDE DEF due
      <4>1. "batch" \in {"one", "batch", "reset"}
        OBVIOUS
      <4>2. Begun(Summaries!Begins("batch", mode, due), "batch", mode, due)
        BY <1>0, <3>2, <4>1, BeginsAre
      <4> QED BY <4>2 DEF Begun
    <3> HIDE DEF b, due, l
    <3>4. Len(b.outcomes) = 0 /\ \A j \in 1..l : 0 + j = j
      BY <3>2, <3>3
    <3>5. BatchDid(b, summary, touched)
      <4>1. \A j \in 1..l : b.todo[j] = Due(b, 0 + j)
        BY <3>2, <3>3, <3>4 DEF Due
      <4>2. b.now > 0 /\ b.now <= MaxNow /\ 0 + Len(b.todo) = l /\ 1..0 = {}
        BY <1>0, <2>1, <3>2, <3>3, BoundsAssumption
      <4> QED BY <3>2, <3>3, <3>4, <4>1, <4>2 DEF BatchDid, l
    <3>6. Kept(b, summary, assessed, touched, stamp)
      BY <1>0, <3>3, <3>5 DEF Kept, Placed, Timed, ResetSees, WriteSees
    <3> QED BY <2>1, <3>1, <3>3, <3>6, SummariesGoOn
  <2> QED BY <2>2, <2>3
<1>3. ASSUME NEW g \in Scopes, Summaries!Reset(c, g)
      PROVE  SummaryInv'
  <2> DEFINE first == [group |-> g, start |-> 0]
             C == Summaries!Coords
             new == Summaries!Begins("reset", "fill", <<first>>)
             found == Summaries!In(g, assessed)
             b == [new EXCEPT !.at = "assessments", !.seen = found]
  <2>1. batch' = [batch EXCEPT ![c] = b] /\ batch[c].at = "idle"
        /\ UNCHANGED <<now, summary, assessed, touched, emptied, stamp, half>>
    BY <1>3 DEF Summaries!Reset, Summaries!At, Summaries!rows
  <2>2. first \in C
    BY BoundsAssumption DEF Summaries!Coords
  <2>3. /\ new \in Working /\ new.kind = "reset" /\ new.todo = <<first>>
        /\ new.began = stamp /\ new.found = 0 /\ new.result = "none"
    <3> HIDE DEF first, C
    <3>1. <<first>> \in Seq(C) /\ "reset" \in {"one", "batch", "reset"}
          /\ "fill" \in {"fill", "reeval"}
      BY <2>2
    <3>2. Begun(Summaries!Begins("reset", "fill", <<first>>), "reset", "fill", <<first>>)
      BY <1>0, <3>1, BeginsAre DEF C
    <3> QED BY <3>2 DEF Begun
  <2>4. /\ found \subseteq [coord : C, row : 1..stamp]
        /\ \A s \in found : s.coord.group = g
        /\ \A k \in C : k.group = g /\ assessed[k] # 0 =>
              [coord |-> k, row |-> assessed[k]] \in found
    BY <1>0 DEF Summaries!In, Summaries!NoRow
  <2> HIDE DEF new, found, C
  <2>5. b \in Working
    <3>1. found \in SUBSET [coord : C, row : Nat]
      BY <1>0, <2>4
    <3> QED BY <2>3, <3>1 DEF Working, Summaries!Places, C
  <2>6. /\ b.at = "assessments" /\ b.kind = new.kind /\ b.todo = new.todo
        /\ b.began = new.began /\ b.found = new.found /\ b.seen = found
        /\ b.result = new.result
    BY <2>3 DEF Working
  <2>7. Head(b.todo) = first /\ first.group = g
    BY <2>3, <2>6
  <2> HIDE DEF b
  <2>8. Placed(b)
    BY <2>3, <2>4, <2>6, <2>7 DEF Placed
  <2>9. Timed(b, stamp) /\ ResetSees(b, summary, assessed)
    BY <1>0, <2>3, <2>4, <2>6, <2>7 DEF Timed, ResetSees, AllSeen, C
  <2>10. WriteSees(b, summary, touched) /\ BatchDid(b, summary, touched)
    BY <2>3, <2>6 DEF WriteSees, BatchDid
  <2>11. Kept(b, summary, assessed, touched, stamp)
    BY <2>8, <2>9, <2>10 DEF Kept
  <2> QED BY <2>1, <2>5, <2>11, SummariesGoOn
<1> QED BY <1>1, <1>2, <1>3

\* What every step starts from.
LEMMA SummaryBase ==
    ASSUME SummaryInv
    PROVE  /\ SummaryTypes /\ stamp \in Nat /\ batch \in [Callers -> Working]
           /\ summary \in [Summaries!Coords -> 0..stamp]
           /\ assessed \in [Summaries!Coords -> 0..stamp]
           /\ touched \in [Summaries!Coords -> 0..stamp]
           /\ emptied \in [Summaries!Coords -> 0..stamp]
           /\ \A c \in Callers : /\ batch[c] \in Working
                                 /\ Kept(batch[c], summary, assessed, touched, stamp)
                                 /\ Placed(batch[c])
BY BoundsAssumption DEF SummaryInv, SummaryTypes, Kept

\* A reset is of a scope.
LEMMA ResetIsOfScope ==
    ASSUME NEW b, Placed(b), b.kind = "reset"
    PROVE  Head(b.todo).group \in Scopes
<1>1. PICK g \in Scopes : b.todo = <<[group |-> g, start |-> 0]>>
  BY DEF Placed
<1> DEFINE first == [group |-> g, start |-> 0]
<1>2. first.group = g /\ b.todo = <<first>>
  BY <1>1
<1> HIDE DEF first
<1>3. Head(b.todo) = first
  BY <1>2
<1> QED BY <1>2, <1>3

\* The coordinate at the head of a batch is over, so it is not skipped.
LEMMA NothingIsSkipped ==
    ASSUME SummaryInv, NEW c \in Callers, batch[c].at = "next", batch[c].todo # <<>>,
           batch[c].kind = "batch"
    PROVE  Summaries!Evaluable(Head(batch[c].todo), batch[c].now)
<1> DEFINE b == batch[c]
           m == Len(b.outcomes)
           l == Len(b.todo)
<1>1. b \in Working /\ BatchDid(b, summary, touched) /\ b.result = "none"
  BY SummaryBase DEF Kept, Placed
<1>2. /\ b.now \in Nat /\ l \in Nat /\ l > 0 /\ Head(b.todo) = b.todo[1]
  BY <1>1, WorkingFacts
<1>3. Head(b.todo) = Due(b, m + 1)
  BY <1>1, <1>2 DEF BatchDid
<1> HIDE DEF b
<1>4. b.now >= (b.now - 1) + 1
  BY <1>2
<1> QED BY <1>3, <1>4 DEF Summaries!Evaluable, Due, b

\* The coordinate in hand is skipped or gets its narrative.
LEMMA EvaluateStep ==
    ASSUME SummaryInv, NEW c \in Callers, Summaries!Evaluate(c)
    PROVE  SummaryInv'
<1> DEFINE old == batch[c]
           b == [old EXCEPT !.at = "narrating"]
           over == Summaries!Evaluable(Head(old.todo), old.now)
<1>1. /\ old \in Working /\ old.at = "next" /\ old.todo # <<>> /\ stamp \in Nat
      /\ Kept(old, summary, assessed, touched, stamp)
      /\ UNCHANGED <<now, summary, assessed, touched, emptied, stamp, half>>
      /\ batch' = [batch EXCEPT ![c] = IF over THEN b ELSE Summaries!Notes(c, "skipped")]
  BY SummaryBase DEF Summaries!Evaluate, Summaries!At, Summaries!rows
<1>2. CASE over
  <2>1. batch' = [batch EXCEPT ![c] = b] /\ batch[c].at # "summaries"
    BY <1>1, <1>2
  <2> HIDE DEF old, over
  <2>2. b \in Working
    BY <1>1 DEF Working, Summaries!Places
  <2>3. /\ b.at = "narrating" /\ b.kind = old.kind /\ b.todo = old.todo /\ b.now = old.now
        /\ b.began = old.began /\ b.outcomes = old.outcomes /\ b.seen = old.seen
        /\ b.result = old.result /\ b.found = old.found
    BY <1>1 DEF Working
  <2> HIDE DEF b
  <2>4. b.found = 0
    BY <1>1, <2>3 DEF Kept, Placed
  <2>5. Kept(b, summary, assessed, touched, stamp)
    BY <1>1, <2>2, <2>3, <2>4, GoesKept
  <2> QED BY <1>1, <2>1, <2>2, <2>5, SummariesGoOn
<1>3. CASE ~over
  <2> DEFINE note == Summaries!Notes(c, "skipped")
  <2>1. batch' = [batch EXCEPT ![c] = note] /\ batch[c].at # "summaries"
    BY <1>1, <1>3
  <2>2. old.kind # "batch"
    BY <1>1, <1>3, NothingIsSkipped
  <2>3. Noted(old, note)
    BY <1>1, NotesAre
  <2> HIDE DEF old, over, note
  <2>4. Kept(note, summary, assessed, touched, stamp) /\ note \in Working
    BY <1>1, <2>2, <2>3, NoteKept DEF Noted
  <2> QED BY <1>1, <2>1, <2>4, SummariesGoOn
<1> QED BY <1>2, <1>3

\* A fill that finds a summary is done with it.
LEMMA FindExistingStep ==
    ASSUME SummaryInv, NEW c \in Callers, Summaries!FindExisting(c)
    PROVE  SummaryInv'
<1> DEFINE old == batch[c]
           row == summary[Head(old.todo)]
           b == [old EXCEPT !.at = "writing", !.found = row]
           exists == old.mode = "fill" /\ row # 0
<1>1. /\ old \in Working /\ old.at = "narrating" /\ stamp \in Nat
      /\ Kept(old, summary, assessed, touched, stamp)
      /\ old.todo # <<>> /\ old.mode \in {"fill", "reeval"}
      /\ UNCHANGED <<now, summary, assessed, touched, emptied, stamp, half>>
      /\ batch' = [batch EXCEPT ![c] = IF exists THEN Summaries!Notes(c, "existing") ELSE b]
  <2>1. /\ old \in Working /\ Placed(old) /\ stamp \in Nat
        /\ Kept(old, summary, assessed, touched, stamp)
    BY SummaryBase
  <2>2. old.at = "narrating"
        /\ UNCHANGED <<now, summary, assessed, touched, emptied, stamp, half>>
    BY DEF Summaries!FindExisting, Summaries!At, Summaries!rows
  <2>3. batch' = [batch EXCEPT ![c] = IF exists THEN Summaries!Notes(c, "existing") ELSE b]
    BY DEF Summaries!FindExisting, Summaries!NoRow
  <2> QED BY <2>1, <2>2, <2>3 DEF Placed, Working
<1>2. row \in 0..stamp
  <2>1. Head(old.todo) \in Summaries!Coords
    BY <1>1, WorkingFacts
  <2> QED BY <2>1, SummaryBase
<1>3. CASE exists
  <2> DEFINE note == Summaries!Notes(c, "existing")
  <2>1. batch' = [batch EXCEPT ![c] = note] /\ batch[c].at # "summaries"
    BY <1>1, <1>3
  <2>2. Noted(old, note)
    BY <1>1, NotesAre
  <2>3. summary[Head(old.todo)] # 0
    BY <1>3
  <2> HIDE DEF old, note, exists, row
  <2>4. Kept(note, summary, assessed, touched, stamp) /\ note \in Working
    BY <1>1, <2>2, <2>3, NoteKept DEF Noted
  <2> QED BY <1>1, <2>1, <2>4, SummariesGoOn
<1>4. CASE ~exists
  <2>1. batch' = [batch EXCEPT ![c] = b] /\ batch[c].at # "summaries"
    BY <1>1, <1>4
  <2>2. row # 0 => old.mode = "reeval"
    BY <1>1, <1>4
  <2>3. row = summary[Head(old.todo)]
    OBVIOUS
  <2> HIDE DEF old, row, exists
  <2>4. row \in Nat
    BY <1>1, <1>2
  <2>5. b \in Working
    BY <1>1, <2>4 DEF Working, Summaries!Places
  <2>6. /\ b.at = "writing" /\ b.kind = old.kind /\ b.todo = old.todo /\ b.now = old.now
        /\ b.began = old.began /\ b.outcomes = old.outcomes /\ b.seen = old.seen
        /\ b.result = old.result /\ b.found = row /\ b.mode = old.mode
    BY <1>1 DEF Working
  <2> HIDE DEF b
  <2>7. Kept(b, summary, assessed, touched, stamp)
    <3>1. b.found <= stamp
      BY <1>1, <1>2, <2>6
    <3> QED BY <1>1, <2>2, <2>3, <2>5, <2>6, <3>1, GoesKept
  <2> QED BY <1>1, <2>1, <2>5, <2>7, SummariesGoOn
<1> QED BY <1>3, <1>4

\* The last coordinate is done, or a call fails.
LEMMA EndStep ==
    ASSUME SummaryInv, NEW c \in Callers, Summaries!Finish(c) \/ Summaries!CallFails(c)
    PROVE  SummaryInv'
<1> DEFINE old == batch[c]
<1>0. /\ old \in Working /\ Placed(old) /\ stamp \in Nat /\ now \in 0..MaxNow
      /\ half \in [Scopes -> 0..stamp] /\ Kept(old, summary, assessed, touched, stamp)
  BY SummaryBase DEF SummaryTypes
<1>1. CASE Summaries!Finish(c)
  <2> DEFINE b == Summaries!Answers(c, "done")
  <2>1. /\ old.at = "next" /\ old.todo = <<>>
        /\ UNCHANGED <<now, summary, assessed, touched, emptied, stamp, half>>
        /\ batch' = [batch EXCEPT ![c] = b]
    BY <1>1 DEF Summaries!Finish, Summaries!At, Summaries!rows
  <2>2. AnswerOf(old, b, "done")
    BY <1>0, AnswersAre DEF Summaries!Results
  <2>3. old.kind # "reset"
    BY <1>0, <2>1 DEF Placed
  <2> HIDE DEF b
  <2>4. Kept(b, summary, assessed, touched, stamp) /\ b \in Working
    <3> HIDE DEF old
    <3> QED BY <1>0, <2>1, <2>2, <2>3, AnswerKept DEF AnswerOf
  <2> QED BY <1>0, <2>1, <2>4, SummariesGoOn
<1>2. CASE Summaries!CallFails(c)
  <2> DEFINE b == Summaries!Answers(c, "failed")
  <2>1. /\ old.at \in {"narrating", "writing", "assessments", "summaries"}
        /\ UNCHANGED <<now, summary, assessed, touched, emptied, stamp>>
        /\ batch' = [batch EXCEPT ![c] = b]
        /\ half' = IF old.at = "summaries"
                   THEN [half EXCEPT ![Head(old.todo).group] = stamp] ELSE half
    BY <1>2 DEF Summaries!CallFails, Summaries!At, Summaries!rows
  <2>2. AnswerOf(old, b, "failed")
    BY <1>0, AnswersAre DEF Summaries!Results
  <2>3. old.at = "summaries" => Head(old.todo).group \in Scopes
    <3>1. old.at = "summaries" => old.kind = "reset"
      BY <1>0 DEF Placed
    <3> QED BY <1>0, <3>1, ResetIsOfScope
  <2>4. /\ half' \in [Scopes -> 0..stamp] /\ \A g \in Scopes : half[g] <= half'[g]
        /\ old.at = "summaries" => half'[Head(old.todo).group] = stamp
    <3>1. stamp \in 0..stamp /\ \A g \in Scopes : half[g] <= stamp /\ half[g] \in Nat
      BY <1>0
    <3> HIDE DEF old
    <3>2. CASE old.at = "summaries"
      BY <1>0, <2>1, <2>3, <3>1, <3>2
    <3>3. CASE old.at # "summaries"
      BY <1>0, <2>1, <3>1, <3>3
    <3> QED BY <3>2, <3>3
  <2> HIDE DEF b
  <2>5. Kept(b, summary, assessed, touched, stamp) /\ b \in Working
    <3> HIDE DEF old
    <3> QED BY <1>0, <2>1, <2>2, AnswerKept DEF AnswerOf
  <2> QED BY <1>0, <2>1, <2>4, <2>5, SummariesAfterCall
<1> QED BY <1>1, <1>2

\* A commit of reset c removes the rows it has seen and still finds.
LEMMA HitAre ==
    ASSUME NEW c \in Callers, NEW table, NEW k \in Summaries!Coords,
           [coord |-> k, row |-> table[k]] \in batch[c].seen
    PROVE  k \in Summaries!Hit(c, table)
BY DEF Summaries!Hit

\* What a commit of reset c leaves of a table.
LEMMA RemovalOf ==
    ASSUME NEW gone, NEW table
    PROVE  /\ Summaries!Without(table, gone)
                 = [k \in Summaries!Coords |-> IF k \in gone THEN 0 ELSE table[k]]
           /\ Summaries!Stamped(table, gone)
                 = [k \in Summaries!Coords |-> IF k \in gone THEN stamp + 1 ELSE table[k]]
BY DEF Summaries!Without, Summaries!Stamped, Summaries!NoRow

\* The row a request has read is replaced, or it is refused because the row
\* has changed.
LEMMA WriteStep ==
    ASSUME SummaryInv, NEW c \in Callers, Summaries!Write(c)
    PROVE  SummaryInv'
<1> DEFINE old == batch[c]
           k == Head(old.todo)
<1>0. /\ old \in Working /\ Placed(old) /\ stamp \in Nat /\ old.at = "writing"
      /\ Kept(old, summary, assessed, touched, stamp) /\ old.todo # <<>>
      /\ k \in Summaries!Coords /\ old.result = "none"
  <2>1. /\ old \in Working /\ Placed(old) /\ stamp \in Nat
        /\ Kept(old, summary, assessed, touched, stamp)
    BY SummaryBase
  <2>2. old.at = "writing"
    BY DEF Summaries!Write, Summaries!At
  <2>3. old.todo # <<>> /\ old.result = "none"
    BY <2>1, <2>2 DEF Placed
  <2> QED BY <2>1, <2>2, <2>3, WorkingFacts
<1>1. CASE summary[k] # old.found
  <2> DEFINE result == IF old.found = 0 THEN "conflict" ELSE "recordGone"
             b == Summaries!Answers(c, result)
  <2>1. /\ UNCHANGED <<now, summary, assessed, touched, emptied, stamp, half>>
        /\ batch' = [batch EXCEPT ![c] = b]
    BY <1>1 DEF Summaries!Write, Summaries!rows, Summaries!NoRow
  <2>2. result \in Summaries!Results /\ result \in {"conflict", "recordGone"}
    BY DEF Summaries!Results
  <2> HIDE DEF result
  <2>3. AnswerOf(old, b, result)
    BY <1>0, <2>2, AnswersAre
  <2>4. touched[Head(old.todo)] > old.began
    BY <1>0, <1>1 DEF Kept, WriteSees
  <2> HIDE DEF b
  <2>5. Kept(b, summary, assessed, touched, stamp) /\ b \in Working
    <3> HIDE DEF old, k
    <3> QED BY <1>0, <2>2, <2>3, <2>4, AnswerKept DEF AnswerOf
  <2>6. batch[c].at # "summaries"
    BY <1>0
  <2> QED BY <1>0, <2>1, <2>5, <2>6, SummariesGoOn
<1>2. CASE summary[k] = old.found
  <2> DEFINE b == Summaries!Notes(c, "created")
  <2>1. /\ stamp < MaxStamp /\ stamp' = stamp + 1
        /\ summary' = [summary EXCEPT ![k] = stamp + 1]
        /\ touched' = [touched EXCEPT ![k] = stamp + 1]
        /\ batch' = [batch EXCEPT ![c] = b]
        /\ UNCHANGED <<now, assessed, emptied, half>>
    BY <1>2 DEF Summaries!Write
  <2>2. Noted(old, b)
    BY <1>0, NotesAre
  <2> HIDE DEF k, b
  <2>3. /\ summary' \in [Summaries!Coords -> 0..stamp']
        /\ assessed' \in [Summaries!Coords -> 0..stamp']
        /\ touched' \in [Summaries!Coords -> 0..stamp']
        /\ emptied' \in [Summaries!Coords -> 0..stamp']
    <3>1. 0..stamp \subseteq 0..stamp' /\ stamp + 1 \in 0..stamp'
      BY <1>0, <2>1
    <3> QED BY <2>1, <3>1, SummaryBase
  <2>4. RowsMove
    <3>1. \A j \in Summaries!Coords :
             /\ summary'[j] = IF j = k THEN stamp + 1 ELSE summary[j]
             /\ touched'[j] = IF j = k THEN stamp + 1 ELSE touched[j]
      BY <2>1, SummaryBase
    <3> QED BY <2>1, <3>1 DEF RowsMove
  <2>5. Kept(b, summary', assessed', touched', stamp')
    <3>1. Kept(old, summary', assessed', touched', stamp')
      BY <1>0, <2>4, KeptByOthers, SummaryBase
    <3>2. summary'[Head(old.todo)] # 0 /\ stamp' \in Nat
      BY <1>0, <2>1, SummaryBase DEF k
    <3> HIDE DEF old
    <3> QED BY <1>0, <2>2, <3>1, <3>2, NoteKept
  <2>6. batch' \in [Callers -> Working]
    BY <2>1, <2>2, SummaryBase DEF Noted
  <2>7. \A d \in Callers : batch'[d] = batch[d] \/ Kept(batch'[d], summary', assessed', touched', stamp')
    BY <2>1, <2>5, SummaryBase
  <2>8. ASSUME NEW j \in Summaries!Coords, Orphaned(j)'
        PROVE  /\ summary'[j] = summary[j] /\ emptied'[j] = emptied[j]
               /\ \A d \in Callers : Pending(batch[d], j) => batch'[d] = batch[d]
    <3>1. emptied[j] <= stamp /\ emptied[j] \in Nat
      BY <1>0, SummaryBase
    <3>2. j # k
      <4>1. summary'[k] = stamp + 1 /\ emptied' = emptied
        BY <1>0, <2>1, SummaryBase DEF k
      <4> QED BY <1>0, <2>8, <3>1, <4>1 DEF Orphaned
    <3>3. \A d \in Callers : d # c => batch'[d] = batch[d]
      BY <2>1, SummaryBase
    <3> QED BY <1>0, <2>1, <3>2, <3>3, SummaryBase DEF Pending
  <2> QED BY <2>1, <2>3, <2>4, <2>6, <2>7, <2>8, SummariesAfterCommit
<1> QED BY <1>1, <1>2

\* Assessments are stored: no summary changes.
LEMMA AssessStep ==
    ASSUME SummaryInv, NEW k \in Summaries!Coords, Summaries!Assess(k)
    PROVE  SummaryInv'
<1>1. /\ stamp < MaxStamp /\ stamp' = stamp + 1 /\ stamp \in Nat
      /\ assessed' = [assessed EXCEPT ![k] = stamp + 1]
      /\ UNCHANGED <<now, summary, batch, touched, emptied, half>>
  BY SummaryBase DEF Summaries!Assess
<1>2. /\ summary' \in [Summaries!Coords -> 0..stamp']
      /\ assessed' \in [Summaries!Coords -> 0..stamp']
      /\ touched' \in [Summaries!Coords -> 0..stamp']
      /\ emptied' \in [Summaries!Coords -> 0..stamp']
      /\ batch' \in [Callers -> Working]
  <2>1. 0..stamp \subseteq 0..stamp' /\ stamp + 1 \in 0..stamp'
    BY <1>1
  <2> QED BY <1>1, <2>1, SummaryBase
<1>3. RowsMove
  <2>1. \A j \in Summaries!Coords : assessed'[j] = IF j = k THEN stamp + 1 ELSE assessed[j]
    BY <1>1, SummaryBase
  <2> QED BY <1>1, <2>1 DEF RowsMove
<1> QED BY <1>1, <1>2, <1>3, SummariesAfterCommit

\* What a reset has seen and still finds is what it removes: of the rows that
\* were there when it began none is left.
LEMMA RemovedAreGone ==
    ASSUME NEW c \in Callers, NEW table, NEW after, batch[c].began \in Nat,
           \A k \in Summaries!Coords : table[k] \in Nat,
           after = Summaries!Without(table, Summaries!Hit(c, table)),
           AllSeen(batch[c], table)
    PROVE  AllGone(batch[c], after)
<1> SUFFICES ASSUME NEW k \in Summaries!Coords, k.group = Head(batch[c].todo).group,
                    after[k] # 0, ~(after[k] > batch[c].began)
             PROVE  FALSE
  BY DEF AllGone
<1>1. k \notin Summaries!Hit(c, table) /\ after[k] = table[k]
  BY RemovalOf
<1>2. table[k] # 0 /\ table[k] <= batch[c].began
  BY <1>1
<1>3. [coord |-> k, row |-> table[k]] \in batch[c].seen
  BY <1>2 DEF AllSeen
<1> QED BY <1>1, <1>3, HitAre

\* The assessments go: the summaries of the group are orphans until the second
\* commit, which has seen them all.
LEMMA DeleteAssessmentsStep ==
    ASSUME SummaryInv, NEW c \in Callers, Summaries!DeleteAssessments(c)
    PROVE  SummaryInv'
<1> DEFINE old == batch[c]
           g == Head(old.todo).group
           C == Summaries!Coords
           gone == Summaries!Hit(c, assessed)
           found == Summaries!In(g, summary)
           b == [old EXCEPT !.at = "summaries", !.seen = found]
<1>1. /\ old \in Working /\ Placed(old) /\ stamp \in Nat /\ old.at = "assessments"
      /\ Kept(old, summary, assessed, touched, stamp) /\ old.kind = "reset"
      /\ old.result = "none" /\ old.began \in Nat /\ old.began <= stamp
  <2>1. /\ old \in Working /\ Placed(old) /\ stamp \in Nat
        /\ Kept(old, summary, assessed, touched, stamp)
    BY SummaryBase
  <2>2. old.at = "assessments"
    BY DEF Summaries!DeleteAssessments, Summaries!At
  <2> QED BY <2>1, <2>2, WorkingFacts DEF Placed, Kept, Timed
<1>2. /\ stamp < MaxStamp /\ stamp' = stamp + 1
      /\ assessed' = Summaries!Without(assessed, gone)
      /\ emptied' = Summaries!Stamped(emptied, gone)
      /\ UNCHANGED <<now, summary, touched, half>>
      /\ batch' = [batch EXCEPT ![c] = b]
  <2>1. [batch EXCEPT ![c].at = "summaries", ![c].seen = found] = [batch EXCEPT ![c] = b]
    BY SummaryBase
  <2> HIDE DEF b
  <2> QED BY <2>1 DEF Summaries!DeleteAssessments
<1>3. \A k \in C : /\ assessed'[k] = IF k \in gone THEN 0 ELSE assessed[k]
                   /\ emptied'[k] = IF k \in gone THEN stamp + 1 ELSE emptied[k]
  BY <1>2, RemovalOf
<1>4. /\ found \subseteq [coord : C, row : 1..stamp]
      /\ \A s \in found : s.coord.group = g
      /\ \A k \in C : k.group = g /\ summary[k] # 0 =>
            [coord |-> k, row |-> summary[k]] \in found
  BY SummaryBase DEF Summaries!In, Summaries!NoRow
<1>5. \A k \in gone : k.group = g
  BY <1>1 DEF Placed, Summaries!Hit
<1>6. /\ b \in Working /\ b.at = "summaries" /\ b.kind = old.kind /\ b.todo = old.todo
      /\ b.began = old.began /\ b.found = old.found /\ b.seen = found
      /\ b.result = old.result
  <2> HIDE DEF old, found, C
  <2>1. found \in SUBSET [coord : C, row : Nat]
    BY <1>1, <1>4
  <2>2. b \in Working
    BY <1>1, <2>1 DEF Working, Summaries!Places, C
  <2>3. /\ b.at = "summaries" /\ b.kind = old.kind /\ b.todo = old.todo
        /\ b.began = old.began /\ b.found = old.found /\ b.seen = found
        /\ b.result = old.result
    BY <1>1 DEF Working
  <2> QED BY <2>2, <2>3
<1>7. AllGone(old, assessed')
  <2>1. AllSeen(old, assessed) /\ \A k \in Summaries!Coords : assessed[k] \in Nat
    BY <1>1, SummaryBase DEF Kept, ResetSees
  <2> QED BY <1>1, <1>2, <2>1, RemovedAreGone
<1>8. /\ summary' \in [C -> 0..stamp'] /\ assessed' \in [C -> 0..stamp']
      /\ touched' \in [C -> 0..stamp'] /\ emptied' \in [C -> 0..stamp']
      /\ batch' \in [Callers -> Working]
  <2>1. /\ 0..stamp \subseteq 0..stamp' /\ stamp + 1 \in 0..stamp' /\ 0 \in 0..stamp'
    BY <1>1, <1>2
  <2>2. assessed' \in [C -> 0..stamp']
    BY <1>2, <2>1, RemovalOf, SummaryBase
  <2>3. emptied' \in [C -> 0..stamp']
    BY <1>2, <2>1, RemovalOf, SummaryBase
  <2>4. batch' \in [Callers -> Working]
    <3> HIDE DEF b
    <3> QED BY <1>2, <1>6, SummaryBase
  <2> QED BY <1>2, <2>1, <2>2, <2>3, <2>4, SummaryBase
<1> HIDE DEF b, found, gone
<1>9. RowsMove
  BY <1>2, <1>3 DEF RowsMove
<1>10. Kept(b, summary', assessed', touched', stamp')
  <2>1. Placed(b)
    BY <1>1, <1>4, <1>6 DEF Placed
  <2>2. Timed(b, stamp')
    <3>1. [coord : C, row : 1..stamp] \subseteq [coord : C, row : 1..stamp']
      BY <1>1, <1>2
    <3>2. old.found <= stamp /\ old.found \in Nat
      BY <1>1, WorkingFacts DEF Kept, Timed
    <3>3. b.began <= stamp' /\ b.found <= stamp'
      BY <1>1, <1>2, <1>6, <3>2
    <3> QED BY <1>4, <1>6, <3>1, <3>3 DEF Timed
  <2>3. ResetSees(b, summary', assessed')
    <3>1. AllGone(b, assessed')
      BY <1>6, <1>7 DEF AllGone
    <3>2. AllSeen(b, summary')
      BY <1>2, <1>4, <1>6 DEF AllSeen
    <3> QED BY <1>1, <1>6, <3>1, <3>2 DEF ResetSees
  <2>4. WriteSees(b, summary', touched') /\ BatchDid(b, summary', touched')
    BY <1>1, <1>6 DEF WriteSees, BatchDid
  <2> QED BY <2>1, <2>2, <2>3, <2>4 DEF Kept
<1>11. \A d \in Callers : batch'[d] = batch[d] \/ Kept(batch'[d], summary', assessed', touched', stamp')
  BY <1>2, <1>10, SummaryBase
<1>12. ASSUME NEW k \in Summaries!Coords, Orphaned(k)'
       PROVE  \/ /\ summary'[k] = summary[k] /\ emptied'[k] = emptied[k]
                 /\ \A d \in Callers : Pending(batch[d], k) => batch'[d] = batch[d]
              \/ \E d \in Callers : Pending(batch[d], k)'
  <2>1. CASE k \in gone
    <3>1. summary[k] # 0 /\ summary' = summary
      BY <1>2, <1>12 DEF Orphaned
    <3>2. batch'[c] = b
      BY <1>2, SummaryBase
    <3>3. Pending(batch[c], k)'
      BY <1>4, <1>5, <1>6, <2>1, <3>1, <3>2 DEF Pending
    <3> QED BY <3>3
  <2>2. CASE k \notin gone
    <3>1. \A d \in Callers : d # c => batch'[d] = batch[d]
      BY <1>2, SummaryBase
    <3>2. ~Pending(batch[c], k)
      BY <1>1 DEF Pending
    <3> QED BY <1>2, <1>3, <2>2, <3>1, <3>2
  <2> QED BY <2>1, <2>2
<1> QED BY <1>2, <1>8, <1>9, <1>11, <1>12, SummariesAfterCommit

\* The summaries go: none that was there when the reset began is left.
LEMMA DeleteSummariesStep ==
    ASSUME SummaryInv, NEW c \in Callers, Summaries!DeleteSummaries(c)
    PROVE  SummaryInv'
<1> DEFINE old == batch[c]
           C == Summaries!Coords
           gone == Summaries!Hit(c, summary)
           b == Summaries!Answers(c, "done")
<1>1. /\ old \in Working /\ Placed(old) /\ stamp \in Nat /\ old.at = "summaries"
      /\ Kept(old, summary, assessed, touched, stamp) /\ old.kind = "reset"
      /\ old.began \in Nat
  <2>1. /\ old \in Working /\ Placed(old) /\ stamp \in Nat
        /\ Kept(old, summary, assessed, touched, stamp)
    BY SummaryBase
  <2>2. old.at = "summaries"
    BY DEF Summaries!DeleteSummaries, Summaries!At
  <2> QED BY <2>1, <2>2, WorkingFacts DEF Placed
<1>2. /\ stamp < MaxStamp /\ stamp' = stamp + 1
      /\ summary' = Summaries!Without(summary, gone)
      /\ touched' = Summaries!Stamped(touched, gone)
      /\ UNCHANGED <<now, assessed, emptied, half>>
      /\ batch' = [batch EXCEPT ![c] = b]
  BY DEF Summaries!DeleteSummaries
<1>3. \A k \in C : /\ summary'[k] = IF k \in gone THEN 0 ELSE summary[k]
                   /\ touched'[k] = IF k \in gone THEN stamp + 1 ELSE touched[k]
  BY <1>2, RemovalOf
<1>4. AnswerOf(old, b, "done")
  BY <1>1, AnswersAre DEF Summaries!Results
<1> HIDE DEF b
<1>5. AllGone(old, summary')
  <2>1. AllSeen(old, summary) /\ \A k \in Summaries!Coords : summary[k] \in Nat
    BY <1>1, SummaryBase DEF Kept, ResetSees
  <2> QED BY <1>1, <1>2, <2>1, RemovedAreGone
<1>6. /\ summary' \in [C -> 0..stamp'] /\ assessed' \in [C -> 0..stamp']
      /\ touched' \in [C -> 0..stamp'] /\ emptied' \in [C -> 0..stamp']
      /\ batch' \in [Callers -> Working]
  <2>1. /\ 0..stamp \subseteq 0..stamp' /\ stamp + 1 \in 0..stamp' /\ 0 \in 0..stamp'
    BY <1>1, <1>2
  <2>2. summary' \in [C -> 0..stamp']
    BY <1>2, <2>1, RemovalOf, SummaryBase
  <2>3. touched' \in [C -> 0..stamp']
    BY <1>2, <2>1, RemovalOf, SummaryBase
  <2>4. batch' \in [Callers -> Working]
    BY <1>2, <1>4, SummaryBase DEF AnswerOf
  <2> QED BY <1>2, <2>1, <2>2, <2>3, <2>4, SummaryBase
<1>7. RowsMove
  <2> HIDE DEF gone
  <2> QED BY <1>2, <1>3 DEF RowsMove
<1>8. Kept(b, summary', assessed', touched', stamp')
  <2>1. Kept(old, summary', assessed', touched', stamp')
    BY <1>1, <1>7, KeptByOthers, SummaryBase
  <2>2. AllGone(old, assessed')
    BY <1>1, <2>1 DEF Kept, ResetSees
  <2>3. stamp' \in Nat
    BY <1>1, <1>2
  <2> HIDE DEF old
  <2> QED BY <1>1, <1>4, <1>5, <2>1, <2>2, <2>3, AnswerKept
<1>9. \A d \in Callers : batch'[d] = batch[d] \/ Kept(batch'[d], summary', assessed', touched', stamp')
  BY <1>2, <1>8, SummaryBase
<1>10. ASSUME NEW k \in Summaries!Coords, Orphaned(k)'
       PROVE  /\ summary'[k] = summary[k] /\ emptied'[k] = emptied[k]
              /\ \A d \in Callers : Pending(batch[d], k) => batch'[d] = batch[d]
  <2>1. k \notin gone /\ summary'[k] = summary[k]
    <3> HIDE DEF gone
    <3> QED BY <1>3, <1>10 DEF Orphaned
  <2>2. ~Pending(batch[c], k)
    BY <2>1, HitAre DEF Pending
  <2>3. \A d \in Callers : d # c => batch'[d] = batch[d]
    BY <1>2, SummaryBase
  <2> QED BY <1>2, <2>1, <2>2, <2>3
<1> QED BY <1>2, <1>6, <1>7, <1>9, <1>10, SummariesAfterCommit

\* Every step of the component keeps its invariant.
LEMMA SummaryStep == SummaryInv /\ [Summaries!Next]_(Summaries!vars) => SummaryInv'
<1> SUFFICES ASSUME SummaryInv, [Summaries!Next]_(Summaries!vars) PROVE SummaryInv'
  OBVIOUS
<1>1. ASSUME NEW c \in Callers,
             \/ Summaries!Evaluate(c) \/ Summaries!FindExisting(c) \/ Summaries!Write(c)
             \/ Summaries!Finish(c) \/ Summaries!CallFails(c)
             \/ Summaries!DeleteAssessments(c) \/ Summaries!DeleteSummaries(c)
      PROVE  SummaryInv'
  BY <1>1, EvaluateStep, FindExistingStep, WriteStep, EndStep, DeleteAssessmentsStep,
     DeleteSummariesStep
<1>2. ASSUME now' \in 0..MaxNow,
             UNCHANGED <<summary, assessed, batch, touched, emptied, stamp, half>>
      PROVE  SummaryInv'
  <2>1. SummaryTypes'
    BY <1>2 DEF SummaryInv, SummaryTypes
  <2>2. \A c \in Callers : Kept(batch'[c], summary', assessed', touched', stamp')
    BY <1>2 DEF SummaryInv
  <2>3. OrphansPend'
    BY <1>2 DEF SummaryInv, OrphansPend, Orphaned, Pending
  <2> QED BY <2>1, <2>2, <2>3 DEF SummaryInv
<1>3. CASE Summaries!PeriodEnds \/ UNCHANGED Summaries!vars
  <2>1. UNCHANGED <<summary, assessed, batch, touched, emptied, stamp, half>>
    BY <1>3 DEF Summaries!PeriodEnds, Summaries!vars, Summaries!rows
  <2>2. now' \in 0..MaxNow
    BY <1>3, SummaryBase, BoundsAssumption
    DEF Summaries!PeriodEnds, Summaries!vars, SummaryTypes
  <2> QED BY <1>2, <2>1, <2>2
<1> QED BY <1>1, <1>3, BeginStep, AssessStep DEF Summaries!Next

\* Every run of the component keeps its invariant.
LEMMA SummariesAlways == Spec => []SummaryInv
<1>1. Summaries!Spec => []SummaryInv
  BY SummaryInit, SummaryStep, PTL DEF Summaries!Spec
<1> QED BY <1>1, RunsOfSummaries

\* The invariant has the types and says what callers are told.
LEMMA SummaryFacts ==
    SummaryInv => /\ Summaries!TypeOK
                  /\ Summaries!OrphanOnlyAfterHalfReset
                  /\ Summaries!ResetClears
                  /\ Summaries!ErrorsHaveRivals
                  /\ Summaries!BatchCoversRoster
<1> SUFFICES ASSUME SummaryInv
             PROVE  /\ Summaries!TypeOK
                    /\ Summaries!OrphanOnlyAfterHalfReset
                    /\ Summaries!ResetClears
                    /\ Summaries!ErrorsHaveRivals
                    /\ Summaries!BatchCoversRoster
  OBVIOUS
<1>1. Summaries!TypeOK
  <2>1. \A c \in Callers :
           /\ batch[c].at \in Summaries!Places /\ batch[c].result \in Summaries!Results
           /\ batch[c].todo \in Seq(Summaries!Coords)
           /\ batch[c].found \in 0..stamp /\ batch[c].began \in 0..stamp
           /\ batch[c].seen \subseteq [coord : Summaries!Coords, row : 1..stamp]
    BY SummaryBase, WorkingFacts DEF Kept, Timed, Working
  <2>2. /\ summary \in [Summaries!Coords -> 0..MaxStamp]
        /\ assessed \in [Summaries!Coords -> 0..MaxStamp]
        /\ touched \in [Summaries!Coords -> 0..MaxStamp]
        /\ emptied \in [Summaries!Coords -> 0..MaxStamp]
        /\ half \in [Scopes -> 0..MaxStamp]
    <3>1. 0..stamp \subseteq 0..MaxStamp
      BY SummaryBase, BoundsAssumption DEF SummaryTypes
    <3> QED BY <3>1, SummaryBase DEF SummaryTypes
  <2>3. now \in 0..MaxNow /\ stamp \in 0..MaxStamp
    BY SummaryBase DEF SummaryTypes
  <2> QED BY <2>1, <2>2, <2>3 DEF Summaries!TypeOK
<1>2. Summaries!OrphanOnlyAfterHalfReset
  BY DEF SummaryInv, OrphansPend, Orphaned, Pending, Summaries!OrphanOnlyAfterHalfReset,
         Summaries!Resetting, Summaries!At, Summaries!NoRow
<1>3. Summaries!ResetClears
  BY SummaryBase DEF Kept, ResetSees, AllGone, Summaries!ResetClears, Summaries!NoRow
<1>4. Summaries!ErrorsHaveRivals
  BY SummaryBase DEF Kept, WriteSees, Summaries!ErrorsHaveRivals
<1>5. Summaries!BatchCoversRoster
  <2> SUFFICES ASSUME NEW c \in Callers, batch[c].kind = "batch",
                      batch[c].result \notin {"none", "refused"}
               PROVE  /\ batch[c].result = "done" =>
                            Len(batch[c].outcomes) = Len(BatchOrder)
                      /\ \A i \in 1..Len(batch[c].outcomes) :
                            \/ summary[Due(batch[c], i)] # 0
                            \/ touched[Due(batch[c], i)] > batch[c].began
    BY DEF Summaries!BatchCoversRoster, Due, Summaries!NoRow
  <2> DEFINE b == batch[c]
  <2>1. b \in Working /\ BatchDid(b, summary, touched)
    BY SummaryBase DEF Kept
  <2>2. b.todo = <<>> => Len(b.todo) = 0
    OBVIOUS
  <2>3. Len(b.outcomes) \in Nat
    BY <2>1, WorkingFacts
  <2> HIDE DEF b
  <2>4. /\ b.result = "done" => Len(b.outcomes) = Len(BatchOrder)
        /\ \A i \in 1..Len(b.outcomes) :
              summary[Due(b, i)] # 0 \/ touched[Due(b, i)] > b.began
    <3>1. b.kind = "batch" /\ b.result # "refused"
      BY DEF b
    <3>2. /\ Len(b.outcomes) + Len(b.todo) = Len(BatchOrder)
          /\ \A i \in 1..Len(b.outcomes) :
                summary[Due(b, i)] # 0 \/ touched[Due(b, i)] > b.began
          /\ b.result = "done" => b.todo = <<>>
      BY <2>1, <3>1 DEF BatchDid
    <3>3. b.result = "done" => Len(b.outcomes) = Len(BatchOrder)
      BY <2>2, <2>3, <3>2
    <3> QED BY <3>2, <3>3
  <2> QED BY <2>4 DEF b
<1> QED BY <1>1, <1>2, <1>3, <1>4, <1>5

\* A summary goes only to a reset of its group, or to a reeval that puts
\* another one in its place.
LEMMA SummariesStay ==
    ASSUME SummaryInv, [Summaries!Next]_(Summaries!vars)
    PROVE  Summaries!SummariesSurvive
<1> SUFFICES ASSUME NEW k \in Summaries!Coords, summary[k] # 0, summary'[k] # summary[k]
             PROVE  \E c \in Callers :
                       \/ batch[c].at = "summaries" /\ Head(batch[c].todo).group = k.group
                       \/ /\ batch[c].at = "writing" /\ batch[c].mode = "reeval"
                          /\ summary'[k] # 0
  BY DEF Summaries!SummariesSurvive, Summaries!Resetting, Summaries!At, Summaries!NoRow
<1>1. PICK c \in Callers : Summaries!Write(c) \/ Summaries!DeleteSummaries(c)
  BY DEF Summaries!Next, Summaries!vars, Summaries!rows, Summaries!Summarize,
         Summaries!Batch, Summaries!Reset, Summaries!Evaluate, Summaries!FindExisting,
         Summaries!Finish, Summaries!DeleteAssessments, Summaries!CallFails,
         Summaries!Assess, Summaries!PeriodEnds
<1>2. Placed(batch[c]) /\ stamp \in Nat
  BY SummaryBase
<1>3. CASE Summaries!Write(c)
  <2> DEFINE j == Head(batch[c].todo)
  <2>1. /\ batch[c].at = "writing" /\ summary[j] = batch[c].found
        /\ summary' = [summary EXCEPT ![j] = stamp + 1]
    BY <1>3 DEF Summaries!Write, Summaries!At, Summaries!rows
  <2> HIDE DEF j
  <2>2. j = k /\ summary'[k] = stamp + 1
    BY <2>1, SummaryBase
  <2>3. batch[c].mode = "reeval" /\ summary'[k] # 0
    BY <1>2, <2>1, <2>2 DEF Placed
  <2> QED BY <2>1, <2>3
<1>4. CASE Summaries!DeleteSummaries(c)
  <2>1. /\ batch[c].at = "summaries"
        /\ summary' = Summaries!Without(summary, Summaries!Hit(c, summary))
    BY <1>4 DEF Summaries!DeleteSummaries, Summaries!At
  <2>2. k \in Summaries!Hit(c, summary)
    BY <2>1, RemovalOf
  <2>3. PICK s \in batch[c].seen : s.coord = k /\ summary[k] = s.row
    BY <2>2 DEF Summaries!Hit
  <2>4. k.group = Head(batch[c].todo).group
    BY <1>2, <2>1, <2>3 DEF Placed
  <2> QED BY <2>1, <2>4
<1> QED BY <1>1, <1>3, <1>4

------------------------------------------------------------------------------
(* The theorems: the properties of all scenes. *)

Scenes == {"summaries", "identities", "accounts", "providers", "people", "access"}

AllInvs ==
    /\ scene \in Scenes
    /\ AccessInv /\ PeopleInv /\ ProviderInv /\ AccountInv /\ IdentityInv /\ SummaryInv

\* A run of Records keeps its scene and the invariant of every component.
LEMMA AllAlways == Spec => []AllInvs
<1>1. Init => scene \in Scenes
  BY DEF Init, Scenes
<1>2. scene \in Scenes /\ [Next]_vars => (scene \in Scenes)'
  BY DEF Next, vars
<1>3. Spec => [](scene \in Scenes)
  BY <1>1, <1>2, PTL DEF Spec
<1> QED
  BY <1>3, AccessAlways, PeopleAlways, ProvidersAlways, AccountsAlways,
     IdentitiesAlways, SummariesAlways, PTL DEF AllInvs

\* Records: the variables of every component have their types, whatever the
\* number of requests, rows and bounds.
THEOREM RecordsTypes == Spec => []TypesOK
<1>1. AllInvs => TypesOK
  <2> SUFFICES ASSUME AllInvs PROVE TypesOK
    OBVIOUS
  <2>1. /\ Summaries!TypeOK /\ Identities!TypeOK /\ Accounts!TypeOK
        /\ Providers!TypeOK /\ People!TypeOK /\ Access!TypeOK
    BY AccessFacts, PeopleFacts, ProviderFacts, AccountFacts, IdentityFacts, SummaryFacts
    DEF AllInvs
  <2>2. scene \in Scenes
    BY DEF AllInvs
  <2> QED BY <2>1, <2>2 DEF TypesOK, Scenes
<1> QED BY <1>1, AllAlways, PTL

\* SummaryBatches: a summary whose assessments were removed is there only amid
\* a reset or after one failed half way; a reset that answers leaves nothing
\* that was there when it began; a conflict has a rival; a batch that answers
\* has dealt with the whole roster.
THEOREM SummariesAsTold == Spec => []SummariesAreAsTold
<1>1. AllInvs => SummariesAreAsTold
  BY SummaryFacts DEF AllInvs, SummariesAreAsTold
<1> QED BY <1>1, AllAlways, PTL

\* ServiceIdentities: two primary identities of a person need two transactions
\* that overlapped, and none needs a request that was overtaken or cut short.
THEOREM OnePrimary == Spec => []OnePrimaryUnlessRaced
<1>1. AllInvs => OnePrimaryUnlessRaced
  BY IdentityFacts DEF AllInvs, OnePrimaryUnlessRaced
<1> QED BY <1>1, AllAlways, PTL

\* LlmProviders: an evaluation loses its provider only to a slot that moved.
THEOREM ProvidersServe == Spec => []ServedUnlessMoved
<1>1. AllInvs => ServedUnlessMoved
  BY ProviderFacts DEF AllInvs, ServedUnlessMoved
<1> QED BY <1>1, AllAlways, PTL

\* Roster and InstanceAccess: members and groups exist, and lists hold what
\* was there while they were made, though they are read row by row.
THEOREM ListsAreTrue == Spec => []ListsHoldWhatWasThere
<1>1. AllInvs => ListsHoldWhatWasThere
  BY PeopleFacts, AccessFacts DEF AllInvs, ListsHoldWhatWasThere
<1> QED BY <1>1, AllAlways, PTL

\* No step takes a summary, a role or a provider but one that was asked for it.
THEOREM NothingIsTaken == Spec => NothingTakenUnasked
<1>1. ASSUME AllInvs, [Next]_vars
      PROVE  /\ Summaries!SummariesSurvive
             /\ Accounts!RolesFromSuperAdmins /\ Accounts!SomeSuperAdmin
             /\ Providers!SeedsKeepAssignments
  <2>1. /\ [Summaries!Next]_(Summaries!vars) /\ [Accounts!Next]_(Accounts!vars)
        /\ [Providers!Next]_(Providers!vars)
    BY <1>1 DEF Next, vars, summaryVars, accountVars, providerVars, Summaries!vars,
                Accounts!vars, Providers!vars
  <2>2. Summaries!SummariesSurvive
    BY <1>1, <2>1, SummariesStay DEF AllInvs
  <2>3. Accounts!RolesFromSuperAdmins /\ Accounts!SomeSuperAdmin
    BY <1>1, <2>1, RolesAreGiven, ASuperAdminStays DEF AllInvs
  <2>4. Providers!SeedsKeepAssignments
    BY <1>1, <2>1, SeedsKeep DEF AllInvs
  <2> QED BY <2>2, <2>3, <2>4
<1> QED BY <1>1, AllAlways, PTL DEF Spec, NothingTakenUnasked

==============================================================================
