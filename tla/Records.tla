-------------------------------- MODULE Records -------------------------------
(***************************************************************************)
(* The services that share no state with each other: the initial state     *)
(* chooses a scene, and only the component of that scene moves.            *)
(***************************************************************************)
EXTENDS Integers, Sequences, FiniteSets

CONSTANTS
    Callers,      \* requests in flight
    Requests,     \* requests about the identities of a person
    Readers,      \* requests that list records
    NonAdmins,    \* users who read records and are not admins
    Users,        \* e-mail addresses, and the persons of the roster
    Teams,        \* groups of persons
    Instances, Spelled, Services,
    Ids, ModelIds, Difficulties,
    Scopes,       \* a person and a period length each
    BatchOrder,   \* the scopes of a batch, in order
    MaxNow, MaxStamp, MaxIds, MaxChanges, MaxMoves, MaxAdded, MaxRecords

ASSUME OrderAssumption == BatchOrder \in Seq(Scopes)
\* Ids are generated, and neither they nor models are named like the states of
\* a slot or of a configuration.
ASSUME NamesAssumption ==
    {"none", "absent"} \cap Ids = {} /\ {"unborn", "gone"} \cap ModelIds = {}
ASSUME BoundsAssumption ==
    /\ {MaxNow, MaxStamp, MaxIds, MaxChanges, MaxMoves, MaxAdded, MaxRecords} \subseteq Nat
    /\ MaxNow > 0

VARIABLES
    scene,
    now, summary, assessed, batch, stamp, touched, emptied, half,
    owner, identity, ids, holder, doubled, loose,
    role, access, refresh, session, changes, held,
    config, slot, mapping, router, moves,
    person, group, member, added, visitor,
    grants, records, emitted, reader

summaryVars == <<now, summary, assessed, batch, stamp, touched, emptied, half>>
identityVars == <<owner, identity, ids, holder, doubled, loose>>
accountVars == <<role, access, refresh, session, changes, held>>
providerVars == <<config, slot, mapping, router, moves>>
rosterVars == <<person, group, member, added, visitor>>
accessVars == <<grants, records, emitted, reader>>

Summaries == INSTANCE SummaryBatches WITH
    caller <- batch, Groups <- Scopes, Roster <- BatchOrder
Identities == INSTANCE ServiceIdentities WITH
    person <- owner, caller <- holder, Callers <- Requests
Accounts == INSTANCE UserAccounts WITH caller <- session
Providers == INSTANCE LlmProviders WITH caller <- router
People == INSTANCE Roster WITH
    caller <- visitor, Persons <- Users, Groups <- Teams
Access == INSTANCE InstanceAccess WITH
    caller <- reader, Callers <- Readers, Users <- NonAdmins

Init ==
    /\ scene \in {"summaries", "identities", "accounts", "providers", "people", "access"}
    /\ Summaries!Init /\ Identities!Init /\ Accounts!Init
    /\ Providers!Init /\ People!Init /\ Access!Init

Next ==
    /\ UNCHANGED scene
    /\ \/ /\ scene = "summaries" /\ Summaries!Next
          /\ UNCHANGED <<identityVars, accountVars, providerVars, rosterVars, accessVars>>
       \/ /\ scene = "identities" /\ Identities!Next
          /\ UNCHANGED <<summaryVars, accountVars, providerVars, rosterVars, accessVars>>
       \/ /\ scene = "accounts" /\ Accounts!Next
          /\ UNCHANGED <<summaryVars, identityVars, providerVars, rosterVars, accessVars>>
       \/ /\ scene = "providers" /\ Providers!Next
          /\ UNCHANGED <<summaryVars, identityVars, accountVars, rosterVars, accessVars>>
       \/ /\ scene = "people" /\ People!Next
          /\ UNCHANGED <<summaryVars, identityVars, accountVars, providerVars, accessVars>>
       \/ /\ scene = "access" /\ Access!Next
          /\ UNCHANGED <<summaryVars, identityVars, accountVars, providerVars, rosterVars>>

vars == <<scene, summaryVars, identityVars, accountVars, providerVars, rosterVars,
          accessVars>>

Spec == Init /\ [][Next]_vars

------------------------------------------------------------------------------
(* Properties: those of the components, under their names there. *)

\* The variables of the scene's component have their types; the others stay
\* as they were initially.
TypesOK ==
    CASE scene = "summaries" -> Summaries!TypeOK
      [] scene = "identities" -> Identities!TypeOK
      [] scene = "accounts" -> Accounts!TypeOK
      [] scene = "providers" -> Providers!TypeOK
      [] scene = "people" -> People!TypeOK
      [] scene = "access" -> Access!TypeOK

\* The summary of a period is what resets, batches and reevals were told it is.
\*  - The controller resets two tables one after the other, without a
\*    transaction (assessment-evaluation.controller.ts:850): a summary older than
\*    the removal of its assessments is there only while that reset goes on, or
\*    after it failed in between.
\*  - A reset that answers has left nothing that was there when it began,
\*    although reevals replace rows while it looks for them.
\*  - A caller is told of a conflict, or gets the raw error of
\*    summary-persist.service.ts:177, only if another one changed the summary.
\*  - A batch that answers has a summary for everyone of the roster, for the
\*    period that had ended when it began, unless others changed them since; one
\*    that stops has dealt with the roster from its beginning.
SummariesAreAsTold ==
    scene = "summaries" =>
        /\ Summaries!OrphanOnlyAfterHalfReset
        /\ Summaries!ResetClears
        /\ Summaries!ErrorsHaveRivals
        /\ Summaries!BatchCoversRoster

\* schema.prisma:252 asks for one primary identity of a person.  There are two
\* only if two transactions that set one overlapped, each blind to the row the
\* other was setting, and only until the next one.  There is none only if a
\* request was overtaken by another, failed after its first write or lost its
\* successor (service-identity.service.ts:112 and :283), and only until one is set.
OnePrimaryUnlessRaced ==
    scene = "identities" =>
        /\ Identities!TwoPrimariesNeedOverlap
        /\ Identities!NoPrimaryNeedsRace

\* Both references hold, so an evaluation loses the provider it was routed to
\* only to a slot that was moved after it began, and a refresh besides when
\* there is no default (llm-http-gateway.service.ts:119); a default that was
\* set is read back unless it was moved (llm-provider-config.service.ts:344).
ServedUnlessMoved == scene = "providers" => Providers!ServedUnlessMoved

\* Lists that are read row by row, or after what selects them, are of one truth.
\*  - A membership ties a person and a group that exist, though both were looked
\*    up before it was written (group.service.ts:199).
\*  - A listing made of one lookup per member (group.service.ts:268) holds those
\*    who were members all along, and none who never was.
\*  - Grants are read before the records they select
\*    (permission-denied-record.service.ts:169): a list holds records only of
\*    instances that were granted while it was made, and of every instance that
\*    stayed granted all the records there were, if its spelling is normal.
ListsHoldWhatWasThere ==
    /\ scene = "people" => People!MembersExist /\ People!ListingHoldsMembers
    /\ scene = "access" => Access!ListsWhatWasGranted

\* No step takes a summary, a role or a provider but one that was asked for it.
\*  - No reader ever misses a summary that was there unless a reset took it, and
\*    only a reeval puts another one in its place.
\*  - A token keeps a role its user has lost for as long as it is refreshed
\*    (auth.controller.ts:255), yet it gives nobody a role: who changes one was
\*    SuperAdmin in the database after their request began, and a signup makes a
\*    SuperAdmin only if it began before there was any user (user.service.ts:243).
\*  - There is a SuperAdmin from the first signup on: the last one loses the role
\*    only to a request whose actor lost it meanwhile (user.service.ts:145).
\*  - A seed leaves every slot with a row, and takes no provider from a slot that
\*    was assigned before or while it ran (difficulty-mapping.service.ts:216).
NothingTakenUnasked ==
    [][/\ scene = "summaries" => Summaries!SummariesSurvive
       /\ scene = "accounts" => Accounts!RolesFromSuperAdmins /\ Accounts!SomeSuperAdmin
       /\ scene = "providers" => Providers!SeedsKeepAssignments
      ]_<<scene, summaryVars, accountVars, providerVars>>

\* An evaluation that has resolved the default provider finds it: "the
\* LlmProviderConfig.modelId to use" (llm-gateway.interface.ts:48).  The tick
\* hands the gateway a modelId, and the gateway looks for an id
\* (evaluation-tick-runner.service.ts:88, llm-http-gateway.service.ts:119).
TickFindsProvider == Providers!TickFindsProvider
==============================================================================
