----------------------------- MODULE AdminHandlers ----------------------------
(***************************************************************************)
(* The handlers of the admin page (web/src/views), section by section:     *)
(* what keeps a handler from sending twice, which lists' rows its change   *)
(* touches, which lists it has loaded again, and what its success puts     *)
(* away.                                                                   *)
(***************************************************************************)
CONSTANT Rows  \* the rows of a section, or persons, groups, parts to select

None == "none"

\* gate: shared by handlers of one kind; guard: one in flight for the page
\* ("flag", "id"), or one that is read row by row ("row"); writes: the lists
\* whose rows change; bumps: those loaded again; ends: what success puts away.
Touching(g, guard, writes, bumps, ends) ==
    [gate |-> g, guard |-> guard, writes |-> writes, bumps |-> bumps, ends |-> ends]
Handler(g, guard, list, ends) == Touching(g, guard, {list}, {list}, ends)

RunCreateUser == Handler("creating", "flag", "users", "input")
RunChangeRole == Handler("changing", "id", "users", None)
RunGrantInstanceAccess == Touching("granting", "flag", {}, {}, "input")
RunRevokeInstanceAccess == Touching("revoking", "flag", {}, {}, "input")

RunCreatePerson == Handler("creating", "flag", "persons", "input")
RunDeletePerson == Handler("deleting", "flag", "persons", None)
RunUpdatePerson == Handler("updating", "flag", "persons", "edit")

RunCreateGroup == Handler("creating", "flag", "groups", "input")
RunDeleteGroup == Handler("deleting", "flag", "groups", None)
RunUpdateGroup == Handler("updating", "flag", "groups", "edit")
RunAdd == Handler("adding", "flag", "members", "input")
RunRemove == Handler("removing", "flag", "members", None)

\* The two lists of the parts section share their nonce.
PartNonce == {"parts", "partPersons"}
RunCreatePart == Touching("creating", "flag", {"parts"}, PartNonce, "input")
RunDeletePart == Touching("deleting", "flag", PartNonce, PartNonce, "selection")
RunUpdatePart == Touching("updating", "flag", {"parts"}, PartNonce, "edit")

RunCreateProvider == Handler("creating", "flag", "providers", "input")
RunDeleteProvider == Handler("deleting", "flag", "providers", None)
RunUpdateProvider == Handler("updating", "flag", "providers", "edit")
RunSetDefaultProvider == Handler("settingDefault", "flag", "providers", None)
RunAssign == Handler("assigning", "flag", "mappings", "guess")
RunSeedSlots == Handler("seeding", "flag", "mappings", None)

RunCreateServiceIdentity == Handler("creating", "flag", "identities", "input")
RunUpdateServiceIdentity == Handler("updating", "flag", "identities", "edit")
\* Both share the gate of the row's actions.
RunDeleteServiceIdentity == Handler("acting", "row", "identities", None)
RunSetPrimaryServiceIdentity == Handler("acting", "row", "identities", None)

RunCreateCollectionTarget == Handler("creating", "flag", "targets", "input")
RunDeleteCollectionTarget == Handler("deleting", "id", "targets", None)
RunToggleCollectionTargetActive == Handler("toggling", "id", "targets", None)
RunUpdateCollectionTarget == Handler("updating", "id", "targets", "edit")

UseAdminUsers ==
    {RunCreateUser, RunChangeRole, RunGrantInstanceAccess, RunRevokeInstanceAccess}
UseAdminPersons == {RunCreatePerson, RunDeletePerson, RunUpdatePerson}
UseAdminGroups == {RunCreateGroup, RunDeleteGroup, RunUpdateGroup}
UseAdminMemberships == {RunAdd, RunRemove}
UseAdminParts == {RunCreatePart, RunDeletePart, RunUpdatePart}
UseAdminLlmProviders ==
    {RunCreateProvider, RunDeleteProvider, RunUpdateProvider, RunSetDefaultProvider}
UseAdminLlmMappings == {RunAssign, RunSeedSlots}
UseAdminServiceIdentities ==
    {RunCreateServiceIdentity, RunUpdateServiceIdentity,
     RunDeleteServiceIdentity, RunSetPrimaryServiceIdentity}
UseAdminCollectionTargets ==
    {RunCreateCollectionTarget, RunDeleteCollectionTarget,
     RunToggleCollectionTargetActive, RunUpdateCollectionTarget}

\* A section: its handlers, its lists, those whose path holds the selected
\* value, and the values of the selector.  Persons are listed with or without
\* the inactive ones; the other selectors start empty, and an empty one gives
\* no path.  A section holds its edit form open while an update is in flight,
\* unless it lets go: a target's form may be cancelled then, and an identity's
\* put away by selecting no row.
Section(handlers, lists, follow, choices) ==
    [handlers |-> handlers, lists |-> lists, follow |-> follow, choices |-> choices,
     holdsEdit |-> TRUE]
LettingGo(s) == [s EXCEPT !.holdsEdit = FALSE]

Sections ==
    [users |-> Section(UseAdminUsers, {"users"}, {}, {"active"}),
     persons |-> Section(UseAdminPersons, {"persons"}, {"persons"}, {"active", "all"}),
     groups |-> Section(UseAdminGroups, {"groups"}, {}, {"active"}),
     members |-> Section(UseAdminMemberships, {"members"}, {"members"}, Rows \cup {None}),
     parts |-> Section(UseAdminParts, PartNonce, {"partPersons"}, Rows \cup {None}),
     providers |-> Section(UseAdminLlmProviders, {"providers"}, {}, {"active"}),
     mappings |-> Section(UseAdminLlmMappings, {"mappings"}, {}, {"active"}),
     identities |-> LettingGo(Section(UseAdminServiceIdentities,
                                      {"identities"}, {"identities"}, Rows \cup {None})),
     targets |-> LettingGo(Section(UseAdminCollectionTargets, {"targets"}, {}, {"active"}))]
==============================================================================
