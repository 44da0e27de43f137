------------------------------ MODULE PageCalls ------------------------------
(***************************************************************************)
(* The calls the web page can send: for every form, row and list, the      *)
(* calls its handler makes of whatever is typed and selected, and the role *)
(* to which the page offers it.  A call is [method, path, query, body];    *)
(* values are kinds, as in ServerRoutes.  What a call does to the page is  *)
(* the subject of AdminHandlers, AdminScreens, DataPanel, Dashboard and    *)
(* ShellSession; the gates that are shut while a call runs are theirs.     *)
(***************************************************************************)
EXTENDS Naturals, Sequences

\* What a text field holds, and what an id is: empty, blank, or something.
Inputs == {"", " ", "text"}
Ids == {"", " ", "id"}

Trim(value) == IF value = " " THEN "" ELSE value
Blank(value) == Trim(value) = ""

\* The fields of a form that are not blank.
Filled(form) == {f \in DOMAIN form : ~Blank(form[f])}
Texts(fields) == [f \in fields |-> "text"]

Send(method, path, body) == [method |-> method, path |-> path, query |-> {}, body |-> body]
Empty == <<>>
Ask(path, query) == [method |-> "GET", path |-> path, query |-> query, body |-> Empty]

\* A handler that returns early sends nothing.
When(condition, call) == IF condition THEN {call} ELSE {}

\* A list that was changed is read again under a new number (_r).
Nonce(n) == IF n = 0 THEN {} ELSE {"_r"}
\* A path of something selected, none while nothing is.
OfSelected(id, call) == When(id # "", call)

-------------------------------------------------------------------------------
(* Lists.                                                                    *)

BuildGroupsPath(n) == Ask(<<"groups">>, Nonce(n))
BuildPartsPath(n) == Ask(<<"parts">>, Nonce(n))
BuildUsersPath(n) == Ask(<<"users">>, Nonce(n))
BuildProvidersPath(n) == Ask(<<"llm", "providers">>, Nonce(n))
BuildMappingsPath(n) == Ask(<<"llm", "difficulty-mappings">>, Nonce(n))
BuildPersonsPath(n, includeInactive) ==
    Ask(<<"persons">>, Nonce(n) \union (IF includeInactive THEN {"includeInactive"} ELSE {}))
BuildGroupMembersPath(group, n) ==
    OfSelected(group, Ask(<<"groups", group, "members">>, Nonce(n)))
BuildPartPersonsPath(part, n) ==
    OfSelected(part, Ask(<<"parts", part, "persons">>, Nonce(n)))
BuildServiceIdentitiesPath(person, n) ==
    When(~Blank(person), Ask(<<"persons", person, "identities">>, Nonce(n)))

BuildAssessmentsPath(person, period) ==
    OfSelected(person, Ask(<<"assessments">>,
                           {"personId"} \union (IF period = "" THEN {} ELSE {"period"})))
BuildSummariesPath(person, period) ==
    OfSelected(person, Ask(<<"summaries">>,
                           {"personId"} \union (IF period = "" THEN {} ELSE {"period"})))
BuildContributionsPath(assessment) ==
    OfSelected(assessment, Ask(<<"contributions">>, {"assessmentId"}))

-------------------------------------------------------------------------------
(* Handlers.                                                                 *)

RunCreateGroup(name) == When(~Blank(name), Send("POST", <<"groups">>, Texts({"name"})))
RunCreatePart(name) == When(~Blank(name), Send("POST", <<"parts">>, Texts({"name"})))
RunDeleteGroup(id) == When(~Blank(id), Send("DELETE", <<"groups", id>>, Empty))
RunDeletePart(id) == When(~Blank(id), Send("DELETE", <<"parts", id>>, Empty))
RunUpdateGroup(id, name, original) ==
    When(~Blank(id) /\ ~Blank(name) /\ Trim(name) # Trim(original),
         Send("PATCH", <<"groups", id>>, Texts({"name"})))
RunUpdatePart(id, name, original) ==
    When(~Blank(id) /\ ~Blank(name) /\ Trim(name) # Trim(original),
         Send("PATCH", <<"parts", id>>, Texts({"name"})))

RunRemove(group, membership) ==
    When(membership # "", Send("DELETE", <<"groups", group, "members", membership>>, Empty))
RunAdd(group, person) ==
    When(~Blank(person) /\ group # "",
         Send("POST", <<"groups", group, "members">>, Texts({"personId"})))

RunCreatePerson(form) ==
    When(Filled(form) = {"fullName", "email"}, Send("POST", <<"persons">>, Texts(Filled(form))))
RunDeletePerson(id) == When(~Blank(id), Send("DELETE", <<"persons", id>>, Empty))
\* Only what was changed, and no text that was emptied.
BuildPersonPatch(form, original) ==
    LET texts == {f \in {"fullName", "email"} :
                    ~Blank(form[f]) /\ Trim(form[f]) # Trim(original[f])}
        flags == {f \in {"active"} : form[f] # original[f]}
    IN  [f \in texts \union flags |-> IF f \in texts THEN "text" ELSE "flag"]
RunUpdatePerson(id, patch) ==
    When(~Blank(id) /\ DOMAIN patch # {}, Send("PATCH", <<"persons", id>>, patch))

RunCreateUser(form) ==
    When(~Blank(form.email) /\ form.password # "", Send("POST", <<"users">>, Texts(DOMAIN form)))
RunChangeRole(id, role) ==
    When(~Blank(id), Send("PATCH", <<"users", id, "role">>, [role |-> role]))
BuildInstanceAccessPath(user) == <<"users", user, "instance-access">>
RunGrantInstanceAccess(user, ref) ==
    When(~Blank(user) /\ ~Blank(ref),
         Send("POST", BuildInstanceAccessPath(user), Texts({"instanceRef"})))
RunRevokeInstanceAccess(user, ref) ==
    When(~Blank(user) /\ ~Blank(ref),
         Send("DELETE", BuildInstanceAccessPath(user), Texts({"instanceRef"})))

RunCreateProvider(form) ==
    When(Filled(form) = DOMAIN form, Send("POST", <<"llm", "providers">>, Texts(DOMAIN form)))
\* Mutant: the fields that were left blank are sent too.
RunUpdateProvider_Blank(id, form) ==
    When(~Blank(id) /\ Filled(form) # {},
         Send("PATCH", <<"llm", "providers", id>>, [f \in DOMAIN form |-> Trim(form[f])]))
RunUpdateProvider(id, form) ==
    When(~Blank(id) /\ Filled(form) # {},
         Send("PATCH", <<"llm", "providers", id>>, Texts(Filled(form))))
RunDeleteProvider(id) == When(~Blank(id), Send("DELETE", <<"llm", "providers", id>>, Empty))
RunSetDefaultProvider(id) ==
    When(~Blank(id), Send("PUT", <<"llm", "providers", "default">>, Texts({"llmProviderConfigId"})))
RunAssign(difficulty, provider) ==
    When(provider # "", Send("PATCH", <<"llm", "difficulty-mappings", difficulty>>,
                             Texts({"llmProviderConfigId"})))
RunSeedSlots == Send("POST", <<"llm", "difficulty-mappings", "seed">>, Empty)

COLLECTION_TARGET_TYPES == {"GITHUB", "CONFLUENCE"}
ScopeFieldsForCollectionTargetType(type) ==
    CASE type = "GITHUB" -> {"orgs", "repos"}
      [] type = "CONFLUENCE" -> {"spaces"}
      [] OTHER -> {}
\* The lists of the row's type, empty ones too.
BuildScopePatch(type) == [f \in ScopeFieldsForCollectionTargetType(type) |-> "list"]
RunCreateCollectionTarget(type, form) ==
    When(Filled(form) = DOMAIN form /\ type \in COLLECTION_TARGET_TYPES,
         Send("POST", <<"collection-targets">>,
              [f \in DOMAIN form \union {"type"} |-> IF f = "type" THEN type ELSE "text"]))
RunDeleteCollectionTarget(id) ==
    When(~Blank(id), Send("DELETE", <<"collection-targets", Trim(id)>>, Empty))
RunToggleCollectionTargetActive(id) ==
    When(~Blank(id), Send("PATCH", <<"collection-targets", Trim(id)>>, [active |-> "flag"]))
\* An endpoint that was emptied keeps the lists from being sent, too.
RunUpdateCollectionTarget(id, endpoint, type) ==
    LET patch == BuildScopePatch(type)
        fields == DOMAIN patch \union {"endpoint"}
    IN  When(~Blank(id) /\ ~Blank(endpoint),
             Send("PATCH", <<"collection-targets", Trim(id)>>,
                  [f \in fields |-> IF f = "endpoint" THEN "text" ELSE patch[f]]))

ServiceIdentityCollectionPath(person) == <<"persons", person, "identities">>
ServiceIdentityItemPath(person, identity) ==
    Append(ServiceIdentityCollectionPath(person), identity)
RunCreateServiceIdentity(person, form) ==
    When(~Blank(person) /\ Filled(form) = DOMAIN form,
         Send("POST", ServiceIdentityCollectionPath(Trim(person)), Texts(DOMAIN form)))
RunUpdateServiceIdentity(person, identity, externalId) ==
    When(~Blank(person) /\ ~Blank(identity) /\ ~Blank(externalId),
         Send("PATCH", ServiceIdentityItemPath(Trim(person), Trim(identity)),
              Texts({"externalId"})))
RunDeleteServiceIdentity(person, identity) ==
    When(~Blank(person) /\ ~Blank(identity),
         Send("DELETE", ServiceIdentityItemPath(Trim(person), Trim(identity)), Empty))
RunSetPrimaryServiceIdentity(person, identity) ==
    When(~Blank(person) /\ ~Blank(identity),
         Send("POST", Append(ServiceIdentityItemPath(Trim(person), Trim(identity)), "primary"),
              Empty))

RunApply(cron) == When(cron # "", Send("PUT", <<"schedules">>, Texts({"name", "cronExpression"})))
RunTrigger == Send("POST", <<"schedules", "trigger">>, Empty)
BuildRecentDeletionPath(person) == <<"schedules", "recent-deletion", person>>
\* The start, and the polls that follow it.
RunReEvaluate(person) ==
    When(person # "", Send("POST", BuildRecentDeletionPath(person), [days |-> "count"]))
    \union When(person # "", Ask(BuildRecentDeletionPath(person), {}))

RunImportPreview == Send("POST", <<"admin", "import", "preview">>, [file |-> "file"])
RunImport == Send("POST", <<"admin", "import">>, [file |-> "file"])
EXPORT_SCOPE_OPTIONS == {"", "assessments", "questions", "persons"}
BuildExportInput(scope) == IF scope = "" THEN Empty ELSE [scope |-> scope]
CreateExportJob(scope) == Send("POST", <<"admin", "export">>, BuildExportInput(scope))
GetExportJob(id) == Ask(<<"admin", "export", id>>, {})
DownloadExportJob(id) == Ask(<<"admin", "export", id, "download">>, {})

BuildPeriodEvaluationRequest(person, start, reevaluate) ==
    When(~Blank(person) /\ start = "text",
         Send("POST", <<"assessment-evaluation", "period">>,
              [f \in {"personId", "period", "scope", "periodStart"}
                     \union (IF reevaluate THEN {"reevaluate"} ELSE {})
                 |-> IF f = "reevaluate" THEN "flag" ELSE "text"]))

Login(form) == Send("POST", <<"auth", "login">>, Texts(DOMAIN form))
Refresh == Send("POST", <<"auth", "refresh">>, Empty)
Logout == Send("POST", <<"auth", "logout">>, Empty)
Signup(form) == Send("POST", <<"users">>, Texts(DOMAIN form))
FetchCurrentUser == Ask(<<"auth", "me">>, {})
FetchRunStatus == Ask(<<"run-status">>, {})

-------------------------------------------------------------------------------
(* What the page offers.                                                     *)

Form(fields) == [fields -> Inputs]

GroupSection ==
    UNION {RunCreateGroup(name) : name \in Inputs}
    \union UNION {RunDeleteGroup(id) : id \in Ids}
    \union UNION {RunUpdateGroup(id, name, original) : id \in Ids, name \in Inputs,
                                                       original \in Inputs \union {"other"}}
    \union {BuildGroupsPath(n) : n \in 0 .. 1}

\* The list of members and its form, once a group is selected.
MemberSection ==
    UNION {BuildGroupMembersPath(group, n) : group \in Ids, n \in 0 .. 1}
    \union UNION {RunRemove("id", membership) : membership \in Ids}
    \union UNION {RunAdd(group, person) : group \in {"", "id"}, person \in Ids}

PartSection ==
    UNION {RunCreatePart(name) : name \in Inputs}
    \union UNION {RunDeletePart(id) : id \in Ids}
    \union UNION {RunUpdatePart(id, name, original) : id \in Ids, name \in Inputs,
                                                      original \in Inputs \union {"other"}}
    \union {BuildPartsPath(n) : n \in 0 .. 1}
    \union UNION {BuildPartPersonsPath(part, n) : part \in Ids, n \in 0 .. 1}

PersonSection ==
    LET rows == [fullName : Inputs \union {"other"}, email : Inputs, active : BOOLEAN]
    IN  UNION {RunCreatePerson(form) : form \in Form({"fullName", "email"})}
        \union UNION {RunDeletePerson(id) : id \in Ids}
        \union UNION {RunUpdatePerson(id, BuildPersonPatch(form, original)) :
                        id \in Ids, form \in rows, original \in rows}
        \union {BuildPersonsPath(n, all) : n \in 0 .. 1, all \in BOOLEAN}

IdentitySection(isAdmin) ==
    UNION {BuildServiceIdentitiesPath(person, n) : person \in Ids, n \in 0 .. 1}
    \union IF ~isAdmin THEN {} ELSE
        UNION {RunCreateServiceIdentity(person, form) :
                 person \in Ids, form \in Form({"service", "externalId"})}
        \union UNION {RunUpdateServiceIdentity(person, identity, externalId) :
                        person \in Ids, identity \in Ids, externalId \in Inputs}
        \union UNION {RunDeleteServiceIdentity(person, identity)
                      \union RunSetPrimaryServiceIdentity(person, identity) :
                        person \in Ids, identity \in Ids}

CollectionTargetSection(isAdmin) ==
    {Ask(<<"collection-targets">>, {})}
    \union IF ~isAdmin THEN {} ELSE
        UNION {RunCreateCollectionTarget(type, form) :
                 type \in COLLECTION_TARGET_TYPES \union {""},
                 form \in Form({"instanceKey", "endpoint"})}
        \union UNION {RunDeleteCollectionTarget(id) \union RunToggleCollectionTargetActive(id) :
                        id \in Ids}
        \union UNION {RunUpdateCollectionTarget(id, endpoint, type) :
                        id \in Ids, endpoint \in Inputs,
                        type \in COLLECTION_TARGET_TYPES \union {""}}

MappingSection ==
    {RunSeedSlots}
    \union UNION {RunAssign(difficulty, provider) :
                    difficulty \in {"easy", "medium", "hard"}, provider \in {"", "id"}}
    \union {BuildMappingsPath(n) : n \in 0 .. 1}

ProviderSection ==
    LET forms == Form({"provider", "endpointUrl", "apiKey", "modelId"})
    IN  UNION {RunCreateProvider(form) : form \in forms}
        \union UNION {RunUpdateProvider(id, form) : id \in Ids, form \in forms}
        \union UNION {RunDeleteProvider(id) \union RunSetDefaultProvider(id) : id \in Ids}
        \union {BuildProvidersPath(n) : n \in 0 .. 1}

DataSection ==
    {RunImport, RunImportPreview, GetExportJob("id"), DownloadExportJob("id")}
    \union {CreateExportJob(scope) : scope \in EXPORT_SCOPE_OPTIONS}

ScheduleSection ==
    {RunTrigger, Ask(<<"schedules">>, {})}
    \union UNION {RunApply(cron) : cron \in Inputs}
    \union UNION {RunReEvaluate(person) : person \in {"", "id"}}

\* A row's role goes up or down by one, and a super administrator's stays.
ResolveRoleAction(role) ==
    CASE role = "User" -> {"Admin"}
      [] role = "Admin" -> {"User"}
      [] OTHER -> {}

UserSection(isSuperAdmin) ==
    UNION {RunCreateUser(form) : form \in Form({"email", "password"})}
    \union UNION {RunGrantInstanceAccess(user, ref) \union RunRevokeInstanceAccess(user, ref) :
                    user \in Ids, ref \in Inputs}
    \union {BuildUsersPath(n) : n \in 0 .. 1}
    \union IF ~isSuperAdmin THEN {} ELSE
        UNION {UNION {RunChangeRole("id", next) : next \in ResolveRoleAction(role)} :
                 role \in {"User", "Admin", "SuperAdmin"}}

IsAdminRole(role) == role \in {"Admin", "SuperAdmin"}

\* The lists of what only administrators are shown are read by everyone who is
\* there.
AdminView(role) ==
    LET isAdmin == IsAdminRole(role)
    IN  MemberSection \union PersonSection \union IdentitySection(isAdmin) \union GroupSection
        \union PartSection \union CollectionTargetSection(isAdmin) \union {FetchCurrentUser}
        \union {BuildUsersPath(0), BuildProvidersPath(0), BuildMappingsPath(0),
                Ask(<<"schedules">>, {})}
        \union IF ~isAdmin THEN {} ELSE
            MappingSection \union ProviderSection \union DataSection \union ScheduleSection
            \union UserSection(role = "SuperAdmin")

DashboardView ==
    UNION {BuildAssessmentsPath(person, period) \union BuildSummariesPath(person, period) :
             person \in {"", "id"}, period \in {"", "text"}}
    \union UNION {BuildContributionsPath(assessment) : assessment \in {"", "id"}}
    \union UNION {BuildPeriodEvaluationRequest(person, start, reevaluate) :
                    person \in Ids, start \in Inputs, reevaluate \in BOOLEAN}
    \union {Ask(<<"persons">>, {}), Ask(<<"permission-denied-records">>, {})}

\* Before a login: the login, the setup of the first account, and the attempt to
\* restore a session.
LoginView ==
    LET form == [email |-> "text", password |-> "text"]
    IN  {Login(form), Signup(form), Refresh}

VisibleNavItems(role) == {"dashboard"} \union (IF IsAdminRole(role) THEN {"admin"} ELSE {})

Offered(role) ==
    IF role = "anonymous" THEN LoginView
    ELSE {FetchCurrentUser, FetchRunStatus, Refresh, Logout} \union DashboardView
         \union (IF "admin" \in VisibleNavItems(role) THEN AdminView(role) ELSE {})

=============================================================================
