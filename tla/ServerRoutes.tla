---------------------------- MODULE ServerRoutes ----------------------------
(***************************************************************************)
(* What the server answers to: the routes of its controllers in the order  *)
(* they are declared, who may call each (JwtAuthGuard, RolesGuard), and    *)
(* what the body must be (ValidationPipe with whitelist and                *)
(* forbidNonWhitelisted: no field missing, none that is not named).        *)
(*                                                                         *)
(* A value is its kind: "text" (a text that is not empty), "flag",         *)
(* "count" (a positive whole number), "number", "list", "object", "file",  *)
(* or a member of an enumeration.  Lengths and the form of e-mails, dates  *)
(* and names are left out.  Every path starts with "api", left out too.    *)
(***************************************************************************)
EXTENDS Naturals, Sequences, FiniteSetsExt

Params == {":id", ":personId", ":identityId", ":membershipId", ":difficulty", ":name"}

Text == {"text"}
May(kinds) == kinds \union {"absent"}

-------------------------------------------------------------------------------
(* The bodies: a field has the kinds it may have, "absent" among them if it *)
(* need not be there.                                                       *)

LoginDto == [email |-> Text, password |-> Text]
AddUserDto == [email |-> Text, password |-> Text]
ChangeRoleDto == [role |-> {"User", "Admin", "SuperAdmin"}]
GrantInstanceAccessDto == [instanceRef |-> Text]
CreateGroupDto == [name |-> Text]
UpdateGroupDto == [name |-> May(Text)]
AddMemberDto == [personId |-> Text]
CreatePartDto == [name |-> Text]
UpdatePartDto == [name |-> May(Text)]
CreatePersonDto == [fullName |-> Text, email |-> Text]
UpdatePersonDto == [fullName |-> May(Text), email |-> May(Text), active |-> May({"flag"})]
CreateServiceIdentityDto == [service |-> Text, externalId |-> Text]
UpdateServiceIdentityDto == [externalId |-> May(Text)]
CreateAssessmentDto ==
    [personId |-> Text, period |-> Text, scope |-> Text, periodStart |-> Text,
     difficulty |-> Text, contributionScore |-> {"number", "count"}, volume |-> {"count"},
     narrative |-> Text]
CreateContributionDto ==
    [assessmentId |-> Text, sourceType |-> Text, sourceUrl |-> Text, sourceRef |-> Text,
     difficulty |-> Text, contributionScore |-> {"number", "count"}, volume |-> {"count"}]
CreateSummaryDto ==
    [personId |-> Text, period |-> Text, periodStart |-> Text, narrative |-> Text,
     metricScore |-> {"number", "count"}]
CreateCollectionTargetDto ==
    [type |-> {"GITHUB", "CONFLUENCE"}, instanceKey |-> Text, endpoint |-> Text,
     orgs |-> May({"list"}), repos |-> May({"list"}), spaces |-> May({"list"}),
     active |-> May({"flag"})]
UpdateCollectionTargetDto ==
    [endpoint |-> May(Text), orgs |-> May({"list"}), repos |-> May({"list"}),
     spaces |-> May({"list"}), active |-> May({"flag"})]
CollectTriggerDto ==
    [personId |-> Text, period |-> Text, scope |-> Text, periodStart |-> May(Text),
     windowDays |-> May({"count"})]
CreateLlmProviderConfigDto ==
    [provider |-> Text, endpointUrl |-> Text, apiKey |-> Text, modelId |-> Text]
UpdateLlmProviderConfigDto ==
    [provider |-> May(Text), endpointUrl |-> May(Text), apiKey |-> May(Text),
     modelId |-> May(Text)]
SetDefaultLlmProviderDto == [llmProviderConfigId |-> Text]
AssignDifficultyMappingDto == [llmProviderConfigId |-> Text]
UpsertCronScheduleDto == [name |-> Text, cronExpression |-> Text]
RecentDeletionDto == [days |-> May({"count"})]
CreateExportDto ==
    [scope |-> {"FULL", "RANGE", "PARTIAL"}, dateRange |-> May({"object"}),
     entitySelector |-> May({"list"})]
CreateImportDto == [mode |-> May({"REPLACE", "MERGE"})]
EvaluateActivitiesDto ==
    [modelId |-> Text, activities |-> {"list"}, personId |-> Text, period |-> Text,
     scope |-> Text, periodStart |-> Text, mode |-> May({"fill", "reeval"}),
     useInputDifficultyRouting |-> May({"flag"})]
PeriodBridgeDto ==
    [personId |-> Text, period |-> Text, scope |-> Text, periodStart |-> Text,
     reevaluate |-> May({"flag"})]
UnevaluatedFillPlanRequestDto ==
    [personIds |-> {"list"}, period |-> Text, scope |-> Text, rangeStart |-> Text,
     rangeEnd |-> Text]
UnevaluatedFillRunRequestDto ==
    [rawBridges |-> {"list"}, modelId |-> May(Text), useInputDifficultyRouting |-> May({"flag"})]
ResetByPeriodRequestDto == [personId |-> Text, period |-> Text]
RelativeComparisonQueryDto == {"period", "periodStart"}
SummaryAggregateRequestDto ==
    [personId |-> Text, period |-> Text, periodStart |-> Text, mode |-> Text,
     modelId |-> Text, results |-> {"list"}]

-------------------------------------------------------------------------------
(* Routes.  A handler without a body parameter reads no body; one with       *)
(* single query parameters asks for some and ignores the others, one with a  *)
(* query DTO takes those it names only.                                      *)

Route(method, path, tier) ==
    [method |-> method, path |-> path, tier |-> tier,
     reads |-> FALSE, body |-> <<>>, asks |-> {}, closed |-> FALSE]

Reading(dto, route) == [route EXCEPT !.reads = TRUE, !.body = dto]
Asking(names, route) == [route EXCEPT !.asks = names]
AskingOnly(names, route) == [route EXCEPT !.asks = names, !.closed = TRUE]

Under(prefix, routes) == [i \in DOMAIN routes |-> [routes[i] EXCEPT !.path = prefix \o @]]

\* FileInterceptor takes the part "file" out of the body; the handlers refuse a
\* call without it.
WithFile(dto) == [f \in DOMAIN dto \union {"file"} |-> IF f = "file" THEN {"file"} ELSE dto[f]]

AuthRoutes == Under(<<"auth">>, <<
    Reading(LoginDto, Route("POST", <<"login">>, "anyone")),
    Route("POST", <<"logout">>, "anyone"),
    Route("POST", <<"refresh">>, "anyone"),
    Route("GET", <<"me">>, "signed in")>>)

\* The detail's own check, of oneself or an administrator, is UserAccounts'.
UserRoutes == Under(<<"users">>, <<
    Reading(ChangeRoleDto, Route("PATCH", <<":id", "role">>, "SuperAdmin")),
    Reading(AddUserDto, Route("POST", <<>>, "anyone")),
    Route("GET", <<>>, "Admin"),
    Route("GET", <<":id">>, "signed in")>>)

InstanceAccessRoutes == Under(<<"users", ":id", "instance-access">>, <<
    Reading(GrantInstanceAccessDto, Route("POST", <<>>, "Admin")),
    Reading(GrantInstanceAccessDto, Route("DELETE", <<>>, "Admin"))>>)

GroupRoutes == Under(<<"groups">>, <<
    Route("GET", <<>>, "User"),
    Route("GET", <<":id">>, "User"),
    Route("GET", <<":id", "persons">>, "User"),
    Route("GET", <<":id", "members">>, "User"),
    Reading(CreateGroupDto, Route("POST", <<>>, "Admin")),
    Reading(AddMemberDto, Route("POST", <<":id", "members">>, "Admin")),
    Reading(UpdateGroupDto, Route("PATCH", <<":id">>, "Admin")),
    Route("DELETE", <<":id">>, "Admin"),
    Route("DELETE", <<":id", "members", ":membershipId">>, "Admin")>>)

PartRoutes == Under(<<"parts">>, <<
    Route("GET", <<>>, "User"),
    Route("GET", <<":id">>, "User"),
    Route("GET", <<":id", "persons">>, "User"),
    Reading(CreatePartDto, Route("POST", <<>>, "Admin")),
    Reading(UpdatePartDto, Route("PATCH", <<":id">>, "Admin")),
    Route("DELETE", <<":id">>, "Admin")>>)

PersonRoutes == Under(<<"persons">>, <<
    Route("GET", <<>>, "User"),
    Route("GET", <<":id">>, "User"),
    Reading(CreatePersonDto, Route("POST", <<>>, "Admin")),
    Reading(UpdatePersonDto, Route("PATCH", <<":id">>, "Admin")),
    Route("DELETE", <<":id">>, "Admin")>>)

ServiceIdentityRoutes == Under(<<"persons", ":personId", "identities">>, <<
    Route("GET", <<>>, "User"),
    Reading(CreateServiceIdentityDto, Route("POST", <<>>, "Admin")),
    Reading(UpdateServiceIdentityDto, Route("PATCH", <<":identityId">>, "Admin")),
    Route("DELETE", <<":identityId">>, "Admin"),
    Route("POST", <<":identityId", "primary">>, "Admin")>>)

\* The rows a person or an assessment has are listed, read, added and removed
\* alike; the owner must be named.
RowRoutes(name, owner, dto) == Under(<<name>>, <<
    Asking({owner}, Route("GET", <<>>, "User")),
    Route("GET", <<":id">>, "User"),
    Reading(dto, Route("POST", <<>>, "Admin")),
    Route("DELETE", <<":id">>, "Admin")>>)
AssessmentRoutes == RowRoutes("assessments", "personId", CreateAssessmentDto)
ContributionRoutes == RowRoutes("contributions", "assessmentId", CreateContributionDto)
SummaryRoutes == RowRoutes("summaries", "personId", CreateSummaryDto)

CollectionTargetRoutes == Under(<<"collection-targets">>, <<
    Route("GET", <<>>, "User"),
    Route("GET", <<":id">>, "User"),
    Reading(CreateCollectionTargetDto, Route("POST", <<>>, "Admin")),
    Reading(UpdateCollectionTargetDto, Route("PATCH", <<":id">>, "Admin")),
    Route("DELETE", <<":id">>, "Admin")>>)

CollectionRoutes ==
    <<Reading(CollectTriggerDto, Route("POST", <<"assessment-collection", "collect">>, "Admin"))>>

LlmProviderRoutes == Under(<<"llm", "providers">>, <<
    Route("GET", <<>>, "Admin"),
    Reading(SetDefaultLlmProviderDto, Route("PUT", <<"default">>, "Admin")),
    Route("GET", <<":id">>, "Admin"),
    Reading(CreateLlmProviderConfigDto, Route("POST", <<>>, "Admin")),
    Reading(UpdateLlmProviderConfigDto, Route("PATCH", <<":id">>, "Admin")),
    Route("DELETE", <<":id">>, "Admin")>>)

DifficultyMappingRoutes == Under(<<"llm", "difficulty-mappings">>, <<
    Route("GET", <<>>, "Admin"),
    Reading(AssignDifficultyMappingDto, Route("PATCH", <<":difficulty">>, "Admin")),
    Route("POST", <<"seed">>, "Admin")>>)

EvaluateRoute == Reading(EvaluateActivitiesDto, Route("POST", <<"evaluate">>, "Admin"))
PeriodRoute == Reading(PeriodBridgeDto, Route("POST", <<"period">>, "User"))
FillPlanRoute ==
    Reading(UnevaluatedFillPlanRequestDto, Route("POST", <<"unevaluated-fill-plan">>, "Admin"))
FillRunRoute ==
    Reading(UnevaluatedFillRunRequestDto, Route("POST", <<"unevaluated-fill-run">>, "Admin"))
ResetRoute == Reading(ResetByPeriodRequestDto, Route("POST", <<"reset">>, "Admin"))
RelativeComparisonRoute ==
    AskingOnly(RelativeComparisonQueryDto, Route("GET", <<"relative-comparison">>, "Admin"))
SummaryRoute == Reading(SummaryAggregateRequestDto, Route("POST", <<"summary">>, "Admin"))
EvaluationRoutes == Under(<<"assessment-evaluation">>, <<
    EvaluateRoute, PeriodRoute, FillPlanRoute, FillRunRoute, ResetRoute,
    RelativeComparisonRoute, SummaryRoute>>)

CronScheduleRoutes == Under(<<"schedules">>, <<
    Route("GET", <<>>, "Admin"),
    Reading(UpsertCronScheduleDto, Route("PUT", <<>>, "Admin")),
    Route("DELETE", <<":name">>, "Admin"),
    Route("POST", <<"trigger">>, "Admin")>>)
BackfillRoutes == <<Route("POST", <<"schedules", "backfill", ":personId">>, "Admin")>>
RecentDeletionRoutes == Under(<<"schedules", "recent-deletion", ":personId">>, <<
    Reading(RecentDeletionDto, Route("POST", <<>>, "Admin")),
    Route("GET", <<>>, "Admin")>>)

ExportRoutes == Under(<<"admin", "export">>, <<
    Reading(CreateExportDto, Route("POST", <<>>, "Admin")),
    Route("GET", <<"running">>, "Admin"),
    Reading(CreateExportDto, Route("POST", <<"describe-scope">>, "Admin")),
    Reading(CreateExportDto, Route("POST", <<"preview-selection">>, "Admin")),
    Route("GET", <<":id", "download">>, "Admin"),
    Route("GET", <<":id", "status-view">>, "Admin"),
    Route("GET", <<":id">>, "Admin")>>)

ImportRoutes == Under(<<"admin", "import">>, <<
    Reading(WithFile(CreateImportDto), Route("POST", <<>>, "Admin")),
    Reading(WithFile(CreateImportDto), Route("POST", <<"preview">>, "Admin")),
    Route("GET", <<"running">>, "Admin"),
    Route("GET", <<"modes">>, "Admin"),
    Route("GET", <<":id">>, "Admin")>>)

PermissionDeniedRoutes == <<Route("GET", <<"permission-denied-records">>, "User")>>
RunStatusRoutes == <<Route("GET", <<"run-status">>, "User")>>

StatusRoutes == <<Route("GET", <<>>, "anyone")>>

\* The modules in the order the application imports them, each with its controllers
\* in their order.
Server ==
    PersonRoutes \o PartRoutes \o GroupRoutes \o UserRoutes \o AssessmentRoutes
    \o ContributionRoutes \o SummaryRoutes \o ServiceIdentityRoutes \o InstanceAccessRoutes
    \o AuthRoutes \o DifficultyMappingRoutes \o LlmProviderRoutes \o PermissionDeniedRoutes
    \o CollectionRoutes \o CollectionTargetRoutes \o EvaluationRoutes \o CronScheduleRoutes
    \o BackfillRoutes \o RecentDeletionRoutes \o ExportRoutes \o ImportRoutes
    \o RunStatusRoutes \o StatusRoutes

-------------------------------------------------------------------------------
(* A call: [method, path, query, body].                                      *)

Matches(route, call) ==
    /\ route.method = call.method
    /\ Len(route.path) = Len(call.path)
    /\ \A i \in DOMAIN call.path : route.path[i] \in Params \union {call.path[i]}

\* The first route that matches takes the call: 0 if there is none.
Taken(call) ==
    LET matching == {i \in DOMAIN Server : Matches(Server[i], call)}
    IN  IF matching = {} THEN 0 ELSE Min(matching)

ROLE_ORDER == [anonymous |-> 0, User |-> 1, Admin |-> 2, SuperAdmin |-> 3]
Admits(route, role) ==
    CASE route.tier = "anyone" -> TRUE
      [] route.tier = "signed in" -> ROLE_ORDER[role] > 0
      [] OTHER -> ROLE_ORDER[role] >= ROLE_ORDER[route.tier]

Accepts(route, call) ==
    /\ route.asks \subseteq call.query
    /\ route.closed => call.query \subseteq route.asks
    /\ route.reads =>
          /\ DOMAIN call.body \subseteq DOMAIN route.body
          /\ \A f \in DOMAIN route.body :
                (IF f \in DOMAIN call.body THEN call.body[f] ELSE "absent") \in route.body[f]

Serves(role, call) ==
    LET i == Taken(call)
    IN  /\ i # 0
        /\ Admits(Server[i], role)
        /\ Accepts(Server[i], call)

=============================================================================
