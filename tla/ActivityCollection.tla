------------------------- MODULE ActivityCollection --------------------------
(***************************************************************************)
(* What is collected for a person: the instances in force, the calls that  *)
(* are made of them, what the answers are mapped to, which copies of a     *)
(* work are dropped, whether the collection counts as complete, and what   *)
(* of it is the person's and of the period.  The functions of              *)
(* src/src/assessment-collection, src/src/collection-target, src/src/github*)
(* and src/src/confluence.                                                 *)
(*                                                                         *)
(* A key is a name and a spelling of it: keys are compared by name.  The   *)
(* environment holds, of each kind of service, the listed keys and the     *)
(* variables of each name; "" is an unset one.  A time is a number.        *)
(***************************************************************************)
EXTENDS Integers, Sequences, FiniteSets, SequencesExt, FiniteSetsExt

CONSTANTS MaxPages,   \* GITHUB_MAX_PAGES and CONFLUENCE_MAX_PAGES
          PageSize    \* the items of a page of an answer

Normal(key) == key.name

\* One of each key, at the place of the first: the first of those that rank least.
DedupBy(s, keys, ranks) ==
    LET same(i) == {j \in DOMAIN s : keys[j] = keys[i]}
        best(i) == Min({j \in same(i) : \A k \in same(i) : ranks[j] <= ranks[k]})
        firsts == SetToSortSeq({i \in DOMAIN s : i = Min(same(i))}, <)
    IN  [n \in DOMAIN firsts |-> s[best(firsts[n])]]

FirstBy(s, keys) == DedupBy(s, keys, [i \in DOMAIN s |-> i])

-----------------------------------------------------------------------------
(* Instances.                                                              *)

Instance(key, host, token, of) ==
    [key |-> key, host |-> host, token |-> token,
     orgs |-> of.orgs, repos |-> of.repos, spaces |-> of.spaces]

\* Those of the environment: the first spelling of a name, when its host and
\* its token are set.
ResolveInstances(config) ==
    LET vars(key) == config.vars[Normal(key)]
        usable(key) == vars(key).host # "" /\ vars(key).token # ""
        names == [i \in DOMAIN config.list |-> Normal(config.list[i])]
        keys == SelectSeq(FirstBy(config.list, names), usable)
    IN  [i \in DOMAIN keys |->
            Instance(keys[i], vars(keys[i]).host, vars(keys[i]).token, vars(keys[i]))]

\* Only a Confluence endpoint may have a path after the host, and both only the
\* host that the environment allows the name.
EndpointAccepted(kind, endpoint, allowed) ==
    /\ endpoint.form \in IF kind = "GITHUB" THEN {"host"} ELSE {"host", "path"}
    /\ allowed # ""
    /\ endpoint.host = allowed

\* With the rows an admin registered: a name of the environment is never a
\* row's, and of the active rows of a name the oldest counts, usable or not.
Merge(kind, env, rows) ==
    LET listed == {Normal(env[kind].list[i]) : i \in DOMAIN env[kind].list}
        older(a, b) ==
            \/ a.made < b.made
            \/ a.made = b.made /\ a.key.spelling < b.key.spelling
        active == SetToSortSeq({r \in rows : /\ r.kind = kind
                                             /\ r.active
                                             /\ Normal(r.key) \notin listed}, older)
        registered == FirstBy(active, [i \in DOMAIN active |-> Normal(active[i].key)])
        vars(r) == env[kind].vars[Normal(r.key)]
        usable(r) ==
            /\ vars(r).token # ""
            /\ EndpointAccepted(kind, r.endpoint, vars(r).allowed)
        accepted == SelectSeq(registered, usable)
    IN  [instances |-> ResolveInstances(env[kind])
                       \o [i \in DOMAIN accepted |->
                              Instance(accepted[i].key, accepted[i].endpoint.host,
                                       vars(accepted[i]).token, accepted[i])],
         listed |-> listed \union {Normal(registered[i].key) : i \in DOMAIN registered}]

OfName(instances, name) ==
    SelectSeq(instances, LAMBDA c : Normal(c.key) = name)

-----------------------------------------------------------------------------
(* Calls.  A net is what answers a call: the environment and the rows as    *)
(* they are then, the items of each path of each host, and the faults.     *)

\* The items of a path as the service would list them, cut into pages: a fault
\* is the page at which an error answers or a link leads to another host.
Serve(net, host, path, since) ==
    LET items == SelectSeq(
            IF <<host, path>> \in DOMAIN net.items THEN net.items[<<host, path>>] ELSE <<>>,
            LAMBDA x : path[Len(path)] \in {"commits", "issues"} => x.at >= since)
        count == Max({1, (Len(items) + PageSize - 1) \div PageSize})
        fault(p) == IF <<host, path>> \in DOMAIN net.faults
                       /\ net.faults[<<host, path>>].page = p
                    THEN net.faults[<<host, path>>].status ELSE "200"
    IN  [p \in 1..count |->
            [status |-> IF fault(p) = "cross" THEN "200" ELSE fault(p),
             items |-> SubSeq(items, (p - 1) * PageSize + 1,
                              Min({Len(items), p * PageSize})),
             next |-> CASE fault(p) = "cross" -> "other host"
                        [] p < count -> "same host"
                        [] OTHER -> "none"]]

\* Pages until one has no next, the cap, or a failure, which takes all with it.
\* What is beyond the cap is dropped without a word.
RequestAllPages(pages) ==
    LET last == Min({MaxPages} \union
                    {p \in DOMAIN pages : pages[p].status # "200"
                                          \/ pages[p].next # "same host"})
        ok == pages[last].status = "200" /\ pages[last].next # "other host"
    IN  [ok |-> ok,
         status |-> pages[last].status,
         items |-> IF ok THEN FlattenSeq([p \in 1..last |-> pages[p].items]) ELSE <<>>]

\* The same of a space, but that the cap is told of.
RequestAllPagesOfSpace(pages) ==
    RequestAllPages(pages)
    @@ [partial |-> Len(pages) > MaxPages
                    /\ \A p \in 1..MaxPages : /\ pages[p].status = "200"
                                               /\ pages[p].next = "same host"]

Failed == [ok |-> FALSE, status |-> "none", items |-> <<>>]

\* The instances are resolved once more for every call.
RequestOfFirst(net, found, path, since) ==
    IF found = <<>> \/ found[1].token = "broken" THEN Failed
    ELSE RequestAllPages(Serve(net, found[1].host, path, since))
RequestForInstance(net, key, path, since) ==
    RequestOfFirst(net, OfName(Merge("GITHUB", net.env, net.rows).instances, Normal(key)),
                   path, since)

-----------------------------------------------------------------------------
(* Sources.                                                                *)

Source(key, org, repo) == [key |-> key, org |-> org, repo |-> repo]

\* A token is the parts between its slashes: a repository of every
\* organisation, one of an organisation, or nothing.
SourcesOfToken(instance, token) ==
    CASE Len(token) = 1 /\ token[1] # "" ->
            [i \in DOMAIN instance.orgs |->
                Source(instance.key, instance.orgs[i], token[1])]
      [] Len(token) = 2 /\ token[1] # "" /\ token[2] # "" ->
            <<Source(instance.key, token[1], token[2])>>
      [] OTHER -> <<>>

ResolveRepoSources(instances, names) ==
    LET named == SelectSeq(instances, LAMBDA c : Normal(c.key) \in names)
        wanted == FirstBy(named, [i \in DOMAIN named |-> Normal(named[i].key)])
        sources(c) == FlattenSeq([i \in DOMAIN c.repos |-> SourcesOfToken(c, c.repos[i])])
        orgs(c) == IF c.repos # <<>> THEN <<>>
                   ELSE [i \in DOMAIN c.orgs |-> [key |-> c.key, org |-> c.orgs[i]]]
    IN  [sources |-> FlattenSeq([i \in DOMAIN wanted |-> sources(wanted[i])]),
         targets |-> FlattenSeq([i \in DOMAIN wanted |-> orgs(wanted[i])])]

\* Without a name of its own, the last part of the full one.
RepoName(raw) ==
    IF raw.name # "" THEN raw.name ELSE raw.fullName

\* The repositories of the organisations, and how many could not be listed.
SourcesListed(targets, answer) ==
    LET names(i) == SelectSeq([j \in DOMAIN answer[i].items |-> RepoName(answer[i].items[j])],
                              LAMBDA n : n # "")
    IN  [sources |-> FlattenSeq([i \in DOMAIN targets |->
                        [j \in DOMAIN names(i) |->
                            Source(targets[i].key, targets[i].org, names(i)[j])]]),
         failed |-> Cardinality({i \in DOMAIN targets : ~answer[i].ok})]
EnumerateRepoSources(net, targets) ==
    SourcesListed(targets,
                  [i \in DOMAIN targets |->
                      RequestForInstance(net, targets[i].key, <<"orgs", targets[i].org>>, 0)])

\* Mutant of WithEnumerated: a failed listing is not counted.
WithEnumerated_ForgetsFailures(net, resolved) ==
    [sources |-> resolved.sources \o EnumerateRepoSources(net, resolved.targets).sources,
     failed |-> 0]

WithEnumerated(net, resolved) ==
    LET enumerated == EnumerateRepoSources(net, resolved.targets)
    IN  [sources |-> resolved.sources \o enumerated.sources,
         failed |-> enumerated.failed]
GithubSpec(net, rows, names) ==
    WithEnumerated(net, ResolveRepoSources(Merge("GITHUB", net.env, rows).instances, names))

-----------------------------------------------------------------------------
(* Activities.                                                             *)

\* A title counts when it says what format it is of: one, and one for each of
\* the two subjects.
AlgorithmResearchHits(title) ==
    IF "format" \in title.marks THEN Cardinality(title.marks) ELSE 0

\* Of a commit message without its trailer lines, if enough is left.
ContentFingerprint(message) == IF message.long THEN message.text ELSE ""

\* A commit has a SHA, a pull request says so, and another number is an issue;
\* what lacks an author is dropped.
MapGithubActivity(raw, key, repo) ==
    LET kind == CASE raw.sha # "" -> "commit"
                  [] raw.sha = "" /\ raw.pull -> "pr"
                  [] OTHER -> "issue"
    IN  IF raw.author = "" \/ (raw.sha = "" /\ raw.number = "") THEN <<>>
        ELSE <<[source |-> "github", kind |-> kind, key |-> key, place |-> repo,
                id |-> IF kind = "commit" THEN raw.sha ELSE raw.number,
                author |-> raw.author, at |-> raw.at, version |-> 0,
                titleLength |-> raw.title.length,
                hits |-> IF kind = "issue" THEN AlgorithmResearchHits(raw.title) ELSE 0,
                print |-> IF kind = "commit" THEN ContentFingerprint(raw.message)
                          ELSE ""]>>

\* A page is its last version, by whom that is of.
MapConfluenceActivity(raw, key, space) ==
    IF raw.author = "" \/ raw.version = 0 THEN <<>>
    ELSE <<[source |-> "confluence", kind |-> "page", key |-> key, place |-> space,
            id |-> raw.id, author |-> raw.author, at |-> raw.at,
            version |-> raw.version, titleLength |-> raw.title.length,
            hits |-> AlgorithmResearchHits(raw.title), print |-> ""]>>

\* A commit is one wherever it is found; a number is of a repository, of
\* whatever instance.
GithubKey(a) ==
    IF a.kind = "commit" THEN <<"commit", a.id>> ELSE <<a.kind, a.place, a.id>>

Times(activities) == [i \in DOMAIN activities |-> activities[i].at]

DedupGithub(activities) ==
    DedupBy(activities, [i \in DOMAIN activities |-> GithubKey(activities[i])],
            Times(activities))

\* Commits of an author with the same message are one; what has no fingerprint
\* stays.
ContentKey(a) ==
    IF a.print = "" THEN GithubKey(a) ELSE <<"content", a.author, a.print>>

DedupByContent(activities) ==
    DedupBy(activities, [i \in DOMAIN activities |-> ContentKey(activities[i])],
            Times(activities))

DedupConfluence(activities) ==
    DedupBy(activities, [i \in DOMAIN activities |-> activities[i].id],
            [i \in DOMAIN activities |-> -activities[i].version])

-----------------------------------------------------------------------------
(* Collecting.                                                             *)

NoContent(endpoint) ==
    CASE endpoint = "commits" -> "409"
      [] endpoint = "issues" -> "410"
      [] OTHER -> "no such answer"

\* Three calls of a source: one that fails is counted, unless the answer says
\* that there is nothing of the kind.
CallsOf(sources) ==
    FlattenSeq([i \in DOMAIN sources |->
                   [e \in 1..3 |-> <<sources[i], <<"commits", "pulls", "issues">>[e]>>]])
AnswersTo(net, calls, since) ==
    [i \in DOMAIN calls |->
        RequestForInstance(net, calls[i][1].key,
                           <<"repos", calls[i][1].org, calls[i][1].repo, calls[i][2]>>, since)]
ActivitiesAnswered(calls, answer) ==
    LET mapped(i) == FlattenSeq([j \in DOMAIN answer[i].items |->
                        MapGithubActivity(answer[i].items[j], calls[i][1].key,
                                          <<calls[i][1].org, calls[i][1].repo>>)])
        failed == {i \in DOMAIN calls : /\ ~answer[i].ok
                                        /\ answer[i].status # NoContent(calls[i][2])}
    IN  [activities |-> DedupByContent(DedupGithub(
                            FlattenSeq([i \in DOMAIN calls |-> mapped(i)]))),
         failed |-> Cardinality(failed)]
CollectOfCalls(net, calls, since) == ActivitiesAnswered(calls, AnswersTo(net, calls, since))
CollectGithub(net, sources, since) == CollectOfCalls(net, CallsOf(sources), since)

\* The spaces of the list, one after another: one that fails is left out, and a
\* token that cannot be read ends the instance.
TraverseInstance(net, instance) ==
    LET answer(space) == RequestAllPagesOfSpace(Serve(net, instance.host, <<"space", space>>, 0))
        read == IF instance.token = "broken" THEN <<>>
                ELSE SelectSeq(instance.spaces, LAMBDA s : answer(s).ok)
    IN  [thrown |-> instance.token = "broken",
         spaces |-> [i \in DOMAIN read |->
                        [key |-> read[i], pages |-> answer(read[i]).items]]]

ActivitiesTraversed(instances, of) ==
    LET failed(i) == IF of[i].thrown THEN 1
                     ELSE Len(instances[i].spaces) - Len(of[i].spaces)
        mapped(i, s) == FlattenSeq([j \in DOMAIN s.pages |->
                            MapConfluenceActivity(s.pages[j], instances[i].key, s.key)])
        ofInstance(i) == FlattenSeq([j \in DOMAIN of[i].spaces |->
                                        mapped(i, of[i].spaces[j])])
    IN  [activities |-> DedupConfluence(
                            FlattenSeq([i \in DOMAIN instances |-> ofInstance(i)])),
         failed |-> FoldFunction(+, 0, [i \in DOMAIN instances |-> failed(i)])]
CollectConfluence(net, instances) ==
    ActivitiesTraversed(instances,
                        [i \in DOMAIN instances |-> TraverseInstance(net, instances[i])])

Both(github, confluence) ==
    [activities |-> github.activities \o confluence.activities,
     failed |-> github.failed + confluence.failed]
CollectActivities(net, spec, since) ==
    Both(CollectGithub(net, spec.sources, since), CollectConfluence(net, spec.instances))

-----------------------------------------------------------------------------
(* Whether it is complete.                                                 *)

\* No name that is listed lacks a usable instance, some name has one, and a name
\* that is listed nowhere is let pass only beside a repository service.
Covered(names, github, confluence, excluded) ==
    LET listed == names \intersect (github.listed \union confluence.listed)
        covers(c) == IF c.repos = <<>> THEN c.orgs # <<>>
                     ELSE \A i \in DOMAIN c.repos : SourcesOfToken(c, c.repos[i]) # <<>>
        githubOk(n) == LET found == OfName(github.instances, n)
                       IN  found # <<>> /\ covers(found[1])
        confluenceOk(n) == \E i \in DOMAIN confluence.instances :
                              /\ Normal(confluence.instances[i].key) = n
                              /\ confluence.instances[i].spaces # <<>>
        unavailable == {n \in listed : \/ n \in github.listed /\ ~githubOk(n)
                                       \/ n \in confluence.listed /\ ~confluenceOk(n)}
    IN  /\ unavailable = {}
        /\ listed # {}
        /\ names \subseteq listed \union excluded
           \/ listed \intersect github.listed # {}
Coverage(names, env, rows) ==
    Covered(names, Merge("GITHUB", env, rows), Merge("CONFLUENCE", env, rows),
            {Normal(r.key) : r \in {s \in rows : ~s.active}})

Names(person) == {Normal(i.service) : i \in person}

InWindow(activities, since, until) ==
    SelectSeq(activities, LAMBDA a : since <= a.at /\ a.at < until)

\* By the account the person has at the instance, in whatever spelling.
ByAuthor(activities, person) ==
    SelectSeq(activities, LAMBDA a : \E i \in person :
        Normal(i.service) = Normal(a.key) /\ i.externalId = a.author)

\* What a screen shows without storing it: whatever could be collected, of all
\* instances of pages.  The rows are read before the calls.
CollectAnyway(person, since, until, rows, net) ==
    LET spec == [sources |-> GithubSpec(net, rows, Names(person)).sources,
                 instances |-> Merge("CONFLUENCE", net.env, rows).instances]
    IN  ByAuthor(InWindow(CollectActivities(net, spec, since).activities, since, until),
                 person)

\* What is stored of a period: nothing, unless the collection was complete.
InstancesOf(person, net, rows) ==
    SelectSeq(Merge("CONFLUENCE", net.env, rows).instances,
              LAMBDA c : Normal(c.key) \in Names(person))
KeptOf(person, since, until, collected, complete) ==
    [complete |-> complete,
     activities |-> IF complete
                    THEN ByAuthor(InWindow(collected.activities, since, until), person)
                    ELSE <<>>]
KeptIfComplete(person, since, until, collected, covered) ==
    KeptOf(person, since, until, collected, covered /\ collected.failed = 0)
CollectOfSpec(person, since, until, rows, net, github) ==
    KeptIfComplete(person, since, until,
                   CollectActivities(net, [sources |-> github.sources,
                                           instances |-> InstancesOf(person, net, rows)],
                                     since),
                   Coverage(Names(person), net.env, rows) /\ github.failed = 0)
CollectIfComplete(person, since, until, rows, net) ==
    CollectOfSpec(person, since, until, rows, net, GithubSpec(net, rows, Names(person)))

=============================================================================
