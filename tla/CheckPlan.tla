------------------------------ MODULE CheckPlan ------------------------------
(***************************************************************************)
(* The checks of a pull request or of a push to main: the plan made from   *)
(* the changed paths (selectPullRequestChecks.js), the consumers that the  *)
(* workflows start for it, the suites they run, and the gate               *)
(* (evaluatePullRequestChecks.js).                                         *)
(*                                                                         *)
(* A path stands for the paths of its class, and is named after one of     *)
(* them; a plan's scopes are the set of the selected ones.                 *)
(***************************************************************************)
EXTENDS Naturals

CONSTANTS
  Events,       \* [kind, packages] of runs
  Changeable,   \* paths a revision may change
  MaxChanges    \* bound: changed paths

\* The suite of the build stands for both of its family; packages are asked for by hand
\* or, for a repository, for all its runs.
ASSUME CheckPlanAssumption ==
  /\ "assets.test.js" \notin Changeable
  /\ \A e \in Events : e.packages = "manual" => e.kind = "workflow_dispatch"

VARIABLES
  event,      \* [kind, packages] of the run
  changes,    \* [path, status] of the revision against its base; added is modified, "M"
  plan,       \* the plan, <<>> before the selector has written one
  results,    \* result of each job the gate needs
  ran,        \* suites that have passed
  failed,     \* jobs that have failed
  verdict     \* what the gate has said

planVars == <<event, changes, plan, results, ran, failed, verdict>>

-----------------------------------------------------------------------------
\* The inputs of each scope, of the classes of paths told apart here.
Common == {"selectPullRequestChecks.js", "pr-check-scopes.test.js", "package.json"}
OntologyPolicy == {"selectPullRequestChecks.js", "pr-check-scopes.test.js", "core.ttl",
                   "test_ontology_policy.py"}
SelectorInputs == {"selectPullRequestChecks.js", "pr-check-scopes.test.js"}
PythonSources == {"test_ontology_policy.py", "test_set_up_mcp_servers.py", "new_tool.py"}
NodeTests == {"pr-check-scopes.test.js", "configure-git-hooks.test.js",
              "json-quality.test.js", "manual-mcp-packages.test.js", "build.test.js",
              "uml.test.js", "documentation.test.js"}
ModulePaths == {"page.js", "server.js", "prepareManualMcpRelease.js", "query.test.js"}

ContentInputs ==
  [style_tooling |-> Common \cup {"json-quality.test.js"},
   python_style |-> PythonSources,
   python_tests |-> Common \cup PythonSources,
   documentation |-> {"mcp.md", "packages/README.md"}]
OntologyInputs ==
  [ontology_validation |-> OntologyPolicy,
   ontology_validation_workflow |-> SelectorInputs,
   ontology_entity_contracts |-> OntologyPolicy,
   ontology_policy_qa |-> OntologyPolicy \cup {"package.json"},
   ontology_qualification |-> OntologyPolicy]
DevelopmentInputs ==
  [agent_skills_lock |-> SelectorInputs \cup {"skills-lock.json"},
   development |-> Common \cup {"configure-git-hooks.test.js",
                                "test_set_up_mcp_servers.py"}]
ProductInputs ==
  [product_tests |-> Common \cup ModulePaths \cup {"jest.config.js"}
                     \cup (NodeTests \ {"configure-git-hooks.test.js",
                                        "documentation.test.js"}),
   mcp_artifacts |-> Common \cup {"server.js", "prepareManualMcpRelease.js",
                                  "query.test.js"},
   website_build |-> Common \cup {"core.ttl", "page.js", "query.test.js"},
   mcp_docs |-> Common \cup {"mcp.md", "packages/README.md", "documentation.test.js"}]

\* Paths no literal input names, and that are no document and no page module.
Unlisted == {"manual-mcp-packages.test.js", "build.test.js", "uml.test.js", "new_tool.py",
             "Containerfile"}
Orchestration == {"manual-mcp-packages.yml", "ontology-validation.yml",
                  "selectPullRequestChecks.js"}
ControlInputs == {"manual-mcp-packages.yml", "prepareManualMcpRelease.js",
                  "manual-mcp-packages.test.js"}
PythonOnly == {"test_ontology_policy.py"}
FamilySuites == [build |-> {"build.test.js", "assets.test.js"},
                 query |-> {"query.test.js"}]
FamilyTests == UNION {FamilySuites[f] : f \in DOMAIN FamilySuites}

If(condition, name) == IF condition THEN {name} ELSE {}
Paths(r) == {c.path : c \in r}
Owned(inputs, paths) == {n \in DOMAIN inputs : inputs[n] \cap paths # {}}

-----------------------------------------------------------------------------
\* CORE_SCOPE_TO_JOBS, by consumer.
ScopesOf ==
  [development |-> DOMAIN ContentInputs \cup DOMAIN DevelopmentInputs
                   \cup {"python_setup_tests"},
   ontology |-> DOMAIN OntologyInputs,
   node |-> {"product_tests", "ci_control", "mcp_artifacts", "website_build",
             "mcp_application", "mcp_release_qualification"},
   website |-> {"website_build"},
   distribution |-> {"mcp_artifacts", "mcp_docs", "mcp_application",
                     "mcp_release_qualification"}]
Consumers == DOMAIN ScopesOf
CoreScopes == UNION {ScopesOf[c] : c \in Consumers}

RequiredJobs(scopes) ==
  {c \in Consumers : ScopesOf[c] \cap scopes # {} \/ c = "development"}

\* Families of the known suites among the changed paths, whatever the others are.
FamiliesTouched(r) == {f \in DOMAIN FamilySuites : FamilySuites[f] \cap Paths(r) # {}}

\* changedNodeFamilies: all changed paths are known suites, added or modified.
Families(r) == IF /\ r # {}
                  /\ \A c \in r : c.path \in FamilyTests /\ c.status # "D"
               THEN {f \in DOMAIN FamilySuites : FamilySuites[f] \cap Paths(r) # {}}
               ELSE {}

\* The scopes of a comparison, before the package mode has its say.
ComparedScopes(r) ==
  LET wide == (Unlisted \cup Orchestration) \cap Paths(r) # {}
      owned == Owned(ContentInputs, Paths(r)) \cup Owned(OntologyInputs, Paths(r))
               \cup Owned(DevelopmentInputs, Paths(r)) \cup Owned(ProductInputs, Paths(r))
               \cup If("packages/README.md" \in Paths(r), "mcp_artifacts")
      python == owned \cap {"python_tests"} # {}
  IN IF wide THEN CoreScopes
     ELSE owned \cup If("mcp_artifacts" \in owned, "mcp_application")
                \cup If(python /\ ~(Paths(r) # {} /\ Paths(r) \subseteq PythonOnly),
                        "python_setup_tests")

ChangedScopes(r) ==
  IF event.packages = "disabled" /\ Paths(r) # {} /\ Paths(r) \subseteq ControlInputs
  THEN {"ci_control"}
  ELSE IF event.packages = "disabled" /\ Families(r) # {} THEN {"product_tests"}
  ELSE ComparedScopes(r)

Full == event.kind \in {"workflow_dispatch", "push_without_base"}

Scopes(r) == ((IF Full THEN CoreScopes ELSE ChangedScopes(r))
           \ (If(event.packages = "disabled", "mcp_artifacts")
              \cup If(event.packages # "manual", "mcp_release_qualification")))

CreateCheckPlan(r) ==
  [scopes |-> Scopes(r), full |-> Full, required |-> RequiredJobs(Scopes(r))]

\* The rules of the schema of a plan, which the generated validator checks.
FullSelectsSources(p) ==
  p.full => CoreScopes \ {"mcp_artifacts", "mcp_release_qualification"} \subseteq p.scopes
DisabledSelectsNoPackages(p) ==
  event.packages = "disabled"
    => {"mcp_artifacts", "mcp_release_qualification"} \cap p.scopes = {}
ManualSelectsAll(p) ==
  event.packages = "manual"
    => p.full /\ {"mcp_artifacts", "mcp_release_qualification"} \subseteq p.scopes
CiReleasesNothing(p) ==
  event.packages = "ci" => "mcp_release_qualification" \notin p.scopes
FullCiSelectsArtifacts(p) ==
  event.packages = "ci" /\ p.full => "mcp_artifacts" \in p.scopes
ArtifactsNeedApplication(p) ==
  "mcp_artifacts" \in p.scopes => "mcp_application" \in p.scopes
ReleaseNeedsArtifacts(p) ==
  "mcp_release_qualification" \in p.scopes => "mcp_artifacts" \in p.scopes
NamesConsumers(p) == p.required \subseteq Consumers
IsSchemaPlan(p) ==
  /\ FullSelectsSources(p) /\ DisabledSelectsNoPackages(p) /\ ManualSelectsAll(p)
  /\ CiReleasesNothing(p) /\ FullCiSelectsArtifacts(p) /\ ArtifactsNeedApplication(p)
  /\ ReleaseNeedsArtifacts(p) /\ NamesConsumers(p)

\* assertCheckPlan
IsCheckPlan(p) == /\ IsSchemaPlan(p)
                  /\ p.required = RequiredJobs(p.scopes)
                  /\ "ci_control" \in p.scopes /\ "product_tests" \notin p.scopes
                     => p.scopes = {"ci_control"}

-----------------------------------------------------------------------------
\* The jobs of a consumer: those its completion asks for, and those its workflow starts.
ConsumerJobs(c, s) ==
  CASE c = "development" ->
         {"scope", "documentation", "json-quality"}
         \cup If("python_style" \in s /\ "style_tooling" \notin s, "python-style")
         \cup If("python_tests" \in s, "python-tests")
         \cup If("python_setup_tests" \in s, "python-node-tests")
         \cup If("agent_skills_lock" \in s, "agent-skills-lock")
         \cup If("style_tooling" \in s, "style-tooling")
         \cup If("development" \in s, "checks")
    [] c = "ontology" ->
         {"validate-ontologies"}
         \cup If({"ontology_policy_qa", "ontology_entity_contracts"} \cap s # {},
                 "policy-qa")
         \cup If("ontology_qualification" \in s, "qualify")
    [] c = "distribution" ->
         {"scope", "validate"}
         \cup IF "mcp_artifacts" \in s THEN {"archive", "container", "assemble"} ELSE {}
    [] OTHER -> {c}

\* A distribution is validated for any of five scopes; the rest starts as it is asked for.
StartedJobs(c, s) ==
  IF c = "distribution"
     /\ {"product_tests", "mcp_application", "mcp_artifacts", "website_build", "mcp_docs"}
        \cap s = {}
  THEN {"scope"}
  ELSE ConsumerJobs(c, s)

ControlSuites == {"pr-check-scopes.test.js", "manual-mcp-packages.test.js"}
AllNodeSuites == NodeTests \cup FamilyTests
AllSuites == AllNodeSuites \cup {"test_ontology_policy.py", "test_set_up_mcp_servers.py"}

\* nodeCheckArguments; the families are computed again in the job.
IgnoredSuites(s) ==
  {"json-quality.test.js"}
  \cup IF "development" \in s
       THEN {"configure-git-hooks.test.js", "pr-check-scopes.test.js"} ELSE {}

NodeSuites(p, r) ==
  IF p.scopes = {"ci_control"} THEN ControlSuites
  ELSE IF /\ ~p.full /\ event.packages = "disabled"
          /\ p.scopes = {"product_tests"} /\ Families(r) # {}
       THEN UNION {FamilySuites[f] : f \in Families(r)}
  ELSE AllNodeSuites \ IgnoredSuites(p.scopes)

\* The suites each job runs.
JobSuites(p, r, job) ==
  CASE job = "node" -> NodeSuites(p, r)
    [] job = "python-tests" -> {"test_ontology_policy.py"}
    [] job = "python-node-tests" -> {"test_set_up_mcp_servers.py"}
    [] job = "style-tooling" -> {"json-quality.test.js"}
    [] job = "checks" ->
         {"configure-git-hooks.test.js", "pr-check-scopes.test.js"}
         \cup If("python_setup_tests" \notin p.scopes, "test_set_up_mcp_servers.py")
    [] job = "policy-qa" ->
         If(p.scopes \cap {"ontology_policy_qa", "python_tests"} = {"ontology_policy_qa"},
            "test_ontology_policy.py")
    [] job = "validate" ->
         If(p.scopes \cap {"mcp_docs", "product_tests", "mcp_artifacts", "website_build"}
              = {"mcp_docs"}, "documentation.test.js")
    [] OTHER -> {}

Suites(p, r) == UNION {JobSuites(p, r, j) :
                      j \in UNION {StartedJobs(c, p.scopes) : c \in p.required}}

-----------------------------------------------------------------------------
Revisions == {{}} \cup {{change[n] : n \in 1..MaxChanges} :
                         change \in [1..MaxChanges -> [path : Changeable,
                                                       status : {"M", "D"}]]}

CheckPlanInit ==
  /\ event \in Events
  /\ changes \in {r \in Revisions : \A c, d \in r : c.path = d.path => c = d}
  /\ plan = <<>> /\ ran = {} /\ failed = {} /\ verdict = "none"
  /\ results = [j \in Consumers \cup {"select"} |-> "pending"]

\* The selector.
SelectChecks ==
  /\ results["select"] = "pending"
  /\ IF IsCheckPlan(CreateCheckPlan(changes))
     THEN /\ plan' = CreateCheckPlan(changes)
          /\ results' = [results EXCEPT !["select"] = "success"]
     ELSE /\ results' = [results EXCEPT !["select"] = "failure"] /\ UNCHANGED plan
  /\ UNCHANGED <<event, changes, ran, failed, verdict>>

\* A distribution that starts only where there are Node suites.
StartsAfterSuites(c) == /\ results["select"] = "success" /\ c \in plan.required
                        /\ c \in {"website", "distribution"} => results["node"] = "success"

\* The condition under which the workflow starts a consumer.
Starts(c) == /\ results["select"] = "success" /\ c \in plan.required
             /\ c = "website" => results["node"] = "success"
             /\ c = "distribution" => results["node"] \in {"success", "skipped"}

\* Consumers share nothing but what one needs of another, so they are run in one order
\* of theirs, and one job fails at most.
Order == <<"development", "ontology", "node", "website", "distribution">>
Turn(c) == /\ results["select"] # "pending" /\ results[c] = "pending"
           /\ \A i, j \in DOMAIN Order :
                i < j /\ Order[j] = c => results[Order[i]] # "pending"

SkipConsumer(c) ==
  /\ Turn(c) /\ ~Starts(c)
  /\ results' = [results EXCEPT ![c] = "skipped"]
  /\ UNCHANGED <<event, changes, plan, ran, failed, verdict>>

\* A consumer runs its jobs, one of which may fail, and completes if it has seen all
\* that the plan asks for.
RunConsumer(c) ==
  /\ Turn(c) /\ Starts(c)
  /\ \E broken \in {{}} \cup {{j} : j \in StartedJobs(c, plan.scopes)} :
       LET passed == StartedJobs(c, plan.scopes) \ broken
           complete == broken = {} /\ ConsumerJobs(c, plan.scopes) \subseteq passed
       IN /\ broken = {} \/ failed = {}
          /\ failed' = failed \cup broken
          /\ ran' = ran \cup UNION {JobSuites(plan, changes, j) : j \in passed}
          /\ results' = [results EXCEPT ![c] = IF complete THEN "success" ELSE "failure"]
  /\ UNCHANGED <<event, changes, plan, verdict>>

\* A newer revision cancels the run, or a maintainer does.
CancelRun ==
  /\ verdict = "none" /\ \E j \in DOMAIN results : results[j] = "pending"
  /\ results' = [j \in DOMAIN results |->
                   IF results[j] = "pending" THEN "cancelled" ELSE results[j]]
  /\ UNCHANGED <<event, changes, plan, ran, failed, verdict>>

\* evaluatePullRequestChecks, once everything it needs has ended.
Evaluate ==
  /\ verdict = "none" /\ \A j \in DOMAIN results : results[j] # "pending"
  /\ verdict' = IF /\ results["select"] = "success"
                   /\ \A c \in Consumers :
                        \/ results[c] = "success"
                        \/ results[c] = "skipped" /\ c \notin plan.required
                THEN "green" ELSE "red"
  /\ UNCHANGED <<event, changes, plan, results, ran, failed>>

CheckPlanNext == \/ SelectChecks \/ CancelRun \/ Evaluate
                 \/ \E c \in Consumers : SkipConsumer(c) \/ RunConsumer(c)

CheckPlanSpec == CheckPlanInit /\ [][CheckPlanNext]_planVars

-----------------------------------------------------------------------------
\* A green gate has every suite that the revision adds or changes among those that have
\* passed, and every consumer of the plan among those that succeeded: no narrow route and
\* no division of the suites among jobs loses one.
GreenIsEarned ==
  verdict = "green" =>
    /\ \A c \in plan.required : results[c] = "success"
    /\ \A c \in changes : c.status # "D" /\ c.path \in AllSuites => c.path \in ran

\* The plan, the conditions of the workflows and the gate agree: a gate is red only when
\* a job has failed or the run has been cancelled.
RedHasAReason ==
  verdict = "red" => failed # {} \/ \E c \in Consumers : results[c] = "cancelled"

\* A revision that changes more runs more: no further path takes a suite or a consumer
\* away from those that the others have asked for.
SelectionMonotone ==
  plan # <<>> /\ results["development"] = "pending" =>
    \A c \in changes :
      LET less == CreateCheckPlan(changes \ {c})
      IN /\ less.required \subseteq plan.required
         /\ Suites(less, changes \ {c}) \subseteq Suites(plan, changes)
=============================================================================
