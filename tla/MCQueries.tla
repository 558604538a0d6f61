----------------------------- MODULE MCQueries -----------------------------
(***************************************************************************)
(* The parts of the query engine that compute answers, and the delivery of *)
(* a revision, whose checks are a selection too, side by side: a behaviour *)
(* is one of the component named by "query", while the others stay where   *)
(* they start.                                                             *)
(***************************************************************************)
EXTENDS Integers, TLC, SnapshotSelection, OntologyIndexCache, SearchPages,
        OntologyContext, LexicalSearch, Delivery

VARIABLE query

CONSTANTS a, b, c, i

\* Three releases of one ontology or of several, and references to at most two.
MCSnapshots == {a, b, c}
MCIris == {i}

\* Three calls over three indexes: two fit into the budget together, one alone does not.
MCKeys == 1..3
MCByteSize == <<1, 2, 4>>

\* Five shapes of matches, three in a ranking: a definition that fits no page, two that
\* fit one page or two, none, and matches the source does not own.
MCMatches == {[owned |-> TRUE, definitions |-> d] : d \in {<<>>, <<1>>, <<2, 1>>, <<1, 4>>}}
             \cup {[owned |-> FALSE, definitions |-> <<1>>]}

\* Eight candidates of two entities, two in an index: labels of the current and of older
\* properties with tags, a definition, an identifier, the local name of an IRI.
MCNotALiteral == <<0>>
Candidate(kind, entity, property, text, tag) ==
  [kind |-> kind, entity |-> entity, property |-> property, text |-> text, tag |-> tag]
MCCandidates ==
  {Candidate("preferred_label", 1, 1, <<1>>, <<1>>),
   Candidate("preferred_label", 1, 2, <<1, 2>>, <<1, 2>>),
   Candidate("preferred_label", 2, 1, <<1, 2>>, <<>>),
   Candidate("preferred_label", 2, 2, <<1>>, <<3>>),
   Candidate("alternative_label", 1, 3, <<2>>, <<1>>),
   Candidate("lexical_definition", 2, 4, <<2, 1>>, <<1>>),
   Candidate("identifier", 1, 5, <<1>>, MCNotALiteral),
   Candidate("iri_local_name", 2, 0, <<1>>, MCNotALiteral)}
MCQueriedTexts == {<<>>, <<1>>, <<2>>, <<1, 2>>}
MCPreferences == {<<<<1, 2>>>>, <<<<3>>, <<1>>>>}
MCSelections == {<<1, 2, 1>>, <<3, 1>>}

\* Stores of at most three of seven edges over four entities, among them two ways from 1
\* to 3 and a cycle through both.
MCEdge(s, t, k) == [source |-> s, target |-> t, kind |-> k]
MCGraph == {MCEdge(1, 2, "asserted"), MCEdge(2, 3, "asserted"), MCEdge(1, 3, "filler"),
            MCEdge(1, 4, "property"), MCEdge(4, 3, "asserted"), MCEdge(3, 1, "asserted"),
            MCEdge(2, 1, "filler")}

\* A run of each way to plan; up to two changed paths, of all the classes but three that
\* others of their scopes stand for.
MCEvents == [kind : {"pull_request"}, packages : {"disabled", "ci"}]
            \cup [kind : {"push_without_base"}, packages : {"disabled", "ci"}]
            \cup [kind : {"workflow_dispatch"}, packages : {"manual"}]
MCChangeable ==
  {"selectPullRequestChecks.js", "pr-check-scopes.test.js", "test_ontology_policy.py",
   "test_set_up_mcp_servers.py", "configure-git-hooks.test.js", "json-quality.test.js",
   "manual-mcp-packages.test.js", "build.test.js", "uml.test.js", "documentation.test.js",
   "server.js", "prepareManualMcpRelease.js", "query.test.js", "core.ttl", "mcp.md",
   "packages/README.md", "manual-mcp-packages.yml", "skills-lock.json", "jest.config.js"}

\* Two runs of a pull request, one of them run again, on runners of two images; main
\* moves on once.
CONSTANTS m1, m2
MCImages == {m1, m2}

\* Two calls of the tool of a page, of one of two versions.
MCVersions == 1..2

\* Two modules, one of which has two artifacts; the first policy forbids second texts and
\* the second first ones; one qualification, and two changes meanwhile.
MCArtifactsOf == <<{1, 2}, {3}>>
MCViolating == {<<1, 2>>, <<2, 1>>}

\* Releases, or calls, and images are interchangeable.
MCInterchangeable == Permutations(MCSnapshots) \cup Permutations(MCImages)

-----------------------------------------------------------------------------
QueriesInit ==
  /\ query \in {"selection", "pages", "lexical", "context", "index", "checks",
                "reuse", "tool", "website"}
  /\ SelectionInit /\ PageInit /\ LexicalInit
  /\ ContextInit /\ IndexInit
  /\ query # "index" => callKey = [call0 \in MCSnapshots |-> 1]
  /\ DeliveryInit
  /\ query # "checks" => changes = {} /\ event.kind = "workflow_dispatch"

SelectionStep == /\ query = "selection" /\ SelectionNext
                 /\ UNCHANGED <<pageVars, lexicalVars, contextVars, indexVars,
                                deliveryVars>>
PagesStep == /\ query = "pages" /\ PageNext
             /\ UNCHANGED <<selectionVars, lexicalVars, contextVars, indexVars, deliveryVars>>
LexicalStep == /\ query = "lexical" /\ LexicalNext
               /\ UNCHANGED <<selectionVars, pageVars, contextVars, indexVars, deliveryVars>>
ContextStep == /\ query = "context" /\ ContextNext
               /\ UNCHANGED <<selectionVars, pageVars, lexicalVars, indexVars, deliveryVars>>
IndexStep == /\ query = "index" /\ IndexNext
             /\ UNCHANGED <<selectionVars, pageVars, lexicalVars, contextVars, deliveryVars>>
ChecksStep == /\ query = "checks" /\ CheckPlanNext
              /\ UNCHANGED <<selectionVars, pageVars, lexicalVars, contextVars, indexVars,
                             reuseVars, toolVars, websiteVars>>
ReuseStep == /\ query = "reuse" /\ ReuseNext
             /\ UNCHANGED <<selectionVars, pageVars, lexicalVars, contextVars, indexVars,
                            planVars, toolVars, websiteVars>>
ToolStep == /\ query = "tool" /\ ToolNext
            /\ UNCHANGED <<selectionVars, pageVars, lexicalVars, contextVars, indexVars,
                           planVars, reuseVars, websiteVars>>
WebsiteStep == /\ query = "website" /\ WebsiteNext
               /\ UNCHANGED <<selectionVars, pageVars, lexicalVars, contextVars, indexVars,
                              planVars, reuseVars, toolVars>>

QueriesNext == /\ UNCHANGED query
               /\ SelectionStep \/ PagesStep \/ LexicalStep \/ ContextStep \/ IndexStep
                  \/ ChecksStep \/ ReuseStep \/ ToolStep \/ WebsiteStep

queriesVars == <<query, selectionVars, pageVars, lexicalVars, contextVars, indexVars,
                 deliveryVars>>
QueriesSpec == QueriesInit /\ [][QueriesNext]_queriesVars

=============================================================================
