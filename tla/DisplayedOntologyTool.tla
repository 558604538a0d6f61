------------------------ MODULE DisplayedOntologyTool ------------------------
(***************************************************************************)
(* The tool that the page of an ontology registers with the browser, and   *)
(* its executions (ontology.js, src/src/webmcp): the registration and the  *)
(* page's end, the resolver that is loaded on first use, and what a call   *)
(* answers while versions of the ontology are published.                   *)
(***************************************************************************)
EXTENDS Naturals, Sequences, FiniteSets

CONSTANTS
  Uses,       \* calls of the tool
  Versions,   \* versions of the ontology
  MaxLoads    \* bound: loads of the resolver
ASSUME ToolAssumption == Versions \subseteq Nat \ {0} /\ MaxLoads \in Nat

VARIABLES
  tab,            \* "loading", "shown", "cached" for back and forward, or "gone"
  shown,          \* [address, tag, version]: the address, by an alias, a version's tag or
                  \* of a preview, and the version of the document
  served,         \* version IRI that the catalog has for each version tag, Absent if none
  registration,   \* "none", "importing", "registering", "registered", "failed" or "declined"
  listening,      \* the page listens for its end; the signal has not been aborted
  tool,           \* the browser offers the tool
  loads,          \* loads of the resolver: [creator, status]
  resolver,       \* the load whose promise is kept, 0 if none
  uses            \* each call, see NoUse

pageLife == <<tab, shown, registration, listening, tool>>
toolVars == <<pageLife, served, loads, resolver, uses>>

Absent == 0
Malformed == 0      \* of a document that has no version IRI
NoTag == 0
Documents == [address : {"alias", "preview"}, tag : {NoTag},
              version : Versions \cup {Malformed}]
             \cup [address : {"tag"}, tag : Versions, version : Versions \cup {Malformed}]

NoUse == [stage |-> "idle", reference |-> "none", load |-> 0, asked |-> 0,
          aborted |-> FALSE, outcome |-> "none", release |-> Absent]
Outcome(u, outcome) == [u EXCEPT !.stage = "ended", !.outcome = outcome]

-----------------------------------------------------------------------------
\* tryCreateDisplayedOntologyReleaseContext: variants that are not indexed have no
\* context, and a document whose version is not that of its address is an error.
Indexed(d) == d.address # "preview"
WellFormed(d) == d.version # Malformed /\ (d.address = "tag" => d.tag = d.version)

ToolInit ==
  /\ tab = "loading" /\ shown \in Documents /\ ~Indexed(shown) /\ ~WellFormed(shown)
  /\ served = [v \in Versions |-> v]
  /\ registration = "none" /\ listening = FALSE /\ tool = FALSE
  /\ loads = <<>> /\ resolver = 0 /\ uses = [u \in Uses |-> NoUse]

\* The page is rendered; only a browser that has tools is asked for one.
Render ==
  /\ tab = "loading" /\ tab' = "shown" /\ shown' \in Documents
  /\ \E supported \in BOOLEAN :
       /\ registration' = IF supported THEN "importing" ELSE "none"
       /\ listening' = supported
  /\ UNCHANGED <<served, tool, loads, resolver, uses>>

\* The chunk has arrived, or not.
Import ==
  /\ tab \in {"shown", "gone"} /\ registration = "importing"
  /\ \/ registration' = "failed"
     \/ registration' = IF ~listening \/ ~Indexed(shown) THEN "declined"
                        ELSE IF WellFormed(shown) THEN "registering" ELSE "failed"
  /\ listening' = (listening /\ registration' = "registering")
  /\ UNCHANGED <<tab, shown, served, tool, loads, resolver, uses>>

\* The browser registers the tool, unless the signal has been aborted, or refuses.
RegisterTool ==
  /\ tab \in {"shown", "gone"} /\ registration = "registering"
  /\ registration' \in IF listening THEN {"registered", "failed"} ELSE {"failed"}
  /\ listening' = (registration' = "registered")
  /\ tool' = (registration' = "registered")
  /\ UNCHANGED <<tab, shown, served, loads, resolver, uses>>

\* pagehide: a page that is kept keeps its tool.  The browser withdraws a tool whose
\* signal is aborted.
PageHide ==
  /\ tab = "shown"
  /\ \E persisted \in BOOLEAN :
       /\ tab' = IF persisted THEN "cached" ELSE "gone"
       /\ listening' = (listening /\ persisted)
       /\ tool' = (tool /\ persisted)
  /\ UNCHANGED <<shown, served, registration, loads, resolver, uses>>

PageShow == /\ tab = "cached" /\ tab' = "shown"
            /\ UNCHANGED <<shown, served, registration, listening, tool, loads, resolver,
                           uses>>

\* A version is published, withdrawn or published again with another IRI.
Publish == /\ tab # "loading"
           /\ \E v \in Versions, iri \in Versions \cup {Absent} :
                served' = [served EXCEPT ![v] = iri]
           /\ UNCHANGED <<pageLife, loads, resolver, uses>>

-----------------------------------------------------------------------------
\* What a call may ask for: input that is no reference, a reference that is too long or
\* blank, an IRI that is a UUID too, and other IRIs, UUIDs and labels, of one meaning each.
References == {"input", "blank", "uuid_urn", "other"}

\* The execution up to its first await.  (Bound: MaxLoads.)
Execute(u) ==
  /\ tab = "shown" /\ tool /\ uses[u].stage = "idle"
  /\ \E reference \in References :
       IF reference = "input"
       THEN /\ uses' = [uses EXCEPT ![u] = Outcome([@ EXCEPT !.reference = reference],
                                                   "invalid_input")]
            /\ UNCHANGED <<loads, resolver>>
       ELSE /\ resolver = 0 => Len(loads) < MaxLoads
            /\ IF resolver = 0
               THEN /\ loads' = Append(loads, [creator |-> u, status |-> "loading"])
                    /\ resolver' = Len(loads')
               ELSE UNCHANGED <<loads, resolver>>
            /\ uses' = [uses EXCEPT ![u].stage = "awaiting", ![u].reference = reference,
                                    ![u].load = resolver']
  /\ UNCHANGED <<pageLife, served>>

\* The chunk with the resolver arrives, or cannot be loaded or used.
LoadEnds(n) ==
  /\ tab = "shown" /\ loads[n].status = "loading"
  /\ \E status \in {"ready", "failed"} : loads' = [loads EXCEPT ![n].status = status]
  /\ UNCHANGED <<pageLife, served, resolver, uses>>

\* Failed promises are not kept, for the next call to load again.
KeepAnyPromise(u) == resolver
KeptPromise(u) == IF /\ loads[uses[u].load].status = "failed"
                     /\ loads[uses[u].load].creator = u
                  THEN 0 ELSE resolver

\* A call goes on, its creator before the others, which wait for one promise more.
Resume(u) ==
  /\ tab = "shown" /\ uses[u].stage = "awaiting"
  /\ loads[uses[u].load].status # "loading"
  /\ LET creator == loads[uses[u].load].creator
     IN creator = u \/ uses[creator].stage # "awaiting"
  /\ resolver' = KeptPromise(u)
  /\ uses' = [uses EXCEPT ![u] =
                IF loads[@.load].status = "failed" THEN Outcome(@, "rejected")
                ELSE IF @.aborted THEN Outcome(@, "aborted")
                ELSE IF @.reference = "blank" THEN Outcome(@, "invalid_reference")
                ELSE [@ EXCEPT !.stage = "asking", !.asked = 1]]
  /\ UNCHANGED <<pageLife, served, loads>>

-----------------------------------------------------------------------------
\* createSpecifiedReleaseSelection
Selected == shown.version

\* The identity of the release is not compared.
AnsweredUnchecked(u, status) == [Outcome(u, status) EXCEPT !.release = served[Selected]]

\* The query module answers from the catalog of the moment, and the resolver with it
\* only if its release is the one displayed.  An IRI that is a UUID too is asked for a
\* second time.
Answered(u, status) ==
  IF status = "not_found" /\ u.reference = "uuid_urn" /\ u.asked = 1
  THEN [u EXCEPT !.asked = 2]
  ELSE IF served[Selected] # shown.version THEN Outcome(u, "mismatch")
  ELSE [Outcome(u, status) EXCEPT !.release = served[Selected]]

QueryEnds(u) ==
  /\ tab = "shown" /\ uses[u].stage = "asking"
  /\ uses' \in
       IF uses[u].aborted THEN {[uses EXCEPT ![u] = Outcome(@, "aborted")]}
       ELSE {[uses EXCEPT ![u].stage = "reporting"]} \cup
            IF served[Selected] = Absent THEN {[uses EXCEPT ![u] = Outcome(@, "failure")]}
            ELSE {[uses EXCEPT ![u] = Answered(@, status)] :
                    status \in {"found", "not_found", "ambiguous"}}
  /\ UNCHANGED <<pageLife, served, loads, resolver>>

\* An error that is none of the query module's is reported, and answered as a failure.
ReportEnds(u) ==
  /\ tab = "shown" /\ uses[u].stage = "reporting"
  /\ uses' = [uses EXCEPT ![u] = Outcome(@, IF @.aborted THEN "aborted" ELSE "failure")]
  /\ UNCHANGED <<pageLife, served, loads, resolver>>

AbortUse(u) ==
  /\ uses[u].stage \in {"awaiting", "asking", "reporting"} /\ ~uses[u].aborted
  /\ uses' = [uses EXCEPT ![u].aborted = TRUE]
  /\ UNCHANGED <<pageLife, served, loads, resolver>>

ToolNext ==
  \/ Render \/ Import \/ RegisterTool \/ PageHide \/ PageShow \/ Publish
  \/ \E u \in Uses :
       Execute(u) \/ Resume(u) \/ QueryEnds(u) \/ ReportEnds(u) \/ AbortUse(u)
  \/ \E n \in DOMAIN loads : LoadEnds(n)

ToolSpec == ToolInit /\ [][ToolNext]_toolVars

-----------------------------------------------------------------------------
\* The browser offers the tool only on a page that is there and shows an indexed version,
\* and a page whose registration came to nothing no longer listens for its end.
ToolBelongsToPage ==
  /\ tool => /\ tab \in {"shown", "cached"} /\ registration = "registered"
             /\ Indexed(shown) /\ WellFormed(shown)
  /\ registration \in {"failed", "declined"} \/ tab = "gone" => ~listening

\* Of the loads that did not fail there is at most one, so calls share their resolver; and
\* no call joins a load that has rejected another call already: it loads again.
LoadsAreRetried ==
  /\ Cardinality({n \in DOMAIN loads : loads[n].status # "failed"}) <= 1
  /\ \A u \in Uses : uses[u].outcome = "rejected" => uses[u].load # resolver

\* A call answers about the version in the page, whatever the address means by now, after
\* it has asked in every way the reference can be meant, and never once it is aborted.
AnswersAreOfDisplayed ==
  \A u \in Uses :
    uses[u].outcome \in {"found", "not_found", "ambiguous"} =>
      /\ uses[u].release = shown.version /\ ~uses[u].aborted
      /\ uses[u].outcome = "not_found" /\ uses[u].reference = "uuid_urn"
           => uses[u].asked = 2
=============================================================================
