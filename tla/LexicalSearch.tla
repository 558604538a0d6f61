---------------------------- MODULE LexicalSearch ----------------------------
(***************************************************************************)
(* Search and resolution over the indexes of several releases, as           *)
(* createOntologyQueryModule.js does them: the choice of releases, the best *)
(* candidate of each entity, ranks, the label that is shown.                *)
(*                                                                         *)
(* A text is a sequence of one-letter words, a letter a number, so that     *)
(* prefix, substring and words are those of the sequence; a language tag is *)
(* a sequence of subtags.                                                  *)
(***************************************************************************)
EXTENDS Integers, SequencesExt, FiniteSetsExt

CONSTANTS
  Candidates,      \* [kind, entity, property, text, tag] of the indexes
  IndexSize,       \* bound: candidates in one index
  Queries,         \* texts; the empty one lists all entities
  Preferences,     \* preferredLanguageTags
  Selections,      \* releases a caller lists, by number; one may not be there
  CurrentProperty, \* the property today's policy projects labels from
  NotALiteral      \* the tag of a candidate that is an IRI

LexicalAssumption ==
  /\ Candidates \subseteq [kind : STRING, entity : Nat, property : Nat, text : Seq(Nat),
                            tag : Seq(Nat) \cup {NotALiteral}]
  /\ \A c \in Candidates : c.kind = "preferred_label" => c.tag \in Seq(Nat)
  /\ Queries \subseteq Seq(Nat) /\ Preferences \subseteq Seq(Seq(Nat))
  /\ Selections \subseteq Seq(Nat) /\ IndexSize \in Nat
ASSUME LexicalAssumption

VARIABLES
  indexes,   \* the index of each release of the catalog
  request,   \* [query, languages, releases], or <<>> before it
  answer     \* what search and resolution have answered

lexicalVars == <<indexes, request, answer>>

-----------------------------------------------------------------------------
\* Binary order of texts, and of keys made of texts.
TextBefore(s, t) == \/ \E n \in DOMAIN s \cap DOMAIN t :
                         s[n] < t[n] /\ \A m \in 1..(n - 1) : s[m] = t[m]
                    \/ IsStrictPrefix(s, t)
KeyBefore(k, l) == \E n \in DOMAIN k : /\ TextBefore(k[n], l[n])
                                       /\ \A m \in 1..(n - 1) : k[m] = l[m]

\* languageSelection: the first preference that is the tag or an extension of it, and how
\* many subtags have to go; no tag at all; any other language.
LanguageRank(tag, languages) ==
  LET ranks == {100 * (p - 1) + Len(languages[p]) - Len(tag) :
                  p \in {q \in DOMAIN languages : tag # <<>> /\ IsPrefix(tag, languages[q])}}
  IN IF ranks # {} THEN Min(ranks)
     ELSE IF tag = <<>> THEN 100 * Len(languages) + 1 ELSE 100000

BasesInOrder == << <<"preferred_label", "exact">>, <<"alternative_label", "exact">>,
            <<"identifier", "exact">>, <<"iri_local_name", "exact">>,
            <<"preferred_label", "prefix">>, <<"alternative_label", "prefix">>,
            <<"preferred_label", "substring">>, <<"alternative_label", "substring">>,
            <<"lexical_definition", "exact">>, <<"lexical_definition", "token_coverage">>,
            <<"lexical_definition", "substring">> >>
BasisOrder(basis) == CHOOSE n \in DOMAIN BasesInOrder : BasesInOrder[n] = basis

\* evaluateSearchCandidate: the bases on which a candidate matches; the first one counts.
MatchBases(c, query) ==
  LET Related == [exact |-> c.text = query,
                  prefix |-> IsPrefix(query, c.text),
                  substring |-> query \in SubSeqs(c.text),
                  token_coverage |-> ToSet(query) \subseteq ToSet(c.text)]
  IN {b \in ToSet(BasesInOrder) : b[1] = c.kind /\ Related[b[2]]}

MatchBasis(c, query) == BasesInOrder[Min({BasisOrder(b) : b \in MatchBases(c, query)})]

\* compareEvaluatedCandidates.
Key(c, req) ==
  << <<BasisOrder(MatchBasis(c, req.query))>>,
     <<IF c.tag = NotALiteral THEN 1000000 ELSE LanguageRank(c.tag, req.languages)>>,
     <<Len(c.text)>>, c.text, <<c.entity>>, <<c.property>> >>

\* compareSelectedLexicalCandidates.
LabelKey(c, req) ==
  << <<LanguageRank(c.tag, req.languages)>>,
     <<IF c.property = CurrentProperty THEN 0 ELSE 1>>, c.tag, c.text, <<c.property>> >>

\* Where the first of the least of some keys is.
Least(keys) ==
  CHOOSE n \in DOMAIN keys :
    /\ \A m \in DOMAIN keys : ~KeyBefore(keys[m], keys[n])
    /\ \A m \in DOMAIN keys : m < n => KeyBefore(keys[n], keys[m])

\* What has a key, in the order of the keys.
InKeyOrder(keys) ==
  CHOOSE s \in [1..Cardinality(DOMAIN keys) -> DOMAIN keys] :
    \A m, n \in DOMAIN s : m < n => KeyBefore(keys[s[m]], keys[s[n]])

-----------------------------------------------------------------------------
\* The candidates of some indexes, one after the other.
All(ixs) == FoldLeft(LAMBDA all, ix : all \o ix, <<>>, ixs)
EntitiesOf(ixs) == {c.entity : c \in ToSet(All(ixs))}

\* selectLexicalAssertion for the label of an entity, over the releases together.
Label(ixs, e, req) ==
  LET all == All(ixs)
      labels == {n \in DOMAIN all : all[n].entity = e /\ all[n].kind = "preferred_label"}
  IN IF labels = {} THEN <<>>
     ELSE all[Least([n \in labels |-> LabelKey(all[n], req)])].text

\* Where an entity matches.
Hits(ixs, e, req) == LET all == All(ixs)
                     IN {n \in DOMAIN all : /\ all[n].entity = e
                                           /\ MatchBases(all[n], req.query) # {}}

\* Mutant of Best: the first candidate that matches.
BestFirst(ixs, e, req) == All(ixs)[Min(Hits(ixs, e, req))]
\* bestCandidateByEntityIri: the first of the best candidates, in the order of releases.
Best(ixs, e, req) ==
  LET all == All(ixs)
  IN all[Least([n \in Hits(ixs, e, req) |-> Key(all[n], req)])]

\* searchOntologyEntities: the ranked entities, each with its basis and its label.
SearchEntities(ixs, req) ==
  LET found == {e \in EntitiesOf(ixs) : req.query = <<>> \/ Hits(ixs, e, req) # {}}
      ranked == InKeyOrder([e \in found |-> IF req.query = <<>> THEN <<<<e>>>>
                                         ELSE Key(Best(ixs, e, req), req)])
  IN [n \in DOMAIN ranked |->
        [entity |-> ranked[n], label |-> Label(ixs, ranked[n], req),
         basis |-> IF req.query = <<>> THEN <<>>
                   ELSE MatchBasis(Best(ixs, ranked[n], req), req.query)]]

\* resolveOntologyEntity by a preferred label: none, one, or several that are ambiguous.
ResolveLabel(ixs, req) ==
  {e \in EntitiesOf(ixs) : \E c \in ToSet(All(ixs)) :
     c.entity = e /\ c.kind = "preferred_label" /\ c.text = req.query}

-----------------------------------------------------------------------------
LexicalInit == indexes = <<>> /\ request = <<>> /\ answer = <<>>

IndexesAreLoaded ==
  /\ indexes = <<>>
  /\ \E left, right \in BoundedSeq(Candidates, IndexSize) :
       Len(left) + Len(right) > 0 /\ indexes' = <<left, right>>
  /\ UNCHANGED <<request, answer>>

RequestIsMade ==
  /\ indexes # <<>> /\ request = <<>>
  /\ \E q \in Queries, l \in Preferences, r \in Selections :
       request' = [query |-> q, languages |-> l, releases |-> r]
  /\ UNCHANGED <<indexes, answer>>

\* chooseCatalogReleases: the first occurrence of each release, in the caller's order.
Distinct(releases) ==
  FoldLeft(LAMBDA seen, r : IF r \in ToSet(seen) THEN seen ELSE Append(seen, r), <<>>, releases)
Chosen(catalog, releases) == [n \in DOMAIN Distinct(releases) |-> catalog[Distinct(releases)[n]]]

\* A release that is not in the catalog ends the request.
RequestIsAnswered ==
  /\ request # <<>> /\ answer = <<>>
  /\ answer' =
       IF ToSet(request.releases) \subseteq DOMAIN indexes
       THEN [matches |-> SearchEntities(Chosen(indexes, request.releases), request),
             resolved |-> ResolveLabel(Chosen(indexes, request.releases), request)]
       ELSE [errorCode |-> "UNKNOWN_ONTOLOGY_RELEASE"]
  /\ UNCHANGED <<indexes, request>>

LexicalNext == IndexesAreLoaded \/ RequestIsMade \/ RequestIsAnswered

LexicalSpec == LexicalInit /\ [][LexicalNext]_lexicalVars

-----------------------------------------------------------------------------
\* "with deterministic ranks": ranks, bases and labels do not depend on the order in which
\* the caller lists the releases; every entity is there once; and a search puts those
\* entities first, as exact label matches, that a resolution of the same text finds.
RanksAreDeterministic ==
  "matches" \in DOMAIN answer =>
    LET matches == answer.matches
        exact == {n \in DOMAIN matches : matches[n].basis = <<"preferred_label", "exact">>}
    IN /\ matches = SearchEntities(Chosen(indexes, Reverse(request.releases)), request)
       /\ \A m, n \in DOMAIN matches : m # n => matches[m].entity # matches[n].entity
       /\ request.query # <<>> =>
            /\ answer.resolved = {matches[n].entity : n \in exact}
            /\ exact = 1..Cardinality(exact)
=============================================================================
