----------------------------- MODULE SearchPages -----------------------------
(***************************************************************************)
(* A search that is read page by page: the cursor of                        *)
(* createNodeOntologyQueryModule.js and the loop of ontologyContextSearch.js *)
(* that fills a page under a limit on entities, on bytes and on candidates. *)
(* The ranked matches are the same for every page, because the cursor holds *)
(* the criteria and the snapshots of the first one.                        *)
(***************************************************************************)
EXTENDS Integers, SequencesExt

CONSTANTS
  Matches,         \* possible matches: [owned, definitions], the sizes of definitions
  MaxMatches,      \* bound: the length of the ranking
  Budgets,         \* half of maximumResultBytes, asked for with each page
  Counts,          \* maximumResultCount, asked for with each page
  CandidateLimit,  \* matches whose definitions one page may read (10 000 rows)
  Begin, End

PageAssumption ==
  /\ Matches \subseteq [owned : BOOLEAN, definitions : Seq(Nat)]
  /\ MaxMatches \in Nat /\ CandidateLimit \in Nat \ {0}
  /\ Budgets \subseteq Nat /\ Counts \subseteq Nat \ {0}
  /\ Begin # End /\ {Begin, End} \cap [match : Nat, definition : Nat] = {}
ASSUME PageAssumption

VARIABLES
  ranking,     \* the ranked matches
  filtered,    \* the criterion definitionSourceStatus is set
  position,    \* the cursor: [match, definition], Begin before the first page, or End
  page,        \* the page being filled: [index, items, groups, bytes, candidates,
               \* budget, count], or Begin between pages
  delivered    \* the items of the pages delivered: <<match, definition>>, definition 0
               \* for a match that has none

pageVars == <<ranking, filtered, position, page, delivered>>

PageInit == /\ ranking = <<>> /\ filtered = FALSE
            /\ position = Begin /\ page = Begin /\ delivered = <<>>

\* The first request fixes the criteria.
Search == /\ position = Begin /\ page = Begin /\ ranking = <<>>
          /\ ranking' \in BoundedSeq(Matches, MaxMatches) \ {<<>>}
          /\ filtered' \in BOOLEAN
          /\ UNCHANGED <<position, page, delivered>>

\* A page is asked for: by the first request, or with a cursor and nothing changed but
\* the limits.  Anything else is refused.
AskPage ==
  /\ ranking # <<>> /\ page = Begin /\ position # End
  /\ \E b \in Budgets, n \in Counts :
       page' = [index |-> IF position = Begin THEN 1 ELSE position.match,
                items |-> <<>>, groups |-> 0, bytes |-> 0, candidates |-> 0,
                budget |-> b, count |-> n]
  /\ UNCHANGED <<ranking, filtered, position, delivered>>

Definitions == ranking[page.index].definitions

\* Mutant of Start: a group is begun anew on the next page.
StartOver == 1
\* The definition a page begins a match with.
Start == IF position # Begin /\ position.match = page.index /\ position.definition > 0
         THEN position.definition ELSE 1

Remaining == Len(Definitions) - Start + 1

\* The definitions from Start on that fit behind the entity, which takes one unit.
Fits(k) ==
  FoldSeq(+, page.bytes + 1, SubSeq(Definitions, Start, Start + k - 1)) <= page.budget
Fitting ==
  CHOOSE n \in 0..Remaining :
    /\ \A k \in 1..n : Fits(k)
    /\ n < Remaining => ~Fits(n + 1)

Items(n) == IF Definitions = <<>> THEN <<<<page.index, 0>>>>
            ELSE [k \in 1..n |-> <<page.index, Start + k - 1>>]

\* The page ends at a match and one of its definitions.  A page without a match is an
\* error, and the caller may ask again.
Cut(items, match, definition) ==
  /\ page' = Begin
  /\ IF items = <<>> THEN UNCHANGED <<position, delivered>>
     ELSE /\ position' = [match |-> match, definition |-> definition]
          /\ delivered' = delivered \o items
  /\ UNCHANGED <<ranking, filtered>>

Continue(items, groups, size) ==
  /\ page' = [page EXCEPT !.index = @ + 1, !.items = items, !.groups = groups,
                          !.bytes = @ + size, !.candidates = @ + 1]
  /\ UNCHANGED <<ranking, filtered, position, delivered>>

Reading == page # Begin /\ page.index <= Len(ranking)
IsOwned == ranking[page.index].owned
Readable == Reading /\ IsOwned /\ page.candidates < CandidateLimit
Wanted == Readable /\ (filtered => Definitions # <<>>)

NotOwned == /\ Reading /\ ~IsOwned
            /\ page' = [page EXCEPT !.index = @ + 1]
            /\ UNCHANGED <<ranking, filtered, position, delivered>>

CandidatesExhausted == /\ Reading /\ IsOwned /\ ~Readable
                       /\ Cut(page.items, page.index, 0)

FilteredOut == Readable /\ ~Wanted /\ Continue(page.items, page.groups, 0)

EntityDoesNotFit ==
  /\ Wanted /\ page.bytes + 1 > page.budget
  /\ Cut(page.items, page.index, IF Start <= Len(Definitions) THEN Start ELSE 0)

DefinitionDoesNotFit ==
  /\ Wanted /\ page.bytes + 1 <= page.budget
  /\ Fitting < Remaining
  /\ Cut(page.items \o Items(Fitting), page.index, Start + Fitting)

MatchFits ==
  /\ Wanted /\ page.bytes + 1 <= page.budget
  /\ Fitting = Remaining
  /\ LET items == page.items \o Items(Remaining)
     IN IF page.groups + 1 >= page.count /\ page.index < Len(ranking)
        THEN Cut(items, page.index + 1, 0)
        ELSE Continue(items, page.groups + 1,
                      FoldSeq(+, 1, SubSeq(Definitions, Start, Len(Definitions))))

LastPage == /\ page # Begin /\ page.index > Len(ranking)
            /\ page' = Begin /\ position' = End
            /\ delivered' = delivered \o page.items
            /\ UNCHANGED <<ranking, filtered>>

\* The page is lost: the call is cancelled or overdue, or the result does not fit with
\* the text that goes with it.
PageFails == /\ page # Begin /\ page' = Begin
             /\ UNCHANGED <<ranking, filtered, position, delivered>>

PageNext == \/ PageFails \/ Search \/ AskPage \/ NotOwned \/ CandidatesExhausted \/ FilteredOut
            \/ EntityDoesNotFit \/ DefinitionDoesNotFit \/ MatchFits \/ LastPage

PageSpec == PageInit /\ [][PageNext]_pageVars

-----------------------------------------------------------------------------
\* What the search is about: the items of each match that it lists.
Listed(i) ==
  LET m == ranking[i]
  IN IF ~m.owned \/ (filtered /\ m.definitions = <<>>) THEN {}
     ELSE IF m.definitions = <<>> THEN {<<i, 0>>}
     ELSE {<<i, d>> : d \in DOMAIN m.definitions}
Expected == UNION {Listed(i) : i \in DOMAIN ranking}
Precedes(x, y) == x[1] < y[1] \/ (x[1] = y[1] /\ x[2] < y[2])

\* Following the cursors, whatever limits each page is asked for with and wherever it is
\* cut, delivers every match with each of its definitions once and in order.
PagesCoverOnce ==
  /\ \A j, k \in DOMAIN delivered : j < k => Precedes(delivered[j], delivered[k])
  /\ ToSet(delivered) \subseteq Expected
  /\ \A x \in Expected, y \in ToSet(delivered) : Precedes(x, y) => x \in ToSet(delivered)
  /\ position = End => ToSet(delivered) = Expected
=============================================================================
