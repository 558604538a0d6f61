-------------------------- MODULE SnapshotSelection --------------------------
(***************************************************************************)
(* selectSnapshot in createNodeOntologyQueryModule.js: which releases of a  *)
(* catalog a request is about, the snapshotRef that is handed out with the  *)
(* answer, and the selection that the same caller asks for with it later.  *)
(***************************************************************************)
EXTENDS Integers, FiniteSets

CONSTANTS Snapshots,     \* snapshotId of a release
          Iris,          \* ontologyIri: shared by the versions of one ontology
          NoIri,
          MaxSnapshots   \* 16 in the code

ASSUME SelectionAssumption == IsFiniteSet(Snapshots)

VARIABLES
  catalog,      \* the releases: ontologyIri and the resolved imports of each
  snapshotRef,  \* what the first selection has handed out, or Refused
  reselected    \* the reference that was presented, and what came of it

selectionVars == <<catalog, snapshotRef, reselected>>

Graphs == {"source_graph", "selected_graphs", "catalogued_imports"}
Refused == [errorCode |-> "refused"]
Release == [ontologyIri : Iris \cup {NoIri}, resolved : SUBSET Snapshots]
Catalogs == UNION {[ids -> Release] : ids \in SUBSET Snapshots \ {{}}}

\* selectionSha256: a digest of the root, the graph selection and the datasets.
Digest(root, graph, ids) == <<root, graph, ids>>
Ref(root, graph, ids) == [rootSnapshotId |-> root, graphSelection |-> graph,
                          snapshotIds |-> ids, selectionSha256 |-> Digest(root, graph, ids)]

\* append: every snapshot is in the catalog, no two are versions of one ontology, and
\* there are not too many.
Appended(cat, ids) ==
  /\ ids \subseteq DOMAIN cat
  /\ \A s, t \in ids : s # t /\ cat[s].ontologyIri # NoIri
                         => cat[s].ontologyIri # cat[t].ontologyIri
  /\ Cardinality(ids) <= MaxSnapshots

\* What the root imports, directly or not: the loop appends to what it iterates over.
Imported(cat, root) ==
  LET Closed(ids) == /\ root \in ids
                     /\ \A s \in ids \cap DOMAIN cat : cat[s].resolved \subseteq ids
  IN {s \in Snapshots : \A ids \in SUBSET Snapshots : Closed(ids) => s \in ids}

\* The selection without a reference.  matching: the releases the request matches, by id
\* or by being the latest stable one, the active one or a specified one of a family.
Select(cat, matching, graph, selectedSnapshotIds) ==
  LET roots == matching \cap DOMAIN cat
      root == CHOOSE s \in roots : TRUE
      ids == CASE graph = "source_graph" -> {root}
               [] graph = "selected_graphs" -> {root} \cup selectedSnapshotIds
               [] graph = "catalogued_imports" -> Imported(cat, root)
  IN IF Cardinality(roots) = 1 /\ Appended(cat, ids) THEN Ref(root, graph, ids)
     ELSE Refused

\* Mutant of Reselect: the imports of the root are not compared.
ReselectUnreached(cat, ref) ==
  LET ids == {ref.rootSnapshotId} \cup ref.snapshotIds
  IN IF /\ Appended(cat, ids)
        /\ ref.graphSelection = "source_graph" => Cardinality(ids) = 1
        /\ ref.selectionSha256 = Digest(ref.rootSnapshotId, ref.graphSelection, ids)
        /\ ref.rootSnapshotId \in ref.snapshotIds
     THEN Ref(ref.rootSnapshotId, ref.graphSelection, ids)
     ELSE Refused

\* The selection by a reference.
Reselect(cat, ref) ==
  LET ids == {ref.rootSnapshotId} \cup ref.snapshotIds
  IN IF /\ Appended(cat, ids)
        /\ ref.graphSelection = "source_graph" => Cardinality(ids) = 1
        /\ ref.graphSelection = "catalogued_imports"
             => ids = Imported(cat, ref.rootSnapshotId)
        /\ ref.selectionSha256 = Digest(ref.rootSnapshotId, ref.graphSelection, ids)
        /\ ref.rootSnapshotId \in ref.snapshotIds
     THEN Ref(ref.rootSnapshotId, ref.graphSelection, ids)
     ELSE Refused

Nothing == [ref |-> Refused, selected |-> Refused]

SelectionInit == catalog = << >> /\ snapshotRef = Refused /\ reselected = Nothing

CatalogIsLoaded == /\ catalog = << >> /\ catalog' \in Catalogs
                   /\ UNCHANGED <<snapshotRef, reselected>>

RequestIsSelected ==
  /\ catalog # << >> /\ snapshotRef = Refused
  /\ \E matching \in SUBSET Snapshots, graph \in Graphs, ids \in SUBSET Snapshots :
       snapshotRef' = Select(catalog, matching, graph, ids)
  /\ snapshotRef' # Refused
  /\ UNCHANGED <<catalog, reselected>>

\* The caller comes back with the reference, or with one it has made up from it, whose
\* digest is that of what it says.
ReferenceIsSelected ==
  /\ snapshotRef # Refused /\ reselected = Nothing
  /\ \E ids \in SUBSET Snapshots, graph \in Graphs :
       LET own == snapshotRef.rootSnapshotId
           ref == [rootSnapshotId |-> own, graphSelection |-> graph, snapshotIds |-> ids,
                   selectionSha256 |-> Digest(own, graph, ids \cup {own})]
       IN reselected' = [ref |-> ref, selected |-> Reselect(catalog, ref)]
  /\ UNCHANGED <<catalog, snapshotRef>>

SelectionNext == CatalogIsLoaded \/ RequestIsSelected \/ ReferenceIsSelected

SelectionSpec == SelectionInit /\ [][SelectionNext]_selectionVars

-----------------------------------------------------------------------------
\* A reference that has been handed out selects the same snapshots again, and no other
\* reference is accepted than one some request would have been given.
ReferencesAreSelections ==
  reselected # Nothing =>
    LET ref == reselected.ref
    IN /\ ref = snapshotRef => reselected.selected = ref
       /\ reselected.selected # Refused =>
            /\ reselected.selected = ref
            /\ ref = Select(catalog, {ref.rootSnapshotId}, ref.graphSelection,
                            ref.snapshotIds)
=============================================================================
