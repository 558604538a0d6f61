--------------------------- MODULE QueriesProofs ---------------------------
(***************************************************************************)
(* Theorems about five parts of the query engine, the selection of         *)
(* releases by reference, the budget of the cache of indexes, the pages of *)
(* a search, the answers about an entity and its connections, and the      *)
(* ranks of a search, and about what becomes of a revision: its checks,    *)
(* their reuse on main, the website that is published and the tool that a  *)
(* page of it offers.                                                      *)
(***************************************************************************)
EXTENDS SnapshotSelection, OntologyIndexCache, SearchPages, OntologyContext, LexicalSearch,
        Delivery, CollectionTheorems

-----------------------------------------------------------------------------
(* The selection                                                           *)

\* A selection: the root is in it, and the graph selection says what else is.
Selects(root, graph, ids) ==
  /\ root \in ids /\ graph \in Graphs
  /\ Appended(catalog, ids)
  /\ graph = "source_graph" => ids = {root}
  /\ graph = "catalogued_imports" => ids = Imported(catalog, root)

\* What has been handed out is a selection, and what has been presented afterwards has been
\* selected as the code does.
SelectionInv ==
  /\ \/ snapshotRef = Refused
     \/ \E root \in Snapshots, graph \in Graphs, ids \in SUBSET Snapshots :
          snapshotRef = Ref(root, graph, ids) /\ Selects(root, graph, ids)
  /\ \/ reselected = Nothing
     \/ /\ snapshotRef # Refused
        /\ \E root \in Snapshots, graph \in Graphs, ids \in SUBSET Snapshots :
             LET ref == [rootSnapshotId |-> root, graphSelection |-> graph,
                         snapshotIds |-> ids,
                         selectionSha256 |-> Digest(root, graph, ids \cup {root})]
             IN reselected = [ref |-> ref, selected |-> Reselect(catalog, ref)]

\* A reference is not a refusal.
LEMMA RefIsNoRefusal == \A root, graph, ids : Ref(root, graph, ids) # Refused
<1> TAKE root, graph, ids
<1>1. "errorCode" \in DOMAIN Refused /\ "errorCode" \notin DOMAIN Ref(root, graph, ids)
  BY DEF Refused, Ref
<1> QED BY <1>1

\* What a root imports is in the catalog's universe, and the root with it.
LEMMA RootIsImported ==
  ASSUME NEW cat, NEW root \in Snapshots
  PROVE  Imported(cat, root) \in SUBSET Snapshots /\ root \in Imported(cat, root)
BY DEF Imported

\* What is selected without a reference is a selection.
LEMMA SelectSelects ==
  ASSUME NEW matching \in SUBSET Snapshots, NEW graph \in Graphs,
         NEW selected \in SUBSET Snapshots,
         Select(catalog, matching, graph, selected) # Refused
  PROVE  \E root \in Snapshots, ids \in SUBSET Snapshots :
           /\ Select(catalog, matching, graph, selected) = Ref(root, graph, ids)
           /\ Selects(root, graph, ids)
<1> DEFINE roots == matching \cap DOMAIN catalog
           root == CHOOSE s \in roots : TRUE
           ids == CASE graph = "source_graph" -> {root}
                    [] graph = "selected_graphs" -> {root} \cup selected
                    [] graph = "catalogued_imports" -> Imported(catalog, root)
<1>1. /\ Cardinality(roots) = 1 /\ Appended(catalog, ids)
      /\ Select(catalog, matching, graph, selected) = Ref(root, graph, ids)
  BY DEF Select
<1>2. root \in roots
  <2>1. roots # {}
    BY <1>1, FS_EmptySet
  <2> QED BY <2>1
<1>3. ids \in SUBSET Snapshots /\ root \in ids
  <2>1. root \in Snapshots
    BY <1>2
  <2> HIDE DEF root
  <2> QED BY <2>1, RootIsImported DEF Graphs
<1>4. Selects(root, graph, ids)
  BY <1>1, <1>3 DEF Selects
<1> QED BY <1>1, <1>2, <1>3, <1>4

\* A selection is selected again by its reference.
LEMMA SelectionIsSelectedAgain ==
  ASSUME NEW root, NEW graph, NEW ids, Selects(root, graph, ids)
  PROVE  Reselect(catalog, Ref(root, graph, ids)) = Ref(root, graph, ids)
<1>1. {root} \cup ids = ids
  BY DEF Selects
<1>2. graph = "source_graph" => Cardinality(ids) = 1
  BY FS_Singleton DEF Selects
<1> QED BY <1>1, <1>2 DEF Reselect, Ref, Selects

\* What is accepted is what some request would have been given.
LEMMA AcceptedIsSelected ==
  ASSUME NEW root \in Snapshots, NEW graph \in Graphs, NEW ids \in SUBSET Snapshots, NEW ref,
         ref = [rootSnapshotId |-> root, graphSelection |-> graph, snapshotIds |-> ids,
                selectionSha256 |-> Digest(root, graph, ids \cup {root})],
         Reselect(catalog, ref) # Refused
  PROVE  /\ Reselect(catalog, ref) = ref
         /\ ref = Select(catalog, {root}, graph, ids)
<1>1. /\ root \in ids /\ {root} \cup ids = ids /\ Appended(catalog, ids)
      /\ graph = "source_graph" => Cardinality(ids) = 1
      /\ graph = "catalogued_imports" => ids = Imported(catalog, root)
      /\ Reselect(catalog, ref) = Ref(root, graph, ids)
  BY DEF Reselect
<1>2. ref = Ref(root, graph, ids)
  BY <1>1 DEF Ref
<1>3. graph = "source_graph" => ids = {root}
  <2> SUFFICES ASSUME graph = "source_graph" PROVE ids = {root}
    OBVIOUS
  <2>1. IsFiniteSet(ids)
    BY SelectionAssumption, FS_Subset
  <2>2. PICK x : ids = {x}
    BY <1>1, <2>1, FS_Singleton
  <2> QED BY <1>1, <2>2
<1>4. {root} \cap DOMAIN catalog = {root}
  BY <1>1 DEF Appended
<1>5. Cardinality({root} \cap DOMAIN catalog) = 1
  BY <1>4, FS_Singleton
<1>6. (CHOOSE s \in {root} \cap DOMAIN catalog : TRUE) = root
  BY <1>4
<1>7. ids = CASE graph = "source_graph" -> {root}
              [] graph = "selected_graphs" -> {root} \cup ids
              [] graph = "catalogued_imports" -> Imported(catalog, root)
  BY <1>1, <1>3 DEF Graphs
<1>8. Select(catalog, {root}, graph, ids) = Ref(root, graph, ids)
  BY <1>1, <1>5, <1>6, <1>7 DEF Select
<1> QED BY <1>1, <1>2, <1>8

\* Every step preserves the invariant.
LEMMA SelectionStepKeeps ==
  ASSUME SelectionInv, [SelectionNext]_selectionVars PROVE SelectionInv'
<1>1. CASE UNCHANGED selectionVars
  BY <1>1 DEF SelectionInv, selectionVars, Selects
<1>2. CASE CatalogIsLoaded
  <2>1. /\ DOMAIN catalog = {} /\ snapshotRef' = snapshotRef /\ reselected' = reselected
    BY <1>2 DEF CatalogIsLoaded
  <2>2. snapshotRef = Refused /\ reselected = Nothing
    BY <2>1 DEF SelectionInv, Selects, Appended
  <2> QED BY <2>1, <2>2 DEF SelectionInv
<1>3. CASE RequestIsSelected
  <2>1. /\ catalog' = catalog /\ reselected' = reselected /\ snapshotRef = Refused
        /\ snapshotRef' # Refused
    BY <1>3 DEF RequestIsSelected
  <2>2. PICK matching \in SUBSET Snapshots, graph \in Graphs, selected \in SUBSET Snapshots :
          snapshotRef' = Select(catalog, matching, graph, selected)
    BY <1>3 DEF RequestIsSelected
  <2>3. \E root \in Snapshots, ids \in SUBSET Snapshots :
          snapshotRef' = Ref(root, graph, ids) /\ Selects(root, graph, ids)
    BY <2>1, <2>2, SelectSelects
  <2>4. reselected' = Nothing
    BY <2>1 DEF SelectionInv
  <2> QED BY <2>1, <2>3, <2>4 DEF SelectionInv, Selects
<1>4. CASE ReferenceIsSelected
  <2>1. /\ catalog' = catalog /\ snapshotRef' = snapshotRef /\ snapshotRef # Refused
    BY <1>4 DEF ReferenceIsSelected
  <2>2. PICK root \in Snapshots, graph0 \in Graphs, ids0 \in SUBSET Snapshots :
          snapshotRef = Ref(root, graph0, ids0)
    BY <2>1 DEF SelectionInv
  <2>3. PICK ids \in SUBSET Snapshots, graph \in Graphs :
          LET own == snapshotRef.rootSnapshotId
              ref == [rootSnapshotId |-> own, graphSelection |-> graph, snapshotIds |-> ids,
                      selectionSha256 |-> Digest(own, graph, ids \cup {own})]
          IN reselected' = [ref |-> ref, selected |-> Reselect(catalog, ref)]
    BY <1>4 DEF ReferenceIsSelected
  <2> DEFINE ref == [rootSnapshotId |-> root, graphSelection |-> graph, snapshotIds |-> ids,
                     selectionSha256 |-> Digest(root, graph, ids \cup {root})]
  <2>4. reselected' = [ref |-> ref, selected |-> Reselect(catalog, ref)]
    <3>1. snapshotRef.rootSnapshotId = root
      BY <2>2 DEF Ref
    <3> QED BY <2>3, <3>1
  <2>5. reselected' = [ref |-> ref, selected |-> Reselect(catalog, ref)']
    BY <2>1, <2>4 DEF Reselect, Appended, Imported
  <2>6. \/ snapshotRef' = Refused
        \/ \E r \in Snapshots, g \in Graphs, s \in SUBSET Snapshots :
             snapshotRef' = Ref(r, g, s) /\ Selects(r, g, s)'
    BY <2>1 DEF SelectionInv, Selects
  <2> QED BY <2>1, <2>5, <2>6 DEF SelectionInv
<1> QED BY <1>1, <1>2, <1>3, <1>4 DEF SelectionNext

\* A reference that has been handed out selects the same snapshots again, and no other is
\* accepted than one some request would have been given: for every catalog, whatever
\* imports whatever, and every limit on the snapshots.
THEOREM ReferencesSelectAgain == SelectionSpec => []ReferencesAreSelections
<1>1. SelectionInit => SelectionInv
  BY DEF SelectionInit, SelectionInv
<1>2. SelectionInv /\ [SelectionNext]_selectionVars => SelectionInv'
  BY SelectionStepKeeps
<1>3. SelectionInv => ReferencesAreSelections
  <2> SUFFICES ASSUME SelectionInv, reselected # Nothing
               PROVE  LET ref == reselected.ref
                      IN /\ ref = snapshotRef => reselected.selected = ref
                         /\ reselected.selected # Refused =>
                              /\ reselected.selected = ref
                              /\ ref = Select(catalog, {ref.rootSnapshotId},
                                              ref.graphSelection, ref.snapshotIds)
    BY DEF ReferencesAreSelections
  <2>1. PICK root0 \in Snapshots, graph0 \in Graphs, ids0 \in SUBSET Snapshots :
          snapshotRef = Ref(root0, graph0, ids0) /\ Selects(root0, graph0, ids0)
    BY DEF SelectionInv
  <2>2. PICK root \in Snapshots, graph \in Graphs, ids \in SUBSET Snapshots :
          LET ref == [rootSnapshotId |-> root, graphSelection |-> graph,
                      snapshotIds |-> ids,
                      selectionSha256 |-> Digest(root, graph, ids \cup {root})]
          IN reselected = [ref |-> ref, selected |-> Reselect(catalog, ref)]
    BY DEF SelectionInv
  <2> DEFINE ref == [rootSnapshotId |-> root, graphSelection |-> graph, snapshotIds |-> ids,
                     selectionSha256 |-> Digest(root, graph, ids \cup {root})]
  <2>3. /\ reselected.ref = ref /\ reselected.selected = Reselect(catalog, ref)
        /\ ref.rootSnapshotId = root /\ ref.graphSelection = graph /\ ref.snapshotIds = ids
    BY <2>2
  <2>4. ref = snapshotRef => Reselect(catalog, ref) = ref
    BY <2>1, SelectionIsSelectedAgain
  <2>5. Reselect(catalog, ref) # Refused =>
          Reselect(catalog, ref) = ref /\ ref = Select(catalog, {root}, graph, ids)
    BY AcceptedIsSelected
  <2> HIDE DEF ref
  <2> QED BY <2>3, <2>4, <2>5
<1> QED BY <1>1, <1>2, <1>3, PTL DEF SelectionSpec

-----------------------------------------------------------------------------
(* The cache of indexes                                                    *)

\* A caller waits for a load of its own key, and the registry has each load under its key.
LoadsAreOfTheirKeys ==
  /\ call \in [Calls -> {"idle", "waiting", "served", "cancelled"}]
  /\ callKey \in [Calls -> Keys]
  /\ entryOf \in [Calls -> Calls]
  /\ registry \in [Keys -> Calls \cup {NoEntry}]
  /\ \A c \in Calls : callKey[entryOf[c]] = callKey[c]
  /\ \A k \in Keys : registry[k] # NoEntry => callKey[registry[k]] = k
  /\ \A c \in Calls : call[c] = "idle" => entryOf[c] = c

\* The cache has one load of each key, and has loaded it.
CachedOnce ==
  /\ cached \in Seq(Calls) /\ IsInjective(cached)
  /\ \A d, e \in ToSet(cached) : callKey[d] = callKey[e] => d = e

Loaded ==
  /\ stage \in [Calls -> {"none", "reading", "hashing", "loaded", "failed"}]
  /\ \A e \in ToSet(cached) : stage[e] = "loaded"
  /\ \A c \in Calls : call[c] = "idle" => stage[c] = "none"

IndexInv == /\ LoadsAreOfTheirKeys /\ CachedOnce /\ Loaded
            /\ account \in Nat /\ IndexCacheBounded

SharedStep(c) ==
  \/ Shared!RunCancelled(c) \/ Shared!RunJoins(c) \/ Shared!RunStarts(c)
  \/ Shared!RunStartsAndCancels(c) \/ Shared!HandleAbort(c) \/ Shared!OperationSettles(c)
  \/ Shared!CleanupReaction(c) \/ Shared!WaiterReaction(c)

\* The registry of loads keeps what is said of it, and no call is idle again.
LEMMA SharedStepKeeps ==
  ASSUME LoadsAreOfTheirKeys, NEW c \in Calls, SharedStep(c)
  PROVE  /\ LoadsAreOfTheirKeys' /\ callKey' = callKey
         /\ \A d \in Calls : call'[d] = "idle" => call[d] = "idle"
<1> USE DEF LoadsAreOfTheirKeys
<1>1. CASE Shared!RunCancelled(c)
  BY <1>1 DEF Shared!RunCancelled
<1>2. CASE Shared!RunJoins(c)
  <2>1. /\ callKey' = callKey /\ registry' = registry
        /\ call' = [call EXCEPT ![c] = "waiting"] /\ registry[callKey[c]] # NoEntry
        /\ entryOf' = [entryOf EXCEPT ![c] = registry[callKey[c]]]
    BY <1>2 DEF Shared!RunJoins
  <2>2. registry[callKey[c]] \in Calls
    BY <2>1
  <2> QED BY <2>1, <2>2
<1>3. CASE Shared!RunStarts(c)
  <2>1. /\ callKey' = callKey /\ entryOf' = entryOf
        /\ call' = [call EXCEPT ![c] = "waiting"]
        /\ registry' = [registry EXCEPT ![callKey[c]] = c]
    BY <1>3 DEF Shared!RunStarts
  <2> QED BY <2>1
<1>4. CASE Shared!RunStartsAndCancels(c)
  BY <1>4 DEF Shared!RunStartsAndCancels
<1>5. ASSUME NEW e \in Calls, registry' = registry \/ registry' = Shared!Unregistered(registry, e)
      PROVE  /\ registry' \in [Keys -> Calls \cup {NoEntry}]
             /\ \A k \in Keys : registry'[k] # NoEntry => callKey[registry'[k]] = k
  BY <1>5 DEF Shared!Unregistered
<1>6. CASE Shared!HandleAbort(c) \/ Shared!WaiterReaction(c)
  <2>1. /\ callKey' = callKey /\ entryOf' = entryOf
        /\ \E s \in {"served", "cancelled"} : call' = [call EXCEPT ![c] = s]
        /\ registry' = registry \/ registry' = Shared!Unregistered(registry, entryOf[c])
    BY <1>6 DEF Shared!HandleAbort, Shared!WaiterReaction, Shared!ReleaseWaiter
  <2>2. entryOf[c] \in Calls
    OBVIOUS
  <2> QED BY <2>1, <2>2, <1>5
<1>7. CASE Shared!OperationSettles(c)
  BY <1>7 DEF Shared!OperationSettles
<1>8. CASE Shared!CleanupReaction(c)
  <2>1. /\ callKey' = callKey /\ entryOf' = entryOf /\ call' = call
        /\ registry' = Shared!Unregistered(registry, c)
    BY <1>8 DEF Shared!CleanupReaction
  <2> QED BY <2>1, <1>5
<1> QED BY <1>1, <1>2, <1>3, <1>4, <1>6, <1>7, <1>8 DEF SharedStep

\* The bytes of fewer loads are not more.
LEMMA BytesGrow ==
  ASSUME LoadsAreOfTheirKeys, NEW A \in SUBSET Calls, IsFiniteSet(A), NEW B \in SUBSET A
  PROVE  /\ IsFiniteSet(B) /\ Bytes(A) \in Nat /\ Bytes(B) \in Nat /\ Bytes(B) <= Bytes(A)
         /\ Bytes(A \ B) = Bytes(A) - Bytes(B)
<1> DEFINE f == [e \in Calls |-> ByteSize[callKey[e]]]
<1>1. \A e \in Calls : f[e] \in Nat
  BY IndexCacheAssumption DEF LoadsAreOfTheirKeys
<1>2. Bytes(A) = SumFunctionOnSet(f, A) /\ Bytes(B) = SumFunctionOnSet(f, B)
      /\ Bytes(A \ B) = SumFunctionOnSet(f, A \ B)
  BY DEF Bytes
<1> HIDE DEF f
<1>3. IsFiniteSet(B)
  BY FS_Subset
<1>4. (\A e \in A : f[e] \in Nat) /\ (\A e \in B : f[e] \in Nat)
  BY <1>1
<1>5. SumFunctionOnSet(f, A) \in Nat /\ SumFunctionOnSet(f, B) \in Nat
  BY <1>3, <1>4, SumNat
<1>6. /\ SumFunctionOnSet(f, A \ B) = SumFunctionOnSet(f, A) - SumFunctionOnSet(f, B)
      /\ SumFunctionOnSet(f, B) <= SumFunctionOnSet(f, A)
  BY <1>4, SumRemove
<1> QED BY <1>2, <1>3, <1>5, <1>6

\* One load more.
LEMMA BytesAdd ==
  ASSUME LoadsAreOfTheirKeys, NEW A \in SUBSET Calls, IsFiniteSet(A), NEW e \in Calls \ A
  PROVE  Bytes(A \cup {e}) = ByteSize[callKey[e]] + Bytes(A)
<1> DEFINE f == [d \in Calls |-> ByteSize[callKey[d]]]
<1>1. /\ \A d \in Calls : f[d] \in Int
      /\ f[e] = ByteSize[callKey[e]]
  BY IndexCacheAssumption DEF LoadsAreOfTheirKeys
<1>2. Bytes(A \cup {e}) = SumFunctionOnSet(f, A \cup {e}) /\ Bytes(A) = SumFunctionOnSet(f, A)
  BY DEF Bytes
<1> HIDE DEF f
<1>3. \A d \in A \cup {e} : f[d] \in Int
  BY <1>1
<1>4. SumFunctionOnSet(f, A \cup {e}) = f[e] + SumFunctionOnSet(f, A)
  BY <1>3, SumAdd
<1> QED BY <1>1, <1>2, <1>4

\* The cache without a key's load, and the cache with that load moved to its end.
LEMMA OthersAreCached ==
  ASSUME LoadsAreOfTheirKeys, CachedOnce, NEW k
  PROVE  /\ Other(k) \in Seq(Calls) /\ IsInjective(Other(k))
         /\ ToSet(Other(k)) \subseteq ToSet(cached)
         /\ \A e \in ToSet(Other(k)) : callKey[e] # k
         /\ IsCached(k) => /\ Touched(k) \in Seq(Calls) /\ IsInjective(Touched(k))
                           /\ ToSet(Touched(k)) = ToSet(cached)
<1>1. CASE ~IsCached(k)
  BY <1>1 DEF Other, IsCached, CachedOnce
<1>2. CASE IsCached(k)
  <2>1. \E j \in DOMAIN cached : callKey[cached[j]] = k
    BY <1>2 DEF IsCached, ToSet
  <2>2. Place(k) \in DOMAIN cached /\ callKey[cached[Place(k)]] = k
    BY <2>1 DEF Place
  <2>3. cached \in Seq(Calls) /\ IsInjective(cached)
    BY DEF CachedOnce
  <2>4. cached[Place(k)] \in Calls /\ cached[Place(k)] \in ToSet(cached)
    BY <2>2, <2>3, ElementsType
  <2>5. Other(k) = RemoveAt(cached, Place(k))
    BY <1>2 DEF Other
  <2>6. /\ Other(k) \in Seq(Calls) /\ IsInjective(Other(k))
        /\ ToSet(Other(k)) = ToSet(cached) \ {cached[Place(k)]}
    BY <2>2, <2>3, <2>5, RemoveElements
  <2>7. \A e \in ToSet(Other(k)) : callKey[e] # k
    BY <2>2, <2>4, <2>6 DEF CachedOnce
  <2>8. /\ Touched(k) \in Seq(Calls) /\ IsInjective(Touched(k))
        /\ ToSet(Touched(k)) = ToSet(Other(k)) \cup {cached[Place(k)]}
    BY <2>4, <2>6, AppendElements DEF Touched
  <2> QED BY <2>4, <2>6, <2>7, <2>8
<1> QED BY <1>1, <1>2

\* Loads are evicted until the budget is kept, or all of them.
LEMMA ExcessSuffices ==
  ASSUME NEW others \in Seq(Calls), NEW total
  PROVE  /\ Excess(others, total) \in 0..Len(others)
         /\ \/ total - Bytes(Oldest(others, Excess(others, total))) <= MaxIndexBytes
            \/ Excess(others, total) = Len(others)
<1> DEFINE T == {n \in 0..Len(others) : total - Bytes(Oldest(others, n)) <= MaxIndexBytes}
                \cup {Len(others)}
<1>1. Len(others) \in Nat
  OBVIOUS
<1>2. T \in SUBSET Nat /\ T # {} /\ Excess(others, total) = Min(T)
  BY <1>1 DEF Excess
<1>3. Min(T) \in T
  BY <1>2, LeastElement
<1> QED BY <1>1, <1>2, <1>3

\* What eviction leaves is within the budget, and the account does not miss any of it.
LEMMA EvictionKeepsBudget ==
  ASSUME LoadsAreOfTheirKeys, account \in Nat, NEW others \in Seq(Calls),
         IsInjective(others), NEW e \in Calls \ ToSet(others),
         Bytes(ToSet(others)) <= account,
         Evict(e, others, account + ByteSize[callKey[e]])
  PROVE  /\ cached' \in Seq(Calls) /\ IsInjective(cached')
         /\ ToSet(cached') \subseteq ToSet(others) \cup {e}
         /\ account' \in Nat /\ Bytes(ToSet(cached')) <= account'
         /\ Bytes(ToSet(cached')) <= MaxIndexBytes
<1> DEFINE size == ByteSize[callKey[e]]
           total == account + size
           n == Excess(others, total)
           old == SubSeq(others, 1, n)
           kept == SubSeq(others, n + 1, Len(others))
           rest == total - Bytes(ToSet(old))
<1>1. /\ n \in 0..Len(others)
      /\ rest <= MaxIndexBytes \/ n = Len(others)
  BY ExcessSuffices DEF Oldest
<1>2. \/ /\ rest > MaxIndexBytes /\ size > MaxIndexBytes
         /\ cached' = kept /\ account' = rest - size
      \/ /\ ~(rest > MaxIndexBytes /\ size > MaxIndexBytes)
         /\ cached' = Append(kept, e) /\ account' = rest
  BY DEF Evict, Oldest
<1>3. size \in Nat /\ MaxIndexBytes \in Nat
  BY IndexCacheAssumption DEF LoadsAreOfTheirKeys
<1> HIDE DEF n
<1>4. /\ old \in Seq(Calls) /\ kept \in Seq(Calls) /\ IsInjective(kept)
      /\ ToSet(old) \cup ToSet(kept) = ToSet(others)
      /\ ToSet(old) \cap ToSet(kept) = {}
      /\ n = Len(others) => ToSet(kept) = {}
  BY <1>1, SplitElements
<1> HIDE DEF old, kept
<1>5. /\ IsFiniteSet(ToSet(others)) /\ ToSet(others) \subseteq Calls
      /\ ToSet(old) \subseteq ToSet(others) /\ ToSet(kept) = ToSet(others) \ ToSet(old)
      /\ ToSet(kept) \subseteq ToSet(others)
  BY <1>4, ElementsFinite, ElementsType
<1>6. /\ Bytes(ToSet(others)) \in Nat /\ Bytes(ToSet(old)) \in Nat
      /\ Bytes(ToSet(kept)) = Bytes(ToSet(others)) - Bytes(ToSet(old))
  BY <1>5, BytesGrow
<1>7. IsFiniteSet(ToSet(kept)) /\ Bytes(ToSet(kept)) \in Nat
  BY <1>5, BytesGrow
<1>8. n = Len(others) => Bytes(ToSet(kept)) = 0
  <2>1. Bytes({}) = 0
    BY SumEmpty DEF Bytes
  <2> QED BY <1>4, <2>1
<1>9. CASE /\ rest > MaxIndexBytes /\ size > MaxIndexBytes
           /\ cached' = kept /\ account' = rest - size
  <2>1. Bytes(ToSet(kept)) = 0
    BY <1>1, <1>8, <1>9, <1>3, <1>6
  <2>2. account' \in Nat
    BY <1>3, <1>6, <1>7, <1>9
  <2>3. /\ cached' \in Seq(Calls) /\ IsInjective(cached')
        /\ ToSet(cached') = ToSet(kept)
    BY <1>4, <1>9
  <2>4. Bytes(ToSet(cached')) = 0
    BY <2>1, <2>3
  <2>5. ToSet(cached') \subseteq ToSet(others) \cup {e}
    BY <1>5, <2>3
  <2> QED BY ONLY <1>3, <2>2, <2>3, <2>4, <2>5
<1>10. CASE /\ ~(rest > MaxIndexBytes /\ size > MaxIndexBytes)
            /\ cached' = Append(kept, e) /\ account' = rest
  <2>1. e \in Calls \ ToSet(kept)
    BY <1>5
  <2>2. Bytes(ToSet(kept) \cup {e}) = size + Bytes(ToSet(kept))
    <3>1. ToSet(kept) \in SUBSET Calls
      BY <1>5
    <3> QED BY <1>7, <2>1, <3>1, BytesAdd
  <2>3. /\ Append(kept, e) \in Seq(Calls) /\ IsInjective(Append(kept, e))
        /\ ToSet(Append(kept, e)) = ToSet(kept) \cup {e}
    BY <1>4, <2>1, AppendElements
  <2>4. size + Bytes(ToSet(kept)) <= rest
    BY <1>3, <1>6
  <2>5. size + Bytes(ToSet(kept)) <= MaxIndexBytes
    <3>1. CASE rest <= MaxIndexBytes
      BY <1>3, <1>6, <1>7, <2>4, <3>1
    <3>2. CASE ~(rest <= MaxIndexBytes)
      <4>1. Bytes(ToSet(kept)) = 0
        BY <1>1, <1>8, <3>2
      <4>2. ~(size > MaxIndexBytes)
        BY <1>3, <1>6, <1>10, <3>2
      <4> QED BY <1>3, <4>1, <4>2
    <3> QED BY <3>1, <3>2
  <2>6. rest \in Nat
    BY <1>3, <1>6, <1>7
  <2> HIDE DEF size, rest
  <2> QED BY <1>5, <1>10, <2>2, <2>3, <2>4, <2>5, <2>6
<1> QED BY <1>2, <1>9, <1>10

\* A step that leaves the cache's contents alone keeps the budget.
LEMMA SameContents ==
  ASSUME IndexInv, LoadsAreOfTheirKeys', callKey' = callKey, account' = account,
         cached' \in Seq(Calls), IsInjective(cached'), ToSet(cached') = ToSet(cached)
  PROVE  CachedOnce' /\ account' \in Nat /\ IndexCacheBounded'
<1>1. Bytes(ToSet(cached))' = Bytes(ToSet(cached))
  BY DEF Bytes
<1>2. CachedOnce'
  BY DEF CachedOnce, IndexInv
<1> QED BY <1>1, <1>2 DEF IndexInv, IndexCacheBounded

\* Every step preserves the invariant.
LEMMA IndexStepKeeps ==
  ASSUME IndexInv, [IndexNext]_indexVars PROVE IndexInv'
<1>1. CASE UNCHANGED indexVars
  BY <1>1 DEF IndexInv, indexVars, sharedVars, LoadsAreOfTheirKeys, CachedOnce, Loaded,
              IndexCacheBounded, Bytes
<1>2. ASSUME NEW c \in Calls, CacheHit(c) PROVE IndexInv'
  <2>1. /\ call' = [call EXCEPT ![c] = "served"] /\ IsCached(callKey[c])
        /\ cached' = Touched(callKey[c]) /\ callKey' = callKey /\ entryOf' = entryOf
        /\ registry' = registry /\ stage' = stage /\ account' = account
    BY <1>2 DEF CacheHit
  <2>2. LoadsAreOfTheirKeys'
    BY <2>1 DEF IndexInv, LoadsAreOfTheirKeys
  <2>3. /\ cached' \in Seq(Calls) /\ IsInjective(cached') /\ ToSet(cached') = ToSet(cached)
    BY <2>1, OthersAreCached DEF IndexInv
  <2>4. CachedOnce' /\ account' \in Nat /\ IndexCacheBounded'
    BY <2>1, <2>2, <2>3, SameContents
  <2>5. Loaded'
    BY <2>1, <2>3 DEF IndexInv, Loaded, LoadsAreOfTheirKeys
  <2> QED BY <2>2, <2>4, <2>5 DEF IndexInv
<1>3. ASSUME NEW c \in Calls, SharedStep(c), account' = account,
             cached' = cached \/ (IsCached(callKey[c]) /\ cached' = Touched(callKey[c])),
             Loaded'
      PROVE  IndexInv'
  <2>1. LoadsAreOfTheirKeys' /\ callKey' = callKey
    BY <1>3, SharedStepKeeps DEF IndexInv
  <2>2. /\ cached' \in Seq(Calls) /\ IsInjective(cached') /\ ToSet(cached') = ToSet(cached)
    BY <1>3, OthersAreCached DEF IndexInv, CachedOnce
  <2> QED BY <1>3, <2>1, <2>2, SameContents DEF IndexInv
<1>4. ASSUME NEW c \in Calls, CacheMiss(c) PROVE IndexInv'
  <2>1. /\ cached' = cached /\ account' = account
        /\ \/ Shared!RunJoins(c) /\ stage' = stage
           \/ /\ Shared!RunStarts(c) \/ Shared!RunStartsAndCancels(c)
              /\ \E s \in {"failed", "reading"} : stage' = [stage EXCEPT ![c] = s]
    BY <1>4 DEF CacheMiss
  <2>2. SharedStep(c)
    BY <2>1 DEF SharedStep
  <2>3. call[c] = "idle" /\ call'[c] # "idle"
    <3>1. call \in [Calls -> {"idle", "waiting", "served", "cancelled"}]
      BY DEF IndexInv, LoadsAreOfTheirKeys
    <3> QED BY <2>1, <3>1 DEF Shared!RunJoins, Shared!RunStarts, Shared!RunStartsAndCancels
  <2>4. \A d \in Calls : call'[d] = "idle" => call[d] = "idle"
    BY <2>2, SharedStepKeeps DEF IndexInv
  <2>5. c \notin ToSet(cached)
    BY <2>3 DEF IndexInv, Loaded
  <2>6. Loaded
    BY DEF IndexInv
  <2>7. \/ stage' = stage
        \/ \E s \in {"failed", "reading"} : stage' = [stage EXCEPT ![c] = s]
    BY <2>1
  <2>8. stage' \in [Calls -> {"none", "reading", "hashing", "loaded", "failed"}]
    BY <2>6, <2>7 DEF Loaded
  <2>9. \A d \in Calls : d # c => stage'[d] = stage[d]
    BY <2>6, <2>7 DEF Loaded
  <2>10. ToSet(cached) \subseteq Calls
    BY ElementsType DEF IndexInv, CachedOnce
  <2>11. Loaded'
    BY <2>1, <2>3, <2>4, <2>5, <2>6, <2>8, <2>9, <2>10 DEF Loaded
  <2> QED BY <1>3, <2>1, <2>2, <2>11
<1>5. ASSUME NEW e \in Calls, LoadFails(e) PROVE IndexInv'
  <2>1. /\ Shared!OperationSettles(e) /\ stage[e] \in {"reading", "hashing"}
        /\ stage' = [stage EXCEPT ![e] = "failed"] /\ cached' = cached /\ account' = account
    BY <1>5 DEF LoadFails
  <2>2. SharedStep(e) /\ call' = call
    BY <2>1 DEF SharedStep, Shared!OperationSettles
  <2>3. Loaded
    BY DEF IndexInv
  <2>4. Loaded'
    BY <2>1, <2>2, <2>3 DEF Loaded
  <2> QED BY <1>3, <2>1, <2>2, <2>4
<1>6. ASSUME NEW e \in Calls, BytesArrive(e) PROVE IndexInv'
  <2>1. /\ stage[e] = "reading" /\ stage' = [stage EXCEPT ![e] = "hashing"]
        /\ call' = call /\ callKey' = callKey /\ entryOf' = entryOf /\ registry' = registry
        /\ cached' = cached /\ account' = account
    BY <1>6 DEF BytesArrive, sharedVars
  <2>2. Loaded
    BY DEF IndexInv
  <2>3. Loaded'
    BY <2>1, <2>2 DEF Loaded
  <2>4. LoadsAreOfTheirKeys'
    BY <2>1 DEF IndexInv, LoadsAreOfTheirKeys
  <2>5. CachedOnce' /\ account' \in Nat /\ IndexCacheBounded'
    BY <2>1, <2>4, SameContents DEF IndexInv, CachedOnce
  <2> QED BY <2>3, <2>4, <2>5 DEF IndexInv
<1>7. ASSUME NEW e \in Calls, LoadCompletes(e) PROVE IndexInv'
  <2> DEFINE others == Other(callKey[e])
  <2>1. /\ stage[e] = "hashing" /\ stage' = [stage EXCEPT ![e] = "loaded"]
        /\ Shared!OperationSettles(e)
        /\ Evict(e, others, account + ByteSize[callKey[e]])
    BY <1>7 DEF LoadCompletes
  <2>2. SharedStep(e) /\ call' = call
    BY <2>1 DEF SharedStep, Shared!OperationSettles
  <2>3. LoadsAreOfTheirKeys' /\ callKey' = callKey
    BY <2>2, SharedStepKeeps DEF IndexInv
  <2>4. /\ others \in Seq(Calls) /\ IsInjective(others)
        /\ ToSet(others) \subseteq ToSet(cached)
        /\ \A d \in ToSet(others) : callKey[d] # callKey[e]
    BY OthersAreCached DEF IndexInv
  <2> HIDE DEF others
  <2>5. e \in Calls \ ToSet(others)
    BY <2>4
  <2>6. Bytes(ToSet(others)) <= account
    <3>1. /\ IsFiniteSet(ToSet(cached)) /\ ToSet(cached) \in SUBSET Calls
      BY ElementsFinite, ElementsType DEF IndexInv, CachedOnce
    <3>2. /\ Bytes(ToSet(others)) \in Nat /\ Bytes(ToSet(cached)) \in Nat
          /\ Bytes(ToSet(others)) <= Bytes(ToSet(cached))
      BY <2>4, <3>1, BytesGrow DEF IndexInv
    <3>3. Bytes(ToSet(cached)) <= account /\ account \in Nat
      BY DEF IndexInv, IndexCacheBounded
    <3> QED BY <3>2, <3>3
  <2>7. /\ cached' \in Seq(Calls) /\ IsInjective(cached')
        /\ ToSet(cached') \subseteq ToSet(others) \cup {e}
        /\ account' \in Nat /\ Bytes(ToSet(cached')) <= account'
        /\ Bytes(ToSet(cached')) <= MaxIndexBytes
    BY <2>1, <2>4, <2>5, <2>6, EvictionKeepsBudget DEF IndexInv
  <2>8. Bytes(ToSet(cached))' = Bytes(ToSet(cached'))
    BY <2>3 DEF Bytes
  <2>9. IndexCacheBounded'
    BY <2>7, <2>8 DEF IndexCacheBounded
  <2>10. CachedOnce'
    <3>1. \A d1, d2 \in ToSet(cached) : callKey[d1] = callKey[d2] => d1 = d2
      BY DEF IndexInv, CachedOnce
    <3> QED BY <2>3, <2>4, <2>7, <3>1 DEF CachedOnce
  <2>11. Loaded'
    <3>1. Loaded
      BY DEF IndexInv
    <3> QED BY <2>1, <2>2, <2>4, <2>7, <3>1 DEF Loaded
  <2> QED BY <2>3, <2>7, <2>9, <2>10, <2>11 DEF IndexInv
<1>8. ASSUME NEW c \in Calls, LoadReacts(c) PROVE IndexInv'
  <2>1. /\ Shared!CleanupReaction(c) \/ Shared!WaiterReaction(c)
        /\ stage' = stage /\ account' = account
        /\ \/ cached' = cached
           \/ entryOf[c] \in ToSet(cached) /\ cached' = Touched(callKey[c])
    BY <1>8 DEF LoadReacts
  <2>2. SharedStep(c)
    BY <2>1 DEF SharedStep
  <2>3. entryOf[c] \in ToSet(cached) => IsCached(callKey[c])
    BY DEF IndexInv, LoadsAreOfTheirKeys, IsCached
  <2>4. ToSet(cached') = ToSet(cached)
    BY <2>1, <2>3, OthersAreCached DEF IndexInv
  <2>5. \A d \in Calls : call'[d] = "idle" => call[d] = "idle"
    BY <2>2, SharedStepKeeps DEF IndexInv
  <2>6. Loaded'
    BY <2>1, <2>4, <2>5 DEF IndexInv, Loaded
  <2> QED BY <1>3, <2>1, <2>2, <2>3, <2>6
<1>9. ASSUME NEW c \in Calls, CallerCancels(c) PROVE IndexInv'
  <2>1. /\ Shared!RunCancelled(c) \/ Shared!HandleAbort(c)
        /\ stage' = stage /\ account' = account /\ cached' = cached
    BY <1>9 DEF CallerCancels
  <2>2. SharedStep(c)
    BY <2>1 DEF SharedStep
  <2>3. \A d \in Calls : call'[d] = "idle" => call[d] = "idle"
    BY <2>2, SharedStepKeeps DEF IndexInv
  <2>4. Loaded'
    BY <2>1, <2>3 DEF IndexInv, Loaded
  <2> QED BY <1>3, <2>1, <2>2, <2>4
<1> QED BY <1>1, <1>2, <1>4, <1>5, <1>6, <1>7, <1>8, <1>9 DEF IndexNext

\* The cached indexes never exceed the budget, and the account misses none of them: for
\* every number of loads, every size of index and every budget.
THEOREM IndexCacheKeepsBudget == IndexSpec => []IndexCacheBounded
<1>1. IndexInit => IndexInv
  <2> SUFFICES ASSUME IndexInit PROVE IndexInv
    OBVIOUS
  <2>1. /\ call = [c \in Calls |-> "idle"] /\ callKey \in [Calls -> Keys]
        /\ entryOf = [c \in Calls |-> c] /\ registry = [k \in Keys |-> NoEntry]
        /\ stage = [c \in Calls |-> "none"] /\ cached = <<>> /\ account = 0
    BY DEF IndexInit, Shared!Init
  <2>2. LoadsAreOfTheirKeys
    BY <2>1 DEF LoadsAreOfTheirKeys
  <2>3. ToSet(cached) = {} /\ IsInjective(cached) /\ cached \in Seq(Calls)
    BY <2>1, ElementsEmpty
  <2>4. Bytes(ToSet(cached)) = 0
    BY <2>3, SumEmpty DEF Bytes
  <2>5. IndexCacheBounded
    BY <2>1, <2>4, IndexCacheAssumption DEF IndexCacheBounded
  <2> QED BY <2>1, <2>2, <2>3, <2>5 DEF IndexInv, CachedOnce, Loaded
<1>2. IndexInv /\ [IndexNext]_indexVars => IndexInv'
  BY IndexStepKeeps
<1>3. IndexInv => IndexCacheBounded
  BY DEF IndexInv
<1> QED BY <1>1, <1>2, <1>3, PTL DEF IndexSpec

-----------------------------------------------------------------------------
(* The plan of the checks, and the gate                                    *)

\* The suites of a plan that takes no narrow route, by its scopes.
NodeNeeded(s) == s \cap ScopesOf.node # {}
SuitesOf(s) ==
  If("style_tooling" \in s, "json-quality.test.js")
  \cup (IF "development" \in s \/ NodeNeeded(s)
        THEN {"configure-git-hooks.test.js", "pr-check-scopes.test.js"} ELSE {})
  \cup If("python_setup_tests" \in s \/ "development" \in s, "test_set_up_mcp_servers.py")
  \cup If("python_tests" \in s \/ "ontology_policy_qa" \in s, "test_ontology_policy.py")
  \cup If("mcp_docs" \in s \/ NodeNeeded(s), "documentation.test.js")
  \cup (IF NodeNeeded(s)
        THEN {"manual-mcp-packages.test.js", "build.test.js", "uml.test.js", "assets.test.js",
              "query.test.js"} ELSE {})
Broad(p, r) == NodeSuites(p, r) = AllNodeSuites \ IgnoredSuites(p.scopes)

\* The scopes, and the consumers.
LEMMA ConsumerScopes ==
  /\ Consumers = {"development", "ontology", "node", "website", "distribution"}
  /\ ScopesOf["development"] = {"style_tooling", "python_style", "python_tests", "documentation",
                               "agent_skills_lock", "development", "python_setup_tests"}
  /\ ScopesOf["ontology"] = {"ontology_validation", "ontology_validation_workflow",
                            "ontology_entity_contracts", "ontology_policy_qa",
                            "ontology_qualification"}
  /\ ScopesOf["node"] = {"product_tests", "ci_control", "mcp_artifacts", "website_build",
                        "mcp_application", "mcp_release_qualification"}
  /\ ScopesOf["website"] = {"website_build"}
  /\ ScopesOf["distribution"] = {"mcp_artifacts", "mcp_docs", "mcp_application",
                                "mcp_release_qualification"}
<1>1. Consumers = {"development", "ontology", "node", "website", "distribution"}
  BY DEF Consumers, ScopesOf
<1>2. DOMAIN ContentInputs = {"style_tooling", "python_style", "python_tests", "documentation"}
  BY DEF ContentInputs
<1>3. DOMAIN DevelopmentInputs = {"agent_skills_lock", "development"}
  BY DEF DevelopmentInputs
<1>4. DOMAIN OntologyInputs = {"ontology_validation", "ontology_validation_workflow",
                               "ontology_entity_contracts", "ontology_policy_qa",
                               "ontology_qualification"}
  BY DEF OntologyInputs
<1> QED BY <1>1, <1>2, <1>3, <1>4 DEF ScopesOf

LEMMA AllSuitesAre ==
  /\ AllNodeSuites = {"pr-check-scopes.test.js", "configure-git-hooks.test.js",
                      "json-quality.test.js", "manual-mcp-packages.test.js", "build.test.js",
                      "uml.test.js", "documentation.test.js", "assets.test.js", "query.test.js"}
  /\ FamilyTests = {"build.test.js", "assets.test.js", "query.test.js"}
  /\ DOMAIN FamilySuites = {"build", "query"}
<1>1. DOMAIN FamilySuites = {"build", "query"}
  BY DEF FamilySuites
<1>2. /\ FamilySuites["build"] = {"build.test.js", "assets.test.js"}
      /\ FamilySuites["query"] = {"query.test.js"}
  BY DEF FamilySuites
<1>3. FamilyTests = FamilySuites["build"] \cup FamilySuites["query"]
  BY <1>1 DEF FamilyTests
<1> QED BY <1>1, <1>2, <1>3 DEF AllNodeSuites, NodeTests

\* No more runs than what the scopes ask for.
LEMMA SuitesUpper ==
  ASSUME NEW p, NEW r, p.required = RequiredJobs(p.scopes), Broad(p, r)
  PROVE  Suites(p, r) \subseteq SuitesOf(p.scopes)
<1> DEFINE s == p.scopes
<1>1. ASSUME NEW c \in p.required, NEW j \in StartedJobs(c, s), NEW t \in JobSuites(p, r, j)
      PROVE  t \in SuitesOf(s)
  <2>1. /\ c \in {"development", "ontology", "node", "website", "distribution"}
        /\ c # "development" => ScopesOf[c] \cap s # {}
    BY ConsumerScopes DEF RequiredJobs
  <2>2. CASE j = "node"
    <3>1. c = "node"
      BY <2>1, <2>2 DEF StartedJobs, ConsumerJobs, If
    <3>2. t \in AllNodeSuites /\ t # "json-quality.test.js" /\ NodeNeeded(s)
      BY <1>1, <2>1, <2>2, <3>1 DEF JobSuites, Broad, IgnoredSuites, NodeNeeded
    <3> QED BY <3>2, AllSuitesAre DEF SuitesOf, If
  <2>3. CASE j = "python-tests" \/ j = "python-node-tests" \/ j = "style-tooling" \/ j = "checks"
    <3>1. c = "development"
      BY <2>1, <2>3 DEF StartedJobs, ConsumerJobs, If
    <3> QED BY <1>1, <2>3, <3>1 DEF StartedJobs, ConsumerJobs, JobSuites, SuitesOf, If
  <2>4. CASE j = "policy-qa"
    BY <1>1, <2>4 DEF JobSuites, SuitesOf, If
  <2>5. CASE j = "validate"
    BY <1>1, <2>5 DEF JobSuites, SuitesOf, If
  <2> QED BY <1>1, <2>2, <2>3, <2>4, <2>5 DEF JobSuites
<1> QED BY <1>1 DEF Suites

\* All of it runs.
LEMMA SuitesLower ==
  ASSUME NEW p, NEW r, p.required = RequiredJobs(p.scopes), Broad(p, r)
  PROVE  SuitesOf(p.scopes) \subseteq Suites(p, r)
<1> DEFINE s == p.scopes
<1>0. \A c, j, t : c \in RequiredJobs(s) /\ j \in StartedJobs(c, s) /\ t \in JobSuites(p, r, j)
                    => t \in Suites(p, r)
  BY DEF Suites
<1>1. "development" \in RequiredJobs(s) /\ (NodeNeeded(s) => "node" \in RequiredJobs(s))
  BY ConsumerScopes DEF RequiredJobs, NodeNeeded
<1>2. StartedJobs("node", s) = {"node"}
  BY DEF StartedJobs, ConsumerJobs
<1>3. StartedJobs("development", s) = ConsumerJobs("development", s)
  BY DEF StartedJobs
<1>4. ASSUME NodeNeeded(s), NEW t \in AllNodeSuites, t # "json-quality.test.js",
             "development" \in s => t \notin {"configure-git-hooks.test.js",
                                            "pr-check-scopes.test.js"}
      PROVE  t \in Suites(p, r)
  <2>1. t \in JobSuites(p, r, "node")
    BY <1>4 DEF JobSuites, Broad, IgnoredSuites
  <2> QED BY <1>0, <1>1, <1>2, <1>4, <2>1
<1>5. ASSUME "style_tooling" \in s PROVE "json-quality.test.js" \in Suites(p, r)
  <2>1. "style-tooling" \in ConsumerJobs("development", s)
    BY <1>5 DEF ConsumerJobs, If
  <2>2. "json-quality.test.js" \in JobSuites(p, r, "style-tooling")
    BY DEF JobSuites
  <2> QED BY <1>0, <1>1, <1>3, <2>1, <2>2
<1>6. ASSUME "development" \in s
      PROVE  /\ {"configure-git-hooks.test.js", "pr-check-scopes.test.js"} \subseteq Suites(p, r)
             /\ "python_setup_tests" \notin s => "test_set_up_mcp_servers.py" \in Suites(p, r)
  <2>1. "checks" \in ConsumerJobs("development", s)
    BY <1>6 DEF ConsumerJobs, If
  <2>2. /\ "configure-git-hooks.test.js" \in JobSuites(p, r, "checks")
        /\ "pr-check-scopes.test.js" \in JobSuites(p, r, "checks")
        /\ "python_setup_tests" \notin s =>
             "test_set_up_mcp_servers.py" \in JobSuites(p, r, "checks")
    BY DEF JobSuites, If
  <2> QED BY <1>0, <1>1, <1>3, <2>1, <2>2
<1>7. ASSUME "python_setup_tests" \in s PROVE "test_set_up_mcp_servers.py" \in Suites(p, r)
  <2>1. "python-node-tests" \in ConsumerJobs("development", s)
    BY <1>7 DEF ConsumerJobs, If
  <2>2. "test_set_up_mcp_servers.py" \in JobSuites(p, r, "python-node-tests")
    BY DEF JobSuites
  <2> QED BY <1>0, <1>1, <1>3, <2>1, <2>2
<1>8. ASSUME "python_tests" \in s PROVE "test_ontology_policy.py" \in Suites(p, r)
  <2>1. "python-tests" \in ConsumerJobs("development", s)
    BY <1>8 DEF ConsumerJobs, If
  <2>2. "test_ontology_policy.py" \in JobSuites(p, r, "python-tests")
    BY DEF JobSuites
  <2> QED BY <1>0, <1>1, <1>3, <2>1, <2>2
<1>9. ASSUME "ontology_policy_qa" \in s, "python_tests" \notin s
      PROVE  "test_ontology_policy.py" \in Suites(p, r)
  <2>1. "ontology" \in RequiredJobs(s)
    BY <1>9, ConsumerScopes DEF RequiredJobs
  <2>2. "policy-qa" \in StartedJobs("ontology", s)
    BY <1>9 DEF StartedJobs, ConsumerJobs, If
  <2>3. "test_ontology_policy.py" \in JobSuites(p, r, "policy-qa")
    BY <1>9 DEF JobSuites, If
  <2> QED BY <1>0, <2>1, <2>2, <2>3
<1>10. ASSUME "mcp_docs" \in s, ~NodeNeeded(s) PROVE "documentation.test.js" \in Suites(p, r)
  <2>1. "distribution" \in RequiredJobs(s)
    BY <1>10, ConsumerScopes DEF RequiredJobs
  <2>2. "validate" \in StartedJobs("distribution", s)
    BY <1>10 DEF StartedJobs, ConsumerJobs
  <2>3. "documentation.test.js" \in JobSuites(p, r, "validate")
    BY <1>10, ConsumerScopes DEF JobSuites, If, NodeNeeded
  <2> QED BY <1>0, <2>1, <2>2, <2>3
<1>11. \A t \in {"configure-git-hooks.test.js", "pr-check-scopes.test.js", "documentation.test.js",
                 "manual-mcp-packages.test.js", "build.test.js", "uml.test.js", "assets.test.js",
                 "query.test.js"} : t \in AllNodeSuites /\ t # "json-quality.test.js"
  BY AllSuitesAre
<1>12. ASSUME NEW t \in SuitesOf(s) PROVE t \in Suites(p, r)
  <2>1. CASE t = "json-quality.test.js"
    BY <1>5, <1>12, <2>1 DEF SuitesOf, If
  <2>2. CASE t \in {"configure-git-hooks.test.js", "pr-check-scopes.test.js"}
    <3>1. "development" \in s \/ NodeNeeded(s)
      BY <1>12, <2>2 DEF SuitesOf, If
    <3> QED BY <1>4, <1>6, <1>11, <2>2, <3>1
  <2>3. CASE t = "test_set_up_mcp_servers.py"
    <3>1. "development" \in s \/ "python_setup_tests" \in s
      BY <1>12, <2>3 DEF SuitesOf, If
    <3> QED BY <1>6, <1>7, <2>3, <3>1
  <2>4. CASE t = "test_ontology_policy.py"
    <3>1. "python_tests" \in s \/ "ontology_policy_qa" \in s
      BY <1>12, <2>4 DEF SuitesOf, If
    <3> QED BY <1>8, <1>9, <2>4, <3>1
  <2>5. CASE t = "documentation.test.js"
    <3>1. "mcp_docs" \in s \/ NodeNeeded(s)
      BY <1>12, <2>5 DEF SuitesOf, If
    <3> QED BY <1>4, <1>10, <1>11, <2>5, <3>1
  <2>6. CASE t \in {"manual-mcp-packages.test.js", "build.test.js", "uml.test.js",
                    "assets.test.js", "query.test.js"}
    <3>1. NodeNeeded(s)
      BY <1>12, <2>6 DEF SuitesOf, If
    <3> QED BY <1>4, <1>11, <2>6, <3>1
  <2> QED BY <1>12, <2>1, <2>2, <2>3, <2>4, <2>5, <2>6 DEF SuitesOf, If
<1> QED BY <1>12

\* More scopes ask for more suites and for more consumers.
LEMMA ScopesMonotone ==
  ASSUME NEW s, NEW t, s \subseteq t
  PROVE  SuitesOf(s) \subseteq SuitesOf(t) /\ RequiredJobs(s) \subseteq RequiredJobs(t)
<1>1. NodeNeeded(s) => NodeNeeded(t)
  BY DEF NodeNeeded
<1>2. RequiredJobs(s) \subseteq RequiredJobs(t)
  BY DEF RequiredJobs
<1>3. SuitesOf(s) \subseteq SuitesOf(t)
  BY <1>1 DEF SuitesOf, If
<1> QED BY <1>2, <1>3

\* With the one scope of a narrow route only the Node suites run.
LEMMA NarrowSuites ==
  ASSUME NEW p, NEW r, p.required = RequiredJobs(p.scopes),
         p.scopes = {"ci_control"} \/ p.scopes = {"product_tests"}
  PROVE  Suites(p, r) = NodeSuites(p, r)
<1>1. p.required = {"development", "node"}
  BY ConsumerScopes DEF RequiredJobs
<1>2. StartedJobs("node", p.scopes) = {"node"}
  BY DEF StartedJobs, ConsumerJobs
<1>3. StartedJobs("development", p.scopes) = {"scope", "documentation", "json-quality"}
  BY DEF StartedJobs, ConsumerJobs, If
<1>4. /\ JobSuites(p, r, "node") = NodeSuites(p, r)
      /\ \A j \in {"scope", "documentation", "json-quality"} : JobSuites(p, r, j) = {}
  BY DEF JobSuites
<1> QED BY <1>1, <1>2, <1>3, <1>4 DEF Suites

-----------------------------------------------------------------------------
\* The routes by which a comparison becomes scopes.
Disabled == event.packages = "disabled"
ControlRoute(r) == ~Full /\ Disabled /\ Paths(r) # {} /\ Paths(r) \subseteq ControlInputs
FamilyRoute(r) == ~Full /\ Disabled /\ ~ControlRoute(r) /\ Families(r) # {}
BroadRoute(r) == ~ControlRoute(r) /\ ~FamilyRoute(r)
Wide(r) == (Unlisted \cup Orchestration) \cap Paths(r) # {}
OwnedScopes(r) ==
  Owned(ContentInputs, Paths(r)) \cup Owned(OntologyInputs, Paths(r))
  \cup Owned(DevelopmentInputs, Paths(r)) \cup Owned(ProductInputs, Paths(r))
  \cup If("packages/README.md" \in Paths(r), "mcp_artifacts")
Withheld == If(Disabled, "mcp_artifacts")
            \cup If(event.packages # "manual", "mcp_release_qualification")
Unnarrowed(r) == IF Full THEN CoreScopes ELSE ComparedScopes(r)

LEMMA RouteScopes ==
  ASSUME NEW r
  PROVE  /\ ControlRoute(r) => Scopes(r) = {"ci_control"}
         /\ FamilyRoute(r) => Scopes(r) = {"product_tests"}
         /\ BroadRoute(r) => Scopes(r) = Unnarrowed(r) \ Withheld
<1>1. Scopes(r) = (IF Full THEN CoreScopes ELSE ChangedScopes(r)) \ Withheld
  BY DEF Scopes, Withheld, Disabled
<1>2. Withheld \subseteq {"mcp_artifacts", "mcp_release_qualification"}
  BY DEF Withheld, If
<1>3. CASE ControlRoute(r)
  <2>1. Scopes(r) = {"ci_control"} \ Withheld
    BY <1>1, <1>3 DEF ControlRoute, ChangedScopes, Disabled
  <2> QED BY <1>2, <1>3, <2>1 DEF FamilyRoute, BroadRoute
<1>4. CASE FamilyRoute(r)
  <2>1. Scopes(r) = {"product_tests"} \ Withheld
    BY <1>1, <1>4 DEF FamilyRoute, ControlRoute, ChangedScopes, Disabled
  <2> QED BY <1>2, <1>4, <2>1 DEF FamilyRoute, BroadRoute
<1>5. CASE BroadRoute(r)
  BY <1>1, <1>5 DEF BroadRoute, FamilyRoute, ControlRoute, ChangedScopes, Disabled, Unnarrowed
<1> QED BY <1>3, <1>4, <1>5 DEF BroadRoute

\* What a comparison may ask for, and what it must.
LEMMA Compared ==
  ASSUME NEW r
  PROVE  /\ Wide(r) => ComparedScopes(r) = CoreScopes
         /\ ~Wide(r) => /\ OwnedScopes(r) \subseteq ComparedScopes(r)
                        /\ ComparedScopes(r) \subseteq OwnedScopes(r) \cup {"mcp_application",
                                                                      "python_setup_tests"}
         /\ "mcp_application" \in ComparedScopes(r) /\ ~Wide(r)
              => "mcp_artifacts" \in OwnedScopes(r)
         /\ "python_setup_tests" \in ComparedScopes(r) /\ ~Wide(r)
              => /\ "python_tests" \in OwnedScopes(r)
                 /\ ~(Paths(r) # {} /\ Paths(r) \subseteq PythonOnly)
         /\ ~Wide(r) /\ "mcp_artifacts" \in OwnedScopes(r)
              => "mcp_application" \in ComparedScopes(r)
         /\ (~Wide(r) /\ "python_tests" \in OwnedScopes(r)
             /\ ~(Paths(r) # {} /\ Paths(r) \subseteq PythonOnly))
              => "python_setup_tests" \in ComparedScopes(r)
         /\ OwnedScopes(r) \subseteq {"style_tooling", "python_style", "python_tests",
              "documentation", "agent_skills_lock", "development", "ontology_validation",
              "ontology_validation_workflow", "ontology_entity_contracts", "ontology_policy_qa",
              "ontology_qualification", "product_tests", "mcp_artifacts", "website_build",
              "mcp_docs"}
<1>1. /\ DOMAIN ContentInputs = {"style_tooling", "python_style", "python_tests", "documentation"}
      /\ DOMAIN DevelopmentInputs = {"agent_skills_lock", "development"}
      /\ DOMAIN OntologyInputs = {"ontology_validation", "ontology_validation_workflow",
                                  "ontology_entity_contracts", "ontology_policy_qa",
                                  "ontology_qualification"}
      /\ DOMAIN ProductInputs = {"product_tests", "mcp_artifacts", "website_build", "mcp_docs"}
  BY DEF ContentInputs, DevelopmentInputs, OntologyInputs, ProductInputs
<1>2. OwnedScopes(r) \subseteq {"style_tooling", "python_style", "python_tests",
        "documentation", "agent_skills_lock", "development", "ontology_validation",
        "ontology_validation_workflow", "ontology_entity_contracts", "ontology_policy_qa",
        "ontology_qualification", "product_tests", "mcp_artifacts", "website_build", "mcp_docs"}
  <2>1. /\ Owned(ContentInputs, Paths(r)) \subseteq DOMAIN ContentInputs
        /\ Owned(DevelopmentInputs, Paths(r)) \subseteq DOMAIN DevelopmentInputs
        /\ Owned(OntologyInputs, Paths(r)) \subseteq DOMAIN OntologyInputs
        /\ Owned(ProductInputs, Paths(r)) \subseteq DOMAIN ProductInputs
    BY DEF Owned
  <2> QED BY <1>1, <2>1 DEF OwnedScopes, If
<1> DEFINE owned == OwnedScopes(r)
           python == owned \cap {"python_tests"} # {}
<1>3. ComparedScopes(r) =
        IF Wide(r) THEN CoreScopes
        ELSE owned \cup If("mcp_artifacts" \in owned, "mcp_application")
                   \cup If(python /\ ~(Paths(r) # {} /\ Paths(r) \subseteq PythonOnly),
                           "python_setup_tests")
  BY DEF ComparedScopes, Wide, OwnedScopes
<1> HIDE DEF owned
<1>4. python <=> "python_tests" \in owned
  OBVIOUS
<1> HIDE DEF python
<1>5. owned \subseteq {"style_tooling", "python_style", "python_tests",
        "documentation", "agent_skills_lock", "development", "ontology_validation",
        "ontology_validation_workflow", "ontology_entity_contracts", "ontology_policy_qa",
        "ontology_qualification", "product_tests", "mcp_artifacts", "website_build", "mcp_docs"}
  BY <1>2 DEF owned
<1>6. "mcp_application" \notin owned /\ "python_setup_tests" \notin owned
  BY <1>5
<1> QED BY <1>3, <1>4, <1>5, <1>6 DEF owned, If

LEMMA CoreScopesAre ==
  CoreScopes = {"style_tooling", "python_style", "python_tests", "documentation",
                "agent_skills_lock", "development", "python_setup_tests",
                "ontology_validation", "ontology_validation_workflow",
                "ontology_entity_contracts", "ontology_policy_qa", "ontology_qualification",
                "product_tests", "ci_control", "mcp_artifacts", "website_build",
                "mcp_application", "mcp_release_qualification", "mcp_docs"}
<1>1. CoreScopes = ScopesOf["development"] \cup ScopesOf["ontology"] \cup ScopesOf["node"]
                   \cup ScopesOf["website"] \cup ScopesOf["distribution"]
  BY ConsumerScopes DEF CoreScopes
<1> QED BY <1>1, ConsumerScopes

\* A comparison of more paths asks for more, as long as it takes no narrow route.
LEMMA ComparedMonotone ==
  ASSUME NEW q, NEW r, Paths(q) \subseteq Paths(r)
  PROVE  Unnarrowed(q) \subseteq Unnarrowed(r)
<1>1. CASE Full
  BY <1>1 DEF Unnarrowed
<1>2. CASE ~Full /\ Wide(r)
  <2>1. ComparedScopes(r) = CoreScopes
    BY <1>2, Compared
  <2>2. ComparedScopes(q) \subseteq CoreScopes
    BY Compared, CoreScopesAre
  <2> QED BY <1>2, <2>1, <2>2 DEF Unnarrowed
<1>3. CASE ~Full /\ ~Wide(r)
  <2>1. ~Wide(q)
    BY <1>3 DEF Wide
  <2>2. OwnedScopes(q) \subseteq OwnedScopes(r)
    <3>1. /\ Owned(ContentInputs, Paths(q)) \subseteq Owned(ContentInputs, Paths(r))
          /\ Owned(OntologyInputs, Paths(q)) \subseteq Owned(OntologyInputs, Paths(r))
          /\ Owned(DevelopmentInputs, Paths(q)) \subseteq Owned(DevelopmentInputs, Paths(r))
          /\ Owned(ProductInputs, Paths(q)) \subseteq Owned(ProductInputs, Paths(r))
      BY DEF Owned
    <3> QED BY <3>1 DEF OwnedScopes, If
  <2>3. "python_tests" \in OwnedScopes(q) => Paths(q) # {}
    <3>1. ASSUME Paths(q) = {} PROVE OwnedScopes(q) = {}
      BY <3>1 DEF OwnedScopes, Owned, If
    <3> QED BY <3>1
  <2>4. ASSUME NEW n \in ComparedScopes(q) PROVE n \in ComparedScopes(r)
    <3>1. CASE n \in OwnedScopes(q)
      BY <1>3, <2>2, <3>1, Compared
    <3>2. CASE n = "mcp_application"
      BY <1>3, <2>1, <2>2, <2>4, <3>2, Compared
    <3>3. CASE n = "python_setup_tests"
      <4>1. /\ "python_tests" \in OwnedScopes(q)
            /\ ~(Paths(q) # {} /\ Paths(q) \subseteq PythonOnly)
        BY <2>1, <2>4, <3>3, Compared
      <4>2. ~(Paths(r) # {} /\ Paths(r) \subseteq PythonOnly)
        BY <2>3, <4>1
      <4> QED BY <1>3, <2>2, <3>3, <4>1, <4>2, Compared
    <3> QED BY <2>1, <2>4, <3>1, <3>2, <3>3, Compared
  <2> QED BY <1>3, <2>4 DEF Unnarrowed
<1> QED BY <1>1, <1>2, <1>3

\* What a plan for all scopes runs, whatever is withheld.
LEMMA CoreSuites ==
  ASSUME NEW s, s = CoreScopes \ Withheld
  PROVE  /\ AllSuites \subseteq SuitesOf(s) /\ "product_tests" \in s /\ "development" \in s
         /\ NodeNeeded(s)
<1>1. Withheld \subseteq {"mcp_artifacts", "mcp_release_qualification"}
  BY DEF Withheld, If
<1>2. {"style_tooling", "development", "product_tests", "python_tests"} \subseteq s
  BY <1>1, CoreScopesAre
<1>3. NodeNeeded(s)
  BY <1>2, ConsumerScopes DEF NodeNeeded
<1> QED BY <1>2, <1>3, AllSuitesAre DEF AllSuites, SuitesOf, If

\* A plan that takes no narrow route runs its suites by scopes.
LEMMA BroadPlans ==
  ASSUME NEW r, BroadRoute(r)
  PROVE  Suites(CreateCheckPlan(r), r) = SuitesOf(Scopes(r))
<1> DEFINE p == CreateCheckPlan(r)
<1>1. /\ p.scopes = Scopes(r) /\ p.full = Full /\ p.required = RequiredJobs(p.scopes)
      /\ Scopes(r) = Unnarrowed(r) \ Withheld
  BY RouteScopes DEF CreateCheckPlan
<1>2. Scopes(r) # {"ci_control"}
  <2>1. Withheld \subseteq {"mcp_artifacts", "mcp_release_qualification"}
    BY DEF Withheld, If
  <2>2. Unnarrowed(r) = CoreScopes \/ "ci_control" \notin Unnarrowed(r)
    BY Compared DEF Unnarrowed
  <2>3. "product_tests" \in CoreScopes
    BY CoreScopesAre
  <2> QED BY <1>1, <2>1, <2>2, <2>3
<1>3. ~(~Full /\ Disabled /\ Families(r) # {} )
      \/ ControlRoute(r)
  BY DEF BroadRoute, FamilyRoute
<1>4. Broad(p, r)
  BY <1>1, <1>2, <1>3 DEF Broad, NodeSuites, Disabled, BroadRoute
<1>5. p.required = RequiredJobs(p.scopes)
  BY <1>1
<1>6. Suites(p, r) \subseteq SuitesOf(p.scopes)
  <2> HIDE DEF p
  <2> QED BY <1>5, <1>4, SuitesUpper
<1>7. SuitesOf(p.scopes) \subseteq Suites(p, r)
  <2> HIDE DEF p
  <2> QED BY <1>5, <1>4, SuitesLower
<1> QED BY <1>1, <1>6, <1>7


\* What the narrow routes run.
LEMMA NarrowPlans ==
  ASSUME NEW r
  PROVE  /\ ControlRoute(r) => Suites(CreateCheckPlan(r), r) = ControlSuites
         /\ FamilyRoute(r) =>
              Suites(CreateCheckPlan(r), r) = UNION {FamilySuites[f] : f \in Families(r)}
<1> DEFINE p == CreateCheckPlan(r)
<1>1. p.scopes = Scopes(r) /\ p.full = Full /\ p.required = RequiredJobs(p.scopes)
  BY DEF CreateCheckPlan
<1> HIDE DEF p
<1>2. CASE ControlRoute(r)
  <2>1. p.scopes = {"ci_control"}
    BY <1>1, <1>2, RouteScopes
  <2>2. NodeSuites(p, r) = ControlSuites
    BY <2>1 DEF NodeSuites
  <2> QED BY <1>1, <1>2, <2>1, <2>2, NarrowSuites DEF FamilyRoute, p
<1>3. CASE FamilyRoute(r)
  <2>1. p.scopes = {"product_tests"}
    BY <1>1, <1>3, RouteScopes
  <2>2. p.scopes # {"ci_control"}
    BY <2>1
  <2>3. ~p.full /\ event.packages = "disabled" /\ Families(r) # {}
    BY <1>1, <1>3 DEF FamilyRoute, Disabled
  <2>4. NodeSuites(p, r) = UNION {FamilySuites[f] : f \in Families(r)}
    BY <2>1, <2>2, <2>3 DEF NodeSuites
  <2> QED BY <1>1, <1>3, <2>1, <2>4, NarrowSuites DEF FamilyRoute, p
<1> QED BY <1>2, <1>3

\* What a broad route leaves out of a comparison of few paths.
LEMMA BroadScopes ==
  ASSUME NEW r, BroadRoute(r)
  PROVE  /\ Full \/ Wide(r) => Scopes(r) = CoreScopes \ Withheld
         /\ ~Full /\ ~Wide(r) => /\ OwnedScopes(r) \ {"mcp_artifacts"} \subseteq Scopes(r)
                                 /\ "ci_control" \notin Scopes(r)
                                 /\ "mcp_release_qualification" \notin Scopes(r)
<1>1. Scopes(r) = Unnarrowed(r) \ Withheld
  BY RouteScopes
<1>2. Withheld \subseteq {"mcp_artifacts", "mcp_release_qualification"}
  BY DEF Withheld, If
<1>3. CASE Full \/ Wide(r)
  BY <1>1, <1>3, Compared DEF Unnarrowed
<1>4. CASE ~Full /\ ~Wide(r)
  <2>1. Unnarrowed(r) = ComparedScopes(r)
    BY <1>4 DEF Unnarrowed
  <2>2. /\ OwnedScopes(r) \subseteq ComparedScopes(r)
        /\ ComparedScopes(r) \subseteq OwnedScopes(r) \cup {"mcp_application",
                                                       "python_setup_tests"}
        /\ OwnedScopes(r) \subseteq {"style_tooling", "python_style", "python_tests",
              "documentation", "agent_skills_lock", "development", "ontology_validation",
              "ontology_validation_workflow", "ontology_entity_contracts", "ontology_policy_qa",
              "ontology_qualification", "product_tests", "mcp_artifacts", "website_build",
              "mcp_docs"}
    BY <1>4, Compared
  <2>3. /\ "ci_control" \notin ComparedScopes(r)
        /\ "mcp_release_qualification" \notin ComparedScopes(r)
        /\ "mcp_release_qualification" \notin OwnedScopes(r)
    BY <2>2
  <2> QED BY <1>1, <1>2, <1>4, <2>1, <2>2, <2>3
<1> QED BY <1>3, <1>4

\* The paths that own a scope.
LEMMA PathScopes ==
  ASSUME NEW r, NEW x \in Paths(r)
  PROVE  /\ x \in {"pr-check-scopes.test.js", "configure-git-hooks.test.js",
                   "test_set_up_mcp_servers.py"} => "development" \in OwnedScopes(r)
         /\ x = "json-quality.test.js" => "style_tooling" \in OwnedScopes(r)
         /\ x = "documentation.test.js" => "mcp_docs" \in OwnedScopes(r)
         /\ x \in {"query.test.js", "prepareManualMcpRelease.js"} =>
              "product_tests" \in OwnedScopes(r)
         /\ x = "test_ontology_policy.py" => "ontology_policy_qa" \in OwnedScopes(r)
         /\ x \in {"manual-mcp-packages.yml", "manual-mcp-packages.test.js", "build.test.js",
                   "uml.test.js"} => Wide(r)
<1>1. /\ "style_tooling" \in DOMAIN ContentInputs
      /\ "development" \in DOMAIN DevelopmentInputs
      /\ "ontology_policy_qa" \in DOMAIN OntologyInputs
      /\ "product_tests" \in DOMAIN ProductInputs /\ "mcp_docs" \in DOMAIN ProductInputs
  BY DEF ContentInputs, DevelopmentInputs, OntologyInputs, ProductInputs
<1>2. /\ "json-quality.test.js" \in ContentInputs["style_tooling"]
      /\ {"pr-check-scopes.test.js", "configure-git-hooks.test.js",
          "test_set_up_mcp_servers.py"} \subseteq DevelopmentInputs["development"]
      /\ "test_ontology_policy.py" \in OntologyInputs["ontology_policy_qa"]
      /\ {"query.test.js", "prepareManualMcpRelease.js"} \subseteq ProductInputs["product_tests"]
      /\ "documentation.test.js" \in ProductInputs["mcp_docs"]
  BY DEF ContentInputs, DevelopmentInputs, OntologyInputs, ProductInputs, Common,
         OntologyPolicy, ModulePaths
<1>3. /\ x = "json-quality.test.js" => "style_tooling" \in Owned(ContentInputs, Paths(r))
      /\ x \in {"pr-check-scopes.test.js", "configure-git-hooks.test.js",
                "test_set_up_mcp_servers.py"} =>
           "development" \in Owned(DevelopmentInputs, Paths(r))
      /\ x = "test_ontology_policy.py" =>
           "ontology_policy_qa" \in Owned(OntologyInputs, Paths(r))
      /\ x \in {"query.test.js", "prepareManualMcpRelease.js"} =>
           "product_tests" \in Owned(ProductInputs, Paths(r))
      /\ x = "documentation.test.js" => "mcp_docs" \in Owned(ProductInputs, Paths(r))
  BY <1>1, <1>2 DEF Owned
<1>4. x \in {"manual-mcp-packages.yml", "manual-mcp-packages.test.js", "build.test.js",
             "uml.test.js"} => Wide(r)
  BY DEF Wide, Unlisted, Orchestration
<1> QED BY <1>3, <1>4 DEF OwnedScopes


\* A path of a narrow route asks for the Node suites where the route is not taken.
LEMMA NarrowPathsNeedNode ==
  ASSUME NEW r, BroadRoute(r),
         NEW x \in Paths(r) \cap {"manual-mcp-packages.yml", "manual-mcp-packages.test.js",
                                  "prepareManualMcpRelease.js", "build.test.js",
                                  "query.test.js"}
  PROVE  NodeNeeded(Scopes(r))
<1>1. CASE Full \/ Wide(r)
  BY <1>1, BroadScopes, CoreSuites
<1>2. CASE ~Full /\ ~Wide(r)
  <2>1. x \in {"query.test.js", "prepareManualMcpRelease.js"}
    BY <1>2, PathScopes
  <2>2. "product_tests" \in Scopes(r)
    BY <1>2, <2>1, PathScopes, BroadScopes
  <2> QED BY <2>2, ConsumerScopes DEF NodeNeeded
<1> QED BY <1>1, <1>2

\* A plan runs every suite that is among the changed paths.
LEMMA ChangedSuitesRun ==
  ASSUME NEW r, NEW c \in r, c.status # "D", c.path \in AllSuites \ {"assets.test.js"}
  PROVE  c.path \in Suites(CreateCheckPlan(r), r)
<1>0. c.path \in Paths(r)
  BY DEF Paths
<1>1. CASE ControlRoute(r)
  <2>1. c.path \in ControlInputs
    BY <1>0, <1>1 DEF ControlRoute
  <2>2. c.path \in ControlSuites
    BY <2>1, AllSuitesAre DEF ControlInputs, AllSuites, ControlSuites
  <2> QED BY <1>1, <2>2, NarrowPlans
<1>2. CASE FamilyRoute(r)
  <2>1. Families(r) # {}
    BY <1>2 DEF FamilyRoute
  <2>2. c.path \in FamilyTests /\ Families(r) = {f \in DOMAIN FamilySuites :
                                                    FamilySuites[f] \cap Paths(r) # {}}
    BY <2>1 DEF Families
  <2>3. PICK f \in DOMAIN FamilySuites : c.path \in FamilySuites[f]
    BY <2>2 DEF FamilyTests
  <2>4. f \in Families(r)
    BY <1>0, <2>2, <2>3
  <2> QED BY <1>2, <2>3, <2>4, NarrowPlans
<1>3. CASE BroadRoute(r)
  <2>1. Suites(CreateCheckPlan(r), r) = SuitesOf(Scopes(r))
    BY <1>3, BroadPlans
  <2>2. CASE Full \/ Wide(r)
    BY <1>3, <2>1, <2>2, BroadScopes, CoreSuites
  <2>3. CASE ~Full /\ ~Wide(r)
    <3>1. c.path \in {"pr-check-scopes.test.js", "configure-git-hooks.test.js",
                      "json-quality.test.js", "documentation.test.js", "query.test.js",
                      "test_ontology_policy.py", "test_set_up_mcp_servers.py"}
      BY <1>0, <2>3, AllSuitesAre, PathScopes DEF AllSuites
    <3>2. OwnedScopes(r) \ {"mcp_artifacts"} \subseteq Scopes(r)
      BY <1>3, <2>3, BroadScopes
    <3>3. CASE c.path \in {"pr-check-scopes.test.js", "configure-git-hooks.test.js",
                           "test_set_up_mcp_servers.py"}
      <4>1. "development" \in Scopes(r)
        BY <1>0, <3>2, <3>3, PathScopes
      <4> QED BY <2>1, <3>3, <4>1 DEF SuitesOf, If
    <3>4. CASE c.path = "json-quality.test.js"
      <4>1. "style_tooling" \in Scopes(r)
        BY <1>0, <3>2, <3>4, PathScopes
      <4> QED BY <2>1, <3>4, <4>1 DEF SuitesOf, If
    <3>5. CASE c.path = "documentation.test.js"
      <4>1. "mcp_docs" \in Scopes(r)
        BY <1>0, <3>2, <3>5, PathScopes
      <4> QED BY <2>1, <3>5, <4>1 DEF SuitesOf, If
    <3>6. CASE c.path = "query.test.js"
      <4>1. NodeNeeded(Scopes(r))
        BY <1>0, <1>3, <3>6, NarrowPathsNeedNode
      <4> QED BY <2>1, <3>6, <4>1 DEF SuitesOf, If
    <3>7. CASE c.path = "test_ontology_policy.py"
      <4>1. "ontology_policy_qa" \in Scopes(r)
        BY <1>0, <3>2, <3>7, PathScopes
      <4> QED BY <2>1, <3>7, <4>1 DEF SuitesOf, If
    <3> QED BY <3>1, <3>3, <3>4, <3>5, <3>6, <3>7
  <2> QED BY <2>2, <2>3
<1> QED BY <1>1, <1>2, <1>3 DEF BroadRoute

\* The selector accepts its plan: it is one of the schema, and the control coverage does not
\* take the place of others.
LEMMA PlansAreAccepted ==
  ASSUME NEW r, event \in Events
  PROVE  IsCheckPlan(CreateCheckPlan(r))
<1> DEFINE p == CreateCheckPlan(r)
           packages == {"mcp_artifacts", "mcp_release_qualification"}
<1>1. p.scopes = Scopes(r) /\ p.required = RequiredJobs(Scopes(r)) /\ (p.full <=> Full)
  BY DEF CreateCheckPlan, Full
<1> SUFFICES IsCheckPlan(p)
  OBVIOUS
<1> HIDE DEF p
<1>2. /\ Withheld \subseteq packages
      /\ "mcp_artifacts" \in Withheld <=> event.packages = "disabled"
      /\ "mcp_release_qualification" \in Withheld <=> event.packages # "manual"
  BY DEF Withheld, Disabled, If
<1>3. event.packages = "manual" => Full
  BY CheckPlanAssumption DEF CheckPlanAssumption, Full
<1>4. p.required \subseteq Consumers
  BY <1>1 DEF RequiredJobs
<1>5. CASE ControlRoute(r) \/ FamilyRoute(r)
  <2>1. /\ Scopes(r) = {"ci_control"} \/ Scopes(r) = {"product_tests"}
        /\ event.packages = "disabled" /\ ~Full
    BY <1>5, RouteScopes DEF ControlRoute, FamilyRoute, Disabled
  <2> QED BY <1>1, <1>4, <2>1
       DEF IsCheckPlan, IsSchemaPlan, FullSelectsSources, DisabledSelectsNoPackages,
           ManualSelectsAll, CiReleasesNothing, FullCiSelectsArtifacts,
           ArtifactsNeedApplication, ReleaseNeedsArtifacts, NamesConsumers
<1>6. CASE BroadRoute(r) /\ (Full \/ Wide(r))
  <2>1. Scopes(r) = CoreScopes \ Withheld
    BY <1>6, BroadScopes
  <2>2. /\ "mcp_application" \in Scopes(r) /\ "product_tests" \in Scopes(r)
        /\ "mcp_artifacts" \in Scopes(r) <=> event.packages # "disabled"
        /\ "mcp_release_qualification" \in Scopes(r) <=> event.packages = "manual"
        /\ CoreScopes \ packages \subseteq Scopes(r)
    BY <1>2, <2>1, CoreScopesAre
  <2> QED BY <1>1, <1>3, <1>4, <2>2
       DEF IsCheckPlan, IsSchemaPlan, FullSelectsSources, DisabledSelectsNoPackages,
           ManualSelectsAll, CiReleasesNothing, FullCiSelectsArtifacts,
           ArtifactsNeedApplication, ReleaseNeedsArtifacts, NamesConsumers
<1>7. CASE BroadRoute(r) /\ ~Full /\ ~Wide(r)
  <2>1. Scopes(r) = ComparedScopes(r) \ Withheld
    BY <1>7, RouteScopes DEF Unnarrowed
  <2>2. /\ "ci_control" \notin Scopes(r) /\ "mcp_release_qualification" \notin Scopes(r)
    BY <1>7, BroadScopes
  <2>3. "mcp_artifacts" \in Scopes(r) => "mcp_application" \in Scopes(r)
    BY <1>2, <1>7, <2>1, Compared
  <2>4. event.packages = "disabled" => "mcp_artifacts" \notin Scopes(r)
    BY <1>2, <2>1
  <2> QED BY <1>1, <1>3, <1>4, <1>7, <2>2, <2>3, <2>4
       DEF IsCheckPlan, IsSchemaPlan, FullSelectsSources, DisabledSelectsNoPackages,
           ManualSelectsAll, CiReleasesNothing, FullCiSelectsArtifacts,
           ArtifactsNeedApplication, ReleaseNeedsArtifacts, NamesConsumers
<1> QED BY <1>5, <1>6, <1>7 DEF BroadRoute

\* Its consumers start the jobs that their completion asks for, and the website is built
\* where Node suites run.
LEMMA PlansAreSound ==
  ASSUME NEW r
  PROVE  /\ \A c \in RequiredJobs(Scopes(r)) :
              ConsumerJobs(c, Scopes(r)) = StartedJobs(c, Scopes(r))
         /\ "website" \in RequiredJobs(Scopes(r)) => "node" \in RequiredJobs(Scopes(r))
<1>2. /\ "mcp_release_qualification" \in Scopes(r) => "product_tests" \in Scopes(r)
  <2>1. CASE ControlRoute(r) \/ FamilyRoute(r)
    BY <2>1, RouteScopes
  <2>2. CASE BroadRoute(r) /\ (Full \/ Wide(r))
    BY <2>2, BroadScopes, CoreSuites
  <2>3. CASE BroadRoute(r) /\ ~Full /\ ~Wide(r)
    BY <2>3, BroadScopes
  <2> QED BY <2>1, <2>2, <2>3 DEF BroadRoute
<1>3. ASSUME NEW c \in RequiredJobs(Scopes(r))
      PROVE  ConsumerJobs(c, Scopes(r)) = StartedJobs(c, Scopes(r))
  <2>1. CASE c # "distribution"
    BY <2>1 DEF StartedJobs
  <2>2. CASE c = "distribution"
    <3>1. ScopesOf["distribution"] \cap Scopes(r) # {}
      BY <1>3, <2>2 DEF RequiredJobs
    <3>2. {"product_tests", "mcp_application", "mcp_artifacts", "website_build", "mcp_docs"}
          \cap Scopes(r) # {}
      BY <1>2, <3>1, ConsumerScopes
    <3> QED BY <2>2, <3>2 DEF StartedJobs
  <2> QED BY <2>1, <2>2
<1>4. "website" \in RequiredJobs(Scopes(r)) => "node" \in RequiredJobs(Scopes(r))
  BY ConsumerScopes DEF RequiredJobs
<1> QED BY <1>3, <1>4

\* A comparison of more paths takes nothing away, along whatever routes.
LEMMA MorePathsRunMore ==
  ASSUME NEW r, "assets.test.js" \notin Paths(r), NEW c \in r
  PROVE  /\ RequiredJobs(Scopes(r \ {c})) \subseteq RequiredJobs(Scopes(r))
         /\ Suites(CreateCheckPlan(r \ {c}), r \ {c}) \subseteq Suites(CreateCheckPlan(r), r)
<1> DEFINE q == r \ {c}
<1>1. Paths(q) \subseteq Paths(r) /\ (Paths(q) = {} <=> q = {})
  BY DEF Paths
<1>2. ControlInputs \cap FamilyTests = {}
  BY AllSuitesAre DEF ControlInputs
<1>3. /\ RequiredJobs({"ci_control"}) = {"development", "node"}
      /\ RequiredJobs({"product_tests"}) = {"development", "node"}
      /\ RequiredJobs({}) = {"development"} /\ SuitesOf({}) = {}
  BY ConsumerScopes DEF RequiredJobs, SuitesOf, NodeNeeded, If
<1>4. ASSUME q = {}, ~Full
      PROVE  /\ RequiredJobs(Scopes(q)) = {"development"}
             /\ Suites(CreateCheckPlan(q), q) = {}
  <2>1. BroadRoute(q)
    BY <1>1, <1>4 DEF BroadRoute, ControlRoute, FamilyRoute, Families
  <2>2. ~Wide(q) /\ OwnedScopes(q) = {}
    BY <1>1, <1>4 DEF Wide, OwnedScopes, Owned, If
  <2>3. ComparedScopes(q) = {}
    BY <2>2, Compared
  <2>4. Scopes(q) = {}
    BY <1>4, <2>1, <2>3, RouteScopes DEF Unnarrowed
  <2> QED BY <1>3, <2>1, <2>4, BroadPlans
<1>5. "development" \in RequiredJobs(Scopes(r))
  BY ConsumerScopes DEF RequiredJobs
<1> HIDE DEF q
<1>6. CASE ControlRoute(r)
  <2>1. ~Full /\ Paths(r) \subseteq ControlInputs
    BY <1>6 DEF ControlRoute
  <2>2. CASE q = {}
    BY <1>4, <1>5, <2>1, <2>2 DEF q
  <2>3. CASE q # {}
    <3>1. ControlRoute(q)
      BY <1>1, <1>6, <2>3 DEF ControlRoute
    <3> QED BY <1>6, <3>1, RouteScopes, NarrowPlans DEF q
  <2> QED BY <2>2, <2>3
<1>7. CASE FamilyRoute(r)
  <2>1. /\ ~Full /\ Disabled /\ Families(r) # {}
    BY <1>7 DEF FamilyRoute
  <2>2. /\ \A d \in r : d.path \in FamilyTests /\ d.status # "D"
        /\ Families(r) = {f \in DOMAIN FamilySuites : FamilySuites[f] \cap Paths(r) # {}}
    BY <2>1 DEF Families
  <2>3. CASE q = {}
    BY <1>4, <1>5, <2>1, <2>3 DEF q
  <2>4. CASE q # {}
    <3>1. PICK d \in q : TRUE
      BY <2>4
    <3>2. d \in r /\ d.path \in Paths(q)
      BY <3>1 DEF q, Paths
    <3>3. ~ControlRoute(q)
      BY <1>2, <2>2, <3>2 DEF ControlRoute
    <3>4. Families(q) = {f \in DOMAIN FamilySuites : FamilySuites[f] \cap Paths(q) # {}}
      BY <2>2, <2>4 DEF q, Families
    <3>5. PICK f \in DOMAIN FamilySuites : d.path \in FamilySuites[f]
      BY <2>2, <3>2 DEF FamilyTests
    <3>6. Families(q) # {} /\ Families(q) \subseteq Families(r)
      BY <1>1, <2>2, <3>2, <3>4, <3>5
    <3>7. FamilyRoute(q)
      BY <2>1, <3>3, <3>6 DEF FamilyRoute
    <3>8. Scopes(q) = Scopes(r)
      BY <1>7, <3>7, RouteScopes
    <3>9. Suites(CreateCheckPlan(q), q) \subseteq Suites(CreateCheckPlan(r), r)
      BY <1>7, <3>6, <3>7, NarrowPlans
    <3> QED BY <3>8, <3>9 DEF q
  <2> QED BY <2>3, <2>4
<1>8. CASE BroadRoute(r)
  <2>0. Suites(CreateCheckPlan(r), r) = SuitesOf(Scopes(r))
    BY <1>8, BroadPlans
  <2>1. CASE BroadRoute(q)
    <3>1. Scopes(q) \subseteq Scopes(r)
      BY <1>1, <1>8, <2>1, RouteScopes, ComparedMonotone
    <3>2. Suites(CreateCheckPlan(q), q) = SuitesOf(Scopes(q))
      BY <2>1, BroadPlans
    <3>3. SuitesOf(Scopes(q)) \subseteq SuitesOf(Scopes(r))
          /\ RequiredJobs(Scopes(q)) \subseteq RequiredJobs(Scopes(r))
      BY <3>1, ScopesMonotone
    <3> QED BY <2>0, <3>2, <3>3 DEF q
  <2>2. ASSUME NodeNeeded(Scopes(r))
        PROVE  /\ "node" \in RequiredJobs(Scopes(r))
               /\ {"pr-check-scopes.test.js", "manual-mcp-packages.test.js", "build.test.js",
                   "assets.test.js", "query.test.js"} \subseteq SuitesOf(Scopes(r))
    BY <2>2, ConsumerScopes DEF NodeNeeded, RequiredJobs, SuitesOf
  <2>3. CASE ControlRoute(q)
    <3>1. PICK x \in Paths(q) : x \in ControlInputs
      BY <2>3 DEF ControlRoute
    <3>2. NodeNeeded(Scopes(r))
      BY <1>1, <1>8, <3>1, NarrowPathsNeedNode DEF ControlInputs
    <3>3. Scopes(q) = {"ci_control"} /\ Suites(CreateCheckPlan(q), q) = ControlSuites
      BY <2>3, RouteScopes, NarrowPlans
    <3> QED BY <1>3, <1>5, <2>0, <2>2, <3>2, <3>3 DEF q, ControlSuites
  <2>4. CASE FamilyRoute(q)
    <3>1. Families(q) # {}
      BY <2>4 DEF FamilyRoute
    <3>2. q # {} /\ \A d \in q : d.path \in FamilyTests
      BY <3>1 DEF Families
    <3>3. PICK d \in q : d.path \in FamilyTests
      BY <3>2
    <3>4. d.path \in Paths(r) /\ d.path \in {"build.test.js", "query.test.js"}
      BY <1>1, <3>3, AllSuitesAre DEF Paths
    <3>5. NodeNeeded(Scopes(r))
      BY <1>8, <3>4, NarrowPathsNeedNode
    <3>6. Scopes(q) = {"product_tests"}
          /\ Suites(CreateCheckPlan(q), q) = UNION {FamilySuites[f] : f \in Families(q)}
      BY <2>4, RouteScopes, NarrowPlans
    <3>7. Families(q) \subseteq DOMAIN FamilySuites
      BY DEF Families
    <3>8. Suites(CreateCheckPlan(q), q) \subseteq FamilyTests
      BY <3>6, <3>7 DEF FamilyTests
    <3> QED BY <1>3, <1>5, <2>0, <2>2, <3>5, <3>6, <3>8, AllSuitesAre DEF q
  <2> QED BY <2>1, <2>3, <2>4 DEF BroadRoute
<1> QED BY <1>6, <1>7, <1>8 DEF BroadRoute


-----------------------------------------------------------------------------
\* What the plan is, and what each result says of the run.
Results == {"pending", "success", "failure", "skipped", "cancelled"}
PlanInv ==
  /\ event \in Events /\ Paths(changes) \subseteq Changeable
  /\ results \in [Consumers \cup {"select"} -> Results]
  /\ results["select"] \in {"pending", "success", "cancelled"}
  /\ plan = IF results["select"] = "success" THEN CreateCheckPlan(changes) ELSE <<>>
ResultsInv ==
  /\ results["select"] \in {"pending", "cancelled"} =>
       \A c \in Consumers : results[c] = results["select"]
  /\ \A c \in Consumers :
       /\ results[c] = "failure" => failed # {}
       /\ results[c] = "success" =>
            /\ c \in plan.required
            /\ \A j \in ConsumerJobs(c, plan.scopes) : JobSuites(plan, changes, j) \subseteq ran
       /\ results[c] = "skipped" /\ c \in plan.required =>
            /\ c \in {"website", "distribution"}
            /\ results["node"] \in {"failure", "skipped", "cancelled"}
            /\ results["node"] = "skipped" => c = "website"
AllSucceeded == /\ results["select"] = "success"
                /\ \A c \in Consumers : \/ results[c] = "success"
                                        \/ results[c] = "skipped" /\ c \notin plan.required
VerdictInv ==
  /\ verdict \in {"none", "green", "red"}
  /\ verdict # "none" => /\ \A j \in Consumers \cup {"select"} : results[j] # "pending"
                         /\ verdict = "green" <=> AllSucceeded
CheckPlanInv == PlanInv /\ ResultsInv /\ VerdictInv


LEMMA ChecksBegin == CheckPlanInit => CheckPlanInv
<1> SUFFICES ASSUME CheckPlanInit PROVE CheckPlanInv
  OBVIOUS
<1>1. Paths(changes) \subseteq Changeable
  <2>1. changes \in Revisions
    BY DEF CheckPlanInit
  <2>2. CASE changes = {}
    BY <2>2 DEF Paths
  <2>3. CASE changes # {}
    <3>1. PICK change \in [1..MaxChanges -> [path : Changeable, status : {"M", "D"}]] :
            changes = {change[n] : n \in 1..MaxChanges}
      BY <2>1, <2>3 DEF Revisions
    <3> QED BY <3>1 DEF Paths
  <2> QED BY <2>2, <2>3
<1>2. results = [j \in Consumers \cup {"select"} |-> "pending"]
  BY DEF CheckPlanInit
<1>3. PlanInv
  BY <1>1, <1>2 DEF PlanInv, Results, CheckPlanInit
<1>4. ResultsInv
  BY <1>2 DEF ResultsInv
<1>5. VerdictInv
  BY DEF VerdictInv, CheckPlanInit
<1> QED BY <1>3, <1>4, <1>5 DEF CheckPlanInv

LEMMA SelectChecksKeeps ==
  ASSUME CheckPlanInv, SelectChecks
  PROVE  CheckPlanInv'
<1>0. "select" \notin Consumers /\ changes' = changes /\ event' = event
  BY ConsumerScopes DEF SelectChecks
<1>1. /\ results["select"] = "pending" /\ plan' = CreateCheckPlan(changes)
      /\ results' = [results EXCEPT !["select"] = "success"]
      /\ verdict' = verdict
  BY PlansAreAccepted DEF SelectChecks, CheckPlanInv, PlanInv
<1>2. CreateCheckPlan(changes)' = CreateCheckPlan(changes)
  BY <1>0 DEF CreateCheckPlan, Scopes, Full, ChangedScopes, Families, ComparedScopes, Paths,
              Owned, RequiredJobs
<1>3. /\ results'["select"] = "success" /\ \A c \in Consumers : results'[c] = results[c]
      /\ results' \in [Consumers \cup {"select"} -> Results]
  BY <1>0, <1>1 DEF CheckPlanInv, PlanInv, Results
<1>4. \A c \in Consumers : results[c] = "pending"
  BY <1>1 DEF CheckPlanInv, ResultsInv
<1>5. PlanInv'
  BY <1>0, <1>1, <1>2, <1>3 DEF CheckPlanInv, PlanInv, Paths
<1>6. ResultsInv'
  BY <1>3, <1>4 DEF ResultsInv
<1>7. verdict = "none"
  BY <1>1 DEF CheckPlanInv, VerdictInv
<1>8. VerdictInv'
  BY <1>1, <1>7 DEF VerdictInv
<1> QED BY <1>5, <1>6, <1>8 DEF CheckPlanInv

\* What a step leaves of the plan, where it leaves what the plan is made from.
LEMMA PlanStays ==
  ASSUME UNCHANGED <<event, changes, plan>>
  PROVE  /\ CreateCheckPlan(changes)' = CreateCheckPlan(changes)
         /\ \A j : JobSuites(plan, changes, j)' = JobSuites(plan, changes, j)
<1>1. CreateCheckPlan(changes)' = CreateCheckPlan(changes)
  BY DEF CreateCheckPlan, Scopes, Full, ChangedScopes, Families, ComparedScopes, Paths,
         Owned, RequiredJobs
<1>2. \A j : JobSuites(plan, changes, j)' = JobSuites(plan, changes, j)
  BY DEF JobSuites, NodeSuites, Families, Paths
<1> QED BY <1>1, <1>2


\* A consumer whose turn it is: the plan has been made, and no verdict yet.
LEMMA TurnFacts ==
  ASSUME CheckPlanInv, NEW c \in Consumers, Turn(c)
  PROVE  /\ results["select"] = "success" /\ plan = CreateCheckPlan(changes)
         /\ results[c] = "pending" /\ verdict = "none" /\ c # "select"
         /\ c \in {"website", "distribution"} => results["node"] # "pending"
<1>1. /\ results["select"] # "pending" /\ results[c] = "pending"
      /\ \A i, j \in DOMAIN Order : i < j /\ Order[j] = c => results[Order[i]] # "pending"
  BY DEF Turn
<1>2. results["select"] = "success"
  BY <1>1 DEF CheckPlanInv, PlanInv, ResultsInv
<1>3. /\ 3 \in DOMAIN Order /\ 4 \in DOMAIN Order /\ 5 \in DOMAIN Order
      /\ Order[3] = "node" /\ Order[4] = "website" /\ Order[5] = "distribution"
  BY DEF Order
<1>4. c \in {"website", "distribution"} => results["node"] # "pending"
  <2>1. CASE c = "website"
    <3>1. 3 < 4
      OBVIOUS
    <3> QED BY <1>1, <1>3, <2>1, <3>1
  <2>2. CASE c = "distribution"
    <3>1. 3 < 5
      OBVIOUS
    <3> QED BY <1>1, <1>3, <2>2, <3>1
  <2> QED BY <2>1, <2>2
<1>5. verdict = "none"
  BY <1>1 DEF CheckPlanInv, VerdictInv
<1> QED BY <1>1, <1>2, <1>4, <1>5, ConsumerScopes DEF CheckPlanInv, PlanInv

LEMMA SkipConsumerKeeps ==
  ASSUME CheckPlanInv, NEW c \in Consumers, SkipConsumer(c)
  PROVE  CheckPlanInv'
<1>1. /\ results["select"] = "success" /\ plan = CreateCheckPlan(changes)
      /\ results[c] = "pending" /\ verdict = "none" /\ c # "select"
      /\ c \in {"website", "distribution"} => results["node"] # "pending"
  BY TurnFacts DEF SkipConsumer
<1>2. /\ results' = [results EXCEPT ![c] = "skipped"] /\ ~Starts(c)
      /\ UNCHANGED <<event, changes, plan, ran, failed, verdict>>
  BY DEF SkipConsumer
<1>3. /\ results \in [Consumers \cup {"select"} -> Results]
      /\ event \in Events /\ Paths(changes) \subseteq Changeable
  BY DEF CheckPlanInv, PlanInv
<1>4. /\ results'[c] = "skipped" /\ results'["select"] = "success"
      /\ \A d \in Consumers \ {c} : results'[d] = results[d]
      /\ results' \in [Consumers \cup {"select"} -> Results]
  BY <1>1, <1>2, <1>3 DEF Results
<1>5. CreateCheckPlan(changes)' = CreateCheckPlan(changes)
      /\ \A j : JobSuites(plan, changes, j)' = JobSuites(plan, changes, j)
  BY <1>2, PlanStays
<1>6. PlanInv'
  BY <1>1, <1>2, <1>3, <1>4, <1>5 DEF PlanInv, Paths
<1>7. "node" \in Consumers
  BY ConsumerScopes
<1>8. ASSUME NEW d \in Consumers
      PROVE  /\ results'[d] = "failure" => failed' # {}
             /\ results'[d] = "success" =>
                  /\ d \in plan'.required
                  /\ \A j \in ConsumerJobs(d, plan'.scopes) :
                       JobSuites(plan, changes, j)' \subseteq ran'
             /\ results'[d] = "skipped" /\ d \in plan'.required =>
                  /\ d \in {"website", "distribution"}
                  /\ results'["node"] \in {"failure", "skipped", "cancelled"}
                  /\ results'["node"] = "skipped" => d = "website"
  <2>1. CASE d # c
    <3>1. /\ results[d] = "failure" => failed # {}
          /\ results[d] = "success" =>
               /\ d \in plan.required
               /\ \A j \in ConsumerJobs(d, plan.scopes) : JobSuites(plan, changes, j) \subseteq ran
          /\ results[d] = "skipped" /\ d \in plan.required =>
               /\ d \in {"website", "distribution"}
               /\ results["node"] \in {"failure", "skipped", "cancelled"}
               /\ results["node"] = "skipped" => d = "website"
      BY DEF CheckPlanInv, ResultsInv
    <3>2. results'[d] = results[d]
      BY <1>4, <2>1
    <3>3. results["node"] # "pending" => results'["node"] = results["node"]
      BY <1>1, <1>4, <1>7
    <3> QED BY <1>2, <1>5, <3>1, <3>2, <3>3
  <2>2. CASE d = c
    <3>1. c \in plan.required =>
            \/ c = "website" /\ results["node"] # "success"
            \/ c = "distribution" /\ results["node"] \notin {"success", "skipped"}
      BY <1>1, <1>2 DEF Starts
    <3>2. c \in {"website", "distribution"} => results'["node"] = results["node"]
      BY <1>4, <1>7
    <3>3. results["node"] \in Results
      BY <1>3, <1>7
    <3> QED BY <1>1, <1>2, <1>4, <2>2, <3>1, <3>2, <3>3 DEF Results
  <2> QED BY <2>1, <2>2
<1>9. ResultsInv'
  BY <1>4, <1>8 DEF ResultsInv
<1>10. VerdictInv'
  BY <1>1, <1>2 DEF VerdictInv
<1> QED BY <1>6, <1>9, <1>10 DEF CheckPlanInv

LEMMA RunConsumerKeeps ==
  ASSUME CheckPlanInv, NEW c \in Consumers, RunConsumer(c)
  PROVE  CheckPlanInv'
<1>1. /\ results["select"] = "success" /\ plan = CreateCheckPlan(changes)
      /\ results[c] = "pending" /\ verdict = "none" /\ c # "select"
  BY TurnFacts DEF RunConsumer
<1>2. Starts(c) /\ UNCHANGED <<event, changes, plan, verdict>>
  BY DEF RunConsumer
<1>3. PICK broken \in {{}} \cup {{j} : j \in StartedJobs(c, plan.scopes)} :
        LET passed == StartedJobs(c, plan.scopes) \ broken
            complete == broken = {} /\ ConsumerJobs(c, plan.scopes) \subseteq passed
        IN /\ failed' = failed \cup broken
           /\ ran' = ran \cup UNION {JobSuites(plan, changes, j) : j \in passed}
           /\ results' = [results EXCEPT ![c] = IF complete THEN "success" ELSE "failure"]
  BY DEF RunConsumer
<1>4. /\ results \in [Consumers \cup {"select"} -> Results]
      /\ event \in Events /\ Paths(changes) \subseteq Changeable
  BY DEF CheckPlanInv, PlanInv
<1>5. /\ results'[c] \in {"success", "failure"} /\ results'["select"] = "success"
      /\ \A d \in Consumers \ {c} : results'[d] = results[d]
      /\ results' \in [Consumers \cup {"select"} -> Results]
  BY <1>1, <1>3, <1>4 DEF Results
<1>6. CreateCheckPlan(changes)' = CreateCheckPlan(changes)
      /\ \A j : JobSuites(plan, changes, j)' = JobSuites(plan, changes, j)
  BY <1>2, PlanStays
<1>7. PlanInv'
  BY <1>1, <1>2, <1>4, <1>5, <1>6 DEF PlanInv, Paths
<1>8. c \in plan.required /\ plan.scopes = Scopes(changes)
      /\ plan.required = RequiredJobs(Scopes(changes))
  BY <1>1, <1>2 DEF Starts, CreateCheckPlan
<1>9. ConsumerJobs(c, plan.scopes) = StartedJobs(c, plan.scopes)
  BY <1>8, PlansAreSound
<1>10. failed \subseteq failed' /\ ran \subseteq ran' /\ (failed' = failed \cup broken)
  BY <1>3
<1>11. /\ results'[c] = "failure" => broken # {}
       /\ results'[c] = "success" => broken = {}
  BY <1>1, <1>3, <1>4, <1>9
<1>12. "node" \in Consumers
  BY ConsumerScopes
<1>13. ASSUME NEW d \in Consumers
       PROVE  /\ results'[d] = "failure" => failed' # {}
              /\ results'[d] = "success" =>
                   /\ d \in plan'.required
                   /\ \A j \in ConsumerJobs(d, plan'.scopes) :
                        JobSuites(plan, changes, j)' \subseteq ran'
              /\ results'[d] = "skipped" /\ d \in plan'.required =>
                   /\ d \in {"website", "distribution"}
                   /\ results'["node"] \in {"failure", "skipped", "cancelled"}
                   /\ results'["node"] = "skipped" => d = "website"
  <2>1. CASE d # c
    <3>1. /\ results[d] = "failure" => failed # {}
          /\ results[d] = "success" =>
               /\ d \in plan.required
               /\ \A j \in ConsumerJobs(d, plan.scopes) : JobSuites(plan, changes, j) \subseteq ran
          /\ results[d] = "skipped" /\ d \in plan.required =>
               /\ d \in {"website", "distribution"}
               /\ results["node"] \in {"failure", "skipped", "cancelled"}
               /\ results["node"] = "skipped" => d = "website"
      BY DEF CheckPlanInv, ResultsInv
    <3>2. results'[d] = results[d]
      BY <1>5, <2>1
    <3>3. results["node"] # "pending" => results'["node"] = results["node"]
      BY <1>1, <1>5, <1>12
    <3>4. ASSUME results'[d] = "success", NEW j \in ConsumerJobs(d, plan'.scopes)
          PROVE  JobSuites(plan, changes, j)' \subseteq ran'
      BY <1>2, <1>6, <1>10, <3>1, <3>2, <3>4
    <3> QED BY <1>2, <1>10, <3>1, <3>2, <3>3, <3>4
  <2>2. CASE d = c
    <3>1. ASSUME results'[c] = "success", NEW j \in ConsumerJobs(c, plan'.scopes)
          PROVE  JobSuites(plan, changes, j)' \subseteq ran'
      <4>1. j \in StartedJobs(c, plan.scopes) \ broken
        BY <1>2, <1>9, <1>11, <3>1
      <4>2. JobSuites(plan, changes, j) \subseteq ran'
        BY <1>3, <4>1
      <4> QED BY <1>6, <4>2
    <3>2. results'[c] = "failure" => failed' # {}
      BY <1>10, <1>11
    <3> QED BY <1>2, <1>5, <1>8, <2>2, <3>1, <3>2
  <2> QED BY <2>1, <2>2
<1>14. ResultsInv'
  BY <1>5, <1>13 DEF ResultsInv
<1>15. VerdictInv'
  BY <1>1, <1>2 DEF VerdictInv
<1> QED BY <1>7, <1>14, <1>15 DEF CheckPlanInv

LEMMA CancelRunKeeps ==
  ASSUME CheckPlanInv, CancelRun
  PROVE  CheckPlanInv'
<1>1. /\ verdict = "none" /\ UNCHANGED <<event, changes, plan, ran, failed, verdict>>
      /\ results' = [j \in DOMAIN results |->
                       IF results[j] = "pending" THEN "cancelled" ELSE results[j]]
  BY DEF CancelRun
<1>2. /\ results \in [Consumers \cup {"select"} -> Results]
      /\ event \in Events /\ Paths(changes) \subseteq Changeable
      /\ results["select"] \in {"pending", "success", "cancelled"}
      /\ plan = IF results["select"] = "success" THEN CreateCheckPlan(changes) ELSE <<>>
  BY DEF CheckPlanInv, PlanInv
<1>3. /\ results' \in [Consumers \cup {"select"} -> Results]
      /\ \A j \in Consumers \cup {"select"} :
           results'[j] = IF results[j] = "pending" THEN "cancelled" ELSE results[j]
  BY <1>1, <1>2 DEF Results
<1>4. CreateCheckPlan(changes)' = CreateCheckPlan(changes)
      /\ \A j : JobSuites(plan, changes, j)' = JobSuites(plan, changes, j)
  BY <1>1, PlanStays
<1>5. PlanInv'
  BY <1>1, <1>2, <1>3, <1>4 DEF PlanInv, Paths
<1>6. "node" \in Consumers
  BY ConsumerScopes
<1>7. ResultsInv
  BY DEF CheckPlanInv
<1>8. ResultsInv'
  BY <1>1, <1>3, <1>4, <1>6, <1>7 DEF ResultsInv
<1>9. VerdictInv'
  BY <1>1 DEF VerdictInv
<1> QED BY <1>5, <1>8, <1>9 DEF CheckPlanInv

LEMMA EvaluateKeeps ==
  ASSUME CheckPlanInv, Evaluate
  PROVE  CheckPlanInv'
<1>1. /\ verdict' = IF AllSucceeded THEN "green" ELSE "red"
      /\ \A j \in DOMAIN results : results[j] # "pending"
      /\ UNCHANGED <<event, changes, plan, results, ran, failed>>
  BY DEF Evaluate, AllSucceeded
<1>2. CreateCheckPlan(changes)' = CreateCheckPlan(changes)
      /\ \A j : JobSuites(plan, changes, j)' = JobSuites(plan, changes, j)
  BY <1>1, PlanStays
<1>3. PlanInv'
  BY <1>1, <1>2 DEF CheckPlanInv, PlanInv, Paths
<1>4. ResultsInv'
  BY <1>1, <1>2 DEF CheckPlanInv, ResultsInv
<1>5. DOMAIN results = Consumers \cup {"select"}
  BY DEF CheckPlanInv, PlanInv
<1>6. AllSucceeded' <=> AllSucceeded
  BY <1>1 DEF AllSucceeded
<1>7. VerdictInv'
  BY <1>1, <1>5, <1>6 DEF VerdictInv
<1> QED BY <1>3, <1>4, <1>7 DEF CheckPlanInv

LEMMA ChecksKeep ==
  ASSUME CheckPlanInv, [CheckPlanNext]_planVars
  PROVE  CheckPlanInv'
<1>1. CASE UNCHANGED planVars
  <2>1. CreateCheckPlan(changes)' = CreateCheckPlan(changes)
        /\ \A j : JobSuites(plan, changes, j)' = JobSuites(plan, changes, j)
    BY <1>1, PlanStays DEF planVars
  <2>2. PlanInv'
    BY <1>1, <2>1 DEF CheckPlanInv, PlanInv, planVars, Paths
  <2>3. ResultsInv'
    BY <1>1, <2>1 DEF CheckPlanInv, ResultsInv, planVars
  <2>4. VerdictInv'
    BY <1>1 DEF CheckPlanInv, VerdictInv, AllSucceeded, planVars
  <2> QED BY <2>2, <2>3, <2>4 DEF CheckPlanInv
<1>2. CASE SelectChecks
  BY <1>2, SelectChecksKeeps
<1>3. ASSUME NEW c \in Consumers, SkipConsumer(c) PROVE CheckPlanInv'
  BY <1>3, SkipConsumerKeeps
<1>4. ASSUME NEW c \in Consumers, RunConsumer(c) PROVE CheckPlanInv'
  BY <1>4, RunConsumerKeeps
<1>5. CASE CancelRun
  BY <1>5, CancelRunKeeps
<1>6. CASE Evaluate
  BY <1>6, EvaluateKeeps
<1> QED BY <1>1, <1>2, <1>3, <1>4, <1>5, <1>6 DEF CheckPlanNext

LEMMA ChecksAreSafe ==
  ASSUME CheckPlanInv
  PROVE  GreenIsEarned /\ RedHasAReason /\ SelectionMonotone
<1>1. ASSUME results["select"] = "success"
      PROVE  /\ plan = CreateCheckPlan(changes) /\ plan.scopes = Scopes(changes)
             /\ plan.required = RequiredJobs(Scopes(changes))
  BY <1>1 DEF CheckPlanInv, PlanInv, CreateCheckPlan
<1>2. GreenIsEarned
  <2> SUFFICES ASSUME verdict = "green"
               PROVE  /\ \A c \in plan.required : results[c] = "success"
                      /\ \A c \in changes : c.status # "D" /\ c.path \in AllSuites
                                              => c.path \in ran
    BY DEF GreenIsEarned
  <2>1. AllSucceeded
    BY DEF CheckPlanInv, VerdictInv
  <2>2. /\ plan = CreateCheckPlan(changes) /\ plan.scopes = Scopes(changes)
        /\ plan.required = RequiredJobs(Scopes(changes))
    BY <1>1, <2>1 DEF AllSucceeded
  <2>3. \A c \in plan.required : c \in Consumers /\ results[c] = "success"
    BY <2>1, <2>2 DEF AllSucceeded, RequiredJobs
  <2>4. ASSUME NEW c \in changes, c.status # "D", c.path \in AllSuites
        PROVE  c.path \in ran
    <3>1. c.path # "assets.test.js"
      BY CheckPlanAssumption DEF CheckPlanAssumption, CheckPlanInv, PlanInv, Paths
    <3>2. c.path \in Suites(plan, changes)
      BY <2>2, <2>4, <3>1, ChangedSuitesRun
    <3>3. PICK d \in plan.required :
            \E j \in StartedJobs(d, plan.scopes) : c.path \in JobSuites(plan, changes, j)
      BY <3>2 DEF Suites
    <3>4. PICK j \in StartedJobs(d, plan.scopes) : c.path \in JobSuites(plan, changes, j)
      BY <3>3
    <3>5. j \in ConsumerJobs(d, plan.scopes)
      BY <2>2, PlansAreSound
    <3> QED BY <2>3, <3>4, <3>5 DEF CheckPlanInv, ResultsInv
  <2> QED BY <2>3, <2>4
<1>3. RedHasAReason
  <2> SUFFICES ASSUME verdict = "red", failed = {},
                      \A c \in Consumers : results[c] # "cancelled"
               PROVE  FALSE
    BY DEF RedHasAReason
  <2>1. ~AllSucceeded /\ \A j \in Consumers \cup {"select"} : results[j] # "pending"
    BY DEF CheckPlanInv, VerdictInv
  <2>2. results["select"] = "success"
    BY <2>1, ConsumerScopes DEF CheckPlanInv, PlanInv, ResultsInv
  <2>3. PICK c \in Consumers :
          results[c] # "success" /\ ~(results[c] = "skipped" /\ c \notin plan.required)
    BY <2>1, <2>2 DEF AllSucceeded
  <2>4. results[c] = "skipped" /\ c \in plan.required
    BY <2>1, <2>3 DEF CheckPlanInv, PlanInv, ResultsInv, Results
  <2>5. /\ results["node"] \in {"failure", "skipped", "cancelled"}
        /\ results["node"] = "skipped" => c = "website"
    BY <2>4 DEF CheckPlanInv, ResultsInv
  <2>6. "node" \in Consumers
    BY ConsumerScopes
  <2>7. results["node"] = "skipped" /\ c = "website"
    BY <2>5, <2>6 DEF CheckPlanInv, ResultsInv
  <2>8. "node" \in plan.required
    BY <1>1, <2>2, <2>4, <2>7, PlansAreSound
  <2>9. "node" \in {"website", "distribution"}
    BY <2>6, <2>7, <2>8 DEF CheckPlanInv, ResultsInv
  <2> QED BY <2>9
<1>4. SelectionMonotone
  <2> SUFFICES ASSUME plan # <<>>, NEW c \in changes
               PROVE  /\ CreateCheckPlan(changes \ {c}).required \subseteq plan.required
                      /\ Suites(CreateCheckPlan(changes \ {c}), changes \ {c})
                           \subseteq Suites(plan, changes)
    BY DEF SelectionMonotone
  <2>1. results["select"] = "success"
    BY DEF CheckPlanInv, PlanInv
  <2>2. "assets.test.js" \notin Paths(changes)
    BY CheckPlanAssumption DEF CheckPlanAssumption, CheckPlanInv, PlanInv
  <2>3. CreateCheckPlan(changes \ {c}).required = RequiredJobs(Scopes(changes \ {c}))
    BY DEF CreateCheckPlan
  <2> QED BY <1>1, <2>1, <2>2, <2>3, MorePathsRunMore
<1> QED BY <1>2, <1>3, <1>4

\* A green gate has passed every suite that the revision changes, a red one has a reason, and
\* a further path takes nothing away: for any classes of paths, events and numbers of paths.
THEOREM ChecksAreEarned == CheckPlanSpec => [](GreenIsEarned /\ RedHasAReason
                                              /\ SelectionMonotone)
<1>1. CheckPlanInit => CheckPlanInv
  BY ChecksBegin
<1>2. CheckPlanInv /\ [CheckPlanNext]_planVars => CheckPlanInv'
  BY ChecksKeep
<1>3. CheckPlanInv => GreenIsEarned /\ RedHasAReason /\ SelectionMonotone
  BY ChecksAreSafe
<1> QED BY <1>1, <1>2, <1>3, PTL DEF CheckPlanSpec

-----------------------------------------------------------------------------
(* The reuse of a qualification on main                                    *)

\* What a run of the pull request may be.
NodeJobs == [attempt : Nat, result : {"pending", "success", "failure"},
             image : Images \cup {NoImage}]
OtherJobs == [attempt : Nat, result : {"pending", "success", "failure"}]
PullRuns == [base : Nat, attempt : Nat, status : {"running", "cancelled", "success", "failure"},
             node : NodeJobs, others : OtherJobs]

\* Suites that a run has seen pass, and records, are of trees and images on which the
\* suites have passed.
ProvenInv ==
  /\ runs \in Seq(PullRuns)
  /\ \A r \in DOMAIN runs : runs[r].node.result = "success" =>
                              <<runs[r].base, runs[r].node.image>> \in executed
  /\ \A a \in artifacts : <<a.tree, a.image>> \in executed

Mains == [attempt : Nat, reuse : {"none", "yes", "no"},
          node : {"pending", "skipped", "success", "failure"},
          others : {"pending", "success", "failure"}, verdict : {"none", "green", "red"}]

\* The run on main decides once, on a merge that has landed.
MainInv ==
  /\ reading \in 0 .. Admitted
  /\ main \in Mains
  /\ main.attempt = 0 => main = Idle /\ reading = 0
  /\ main.attempt # 0 => landed # <<>>
  /\ reading \in 1 .. 9 => main.reuse = "none"
  /\ main.reuse = "yes" <=> reading = Admitted
  /\ main.node = "skipped" => main.reuse = "yes"

\* The run that has been chosen stays as it was found, or is run again under a number that
\* it has not had; once its jobs have been compared they are those of the record.
ChosenInv ==
  /\ reading \in 1 .. Admitted =>
       DOMAIN selection = {"run", "attempt", "image", "record"}
  /\ reading \in 2 .. Admitted =>
       /\ selection.run \in DOMAIN runs /\ selection.attempt \in Nat
       /\ \/ runs[selection.run].attempt > selection.attempt
          \/ /\ runs[selection.run].attempt = selection.attempt
             /\ runs[selection.run].status = "success"
             /\ reading \in 7 .. Admitted =>
                  runs[selection.run].node.attempt = selection.record.nodeAttempt
  /\ reading \in 4 .. Admitted =>
       /\ selection.record \in artifacts /\ selection.record.run = selection.run
       /\ selection.record.attempt = selection.attempt
  /\ reading \in 6 .. Admitted => Establishes(selection.record, selection.image)
  /\ reading = Admitted =>
       selection.run = Len(runs) /\ runs[selection.run].attempt = selection.attempt

ReuseInv == ProvenInv /\ MainInv /\ ChosenInv

-----------------------------------------------------------------------------
LEMMA ReuseBegins == ASSUME ReuseInit PROVE ReuseInv
<1>1. /\ runs = <<>> /\ artifacts = {} /\ DOMAIN runs = {} /\ reading = 0 /\ main = Idle
  BY DEF ReuseInit
<1>2. ProvenInv
  BY <1>1 DEF ProvenInv
<1>3. MainInv
  BY <1>1 DEF MainInv, Mains, Idle, Admitted
<1>4. ChosenInv
  BY <1>1 DEF ChosenInv, Admitted
<1> QED BY <1>2, <1>3, <1>4 DEF ReuseInv

\* What is known of a run.
LEMMA PullFacts ==
  ASSUME ProvenInv, NEW r \in DOMAIN runs
  PROVE  /\ r \in 1 .. Len(runs) /\ runs[r] \in PullRuns /\ Len(runs) \in Nat
         /\ runs[r].attempt \in Nat /\ runs[r].node \in NodeJobs /\ runs[r].others \in OtherJobs
         /\ runs[r].node.attempt \in Nat /\ runs[r].others.attempt \in Nat
<1>1. runs \in Seq(PullRuns) /\ r \in 1 .. Len(runs) /\ Len(runs) \in Nat
  BY DEF ProvenInv
<1>2. runs[r] \in PullRuns
  BY <1>1
<1> QED BY <1>1, <1>2 DEF PullRuns, NodeJobs, OtherJobs

\* As long as main has not decided, runs of the pull request may be added, and change
\* unless they have succeeded and keep their number.
LEMMA PullsMayChange ==
  ASSUME ReuseInv, Watched, UNCHANGED mainVars, DOMAIN runs \subseteq DOMAIN runs',
         artifacts \subseteq artifacts',
         \A r \in DOMAIN runs :
           \/ runs'[r].attempt > runs[r].attempt /\ runs'[r].attempt \in Nat
           \/ /\ runs'[r].attempt = runs[r].attempt
              /\ runs[r].status = "success" =>
                   runs'[r].status = "success" /\ runs'[r].node.attempt = runs[r].node.attempt
  PROVE  MainInv' /\ ChosenInv'
<1>1. UNCHANGED <<landed, reading, selection, main>> /\ MainInv /\ ChosenInv /\ ProvenInv
  BY DEF mainVars, ReuseInv
<1>2. MainInv' /\ reading # Admitted /\ reading \in 0 .. Admitted /\ Admitted = 10
  BY <1>1 DEF MainInv, Watched, Admitted
<1>3. ASSUME reading \in 2 .. Admitted
      PROVE  /\ selection.run \in DOMAIN runs' /\ selection.attempt \in Nat
             /\ \/ runs'[selection.run].attempt > selection.attempt
                \/ /\ runs'[selection.run].attempt = selection.attempt
                   /\ runs'[selection.run].status = "success"
                   /\ reading \in 7 .. Admitted =>
                        runs'[selection.run].node.attempt = selection.record.nodeAttempt
  <2> DEFINE r == selection.run
  <2>1. /\ r \in DOMAIN runs /\ selection.attempt \in Nat
        /\ \/ runs[r].attempt > selection.attempt
           \/ /\ runs[r].attempt = selection.attempt /\ runs[r].status = "success"
              /\ reading \in 7 .. Admitted =>
                   runs[r].node.attempt = selection.record.nodeAttempt
    BY <1>1, <1>3 DEF ChosenInv
  <2>2. runs[r].attempt \in Nat
    BY <1>1, <2>1, PullFacts
  <2>3. CASE runs'[r].attempt > runs[r].attempt /\ runs'[r].attempt \in Nat
    BY <2>1, <2>2, <2>3
  <2>4. CASE /\ runs'[r].attempt = runs[r].attempt
             /\ runs[r].status = "success" =>
                  runs'[r].status = "success" /\ runs'[r].node.attempt = runs[r].node.attempt
    BY <2>1, <2>2, <2>4
  <2> QED BY <2>1, <2>3, <2>4
<1>4. ChosenInv'
  BY <1>1, <1>2, <1>3 DEF ChosenInv, Establishes
<1> QED BY <1>2, <1>4

\* A run changes to one that has passed only on a tree and an image where the suites have.
LEMMA PullChanges ==
  ASSUME ReuseInv, Watched, UNCHANGED mainVars, NEW r \in DOMAIN runs, NEW new \in PullRuns,
         runs' = [runs EXCEPT ![r] = new], new.base = runs[r].base,
         executed \subseteq executed', artifacts \subseteq artifacts',
         new.node.result = "success" => <<new.base, new.node.image>> \in executed',
         \A a \in artifacts' : <<a.tree, a.image>> \in executed',
         \/ new.attempt > runs[r].attempt
         \/ new.attempt = runs[r].attempt /\ runs[r].status # "success"
  PROVE  ReuseInv'
<1>1. ProvenInv
  BY DEF ReuseInv
<1>2. /\ runs \in Seq(PullRuns) /\ r \in 1 .. Len(runs) /\ DOMAIN runs = 1 .. Len(runs)
      /\ new.attempt \in Nat
  BY <1>1 DEF ProvenInv, PullRuns
<1>3. /\ runs' \in Seq(PullRuns) /\ DOMAIN runs' = DOMAIN runs /\ runs'[r] = new
      /\ \A s \in DOMAIN runs : s # r => runs'[s] = runs[s]
  BY <1>2
<1>4. ProvenInv'
  BY <1>1, <1>3 DEF ProvenInv
<1>5. MainInv' /\ ChosenInv'
  BY <1>2, <1>3, PullsMayChange
<1> QED BY <1>4, <1>5 DEF ReuseInv

LEMMA StartRunKeeps == ASSUME ReuseInv, StartRun PROVE ReuseInv'
<1>1. PICK base \in Bases \ {MaxBase} :
        runs' = Append([r \in DOMAIN runs |->
                          IF runs[r].status = "running"
                          THEN [runs[r] EXCEPT !.status = "cancelled"] ELSE runs[r]],
                       [base |-> base, attempt |-> 1, status |-> "running",
                        node |-> Node(1, "pending", NoImage), others |-> Job(1, "pending")])
  BY DEF StartRun
<1> DEFINE Before(r) == IF runs[r].status = "running"
                        THEN [runs[r] EXCEPT !.status = "cancelled"] ELSE runs[r]
           before == [r \in DOMAIN runs |-> Before(r)]
           new == [base |-> base, attempt |-> 1, status |-> "running",
                   node |-> Node(1, "pending", NoImage), others |-> Job(1, "pending")]
<1>2. /\ ProvenInv /\ Watched /\ UNCHANGED <<artifacts, executed, mainVars>>
      /\ runs' = Append(before, new)
  BY <1>1 DEF ReuseInv, StartRun
<1>3. new \in PullRuns /\ new.node.result = "pending"
  <2>1. base \in Nat
    BY ReuseAssumption DEF Bases
  <2>2. /\ Node(1, "pending", NoImage) \in NodeJobs /\ Job(1, "pending") \in OtherJobs
        /\ Node(1, "pending", NoImage).result = "pending"
    BY DEF Node, Job, NodeJobs, OtherJobs
  <2> QED BY <2>1, <2>2 DEF PullRuns
<1>4. \A r \in DOMAIN runs :
        /\ Before(r) \in PullRuns /\ Before(r).node = runs[r].node
        /\ Before(r).base = runs[r].base /\ Before(r).attempt = runs[r].attempt
        /\ runs[r].status = "success" => Before(r).status = "success"
  <2>1. \A r \in DOMAIN runs : runs[r] \in PullRuns
    BY <1>2, PullFacts
  <2> QED BY <2>1 DEF PullRuns
<1> HIDE DEF Before, new
<1>5. /\ before \in Seq(PullRuns) /\ Len(before) = Len(runs) /\ Len(runs) \in Nat
      /\ DOMAIN runs = 1 .. Len(runs)
      /\ \A r \in DOMAIN runs : before[r] = Before(r)
  <2>1. runs \in Seq(PullRuns) /\ DOMAIN runs = 1 .. Len(runs) /\ Len(runs) \in Nat
    BY <1>2 DEF ProvenInv
  <2>2. before \in [1 .. Len(runs) -> PullRuns]
    BY <1>4, <2>1
  <2> QED BY <2>1, <2>2
<1> HIDE DEF before
<1>6. /\ runs' \in Seq(PullRuns) /\ DOMAIN runs' = 1 .. Len(runs) + 1
      /\ runs'[Len(runs) + 1] = new /\ \A r \in DOMAIN runs : runs'[r] = Before(r)
  BY <1>2, <1>3, <1>5
<1>7. \A r \in DOMAIN runs' : r = Len(runs) + 1 \/ r \in DOMAIN runs
  BY <1>5, <1>6
<1>8. ProvenInv'
  <2>1. ASSUME NEW r \in DOMAIN runs', runs'[r].node.result = "success"
        PROVE  <<runs'[r].base, runs'[r].node.image>> \in executed
    <3>1. r \in DOMAIN runs
      BY <1>3, <1>6, <1>7, <2>1
    <3> QED BY <1>2, <1>4, <1>6, <2>1, <3>1 DEF ProvenInv
  <2> QED BY <1>2, <1>6, <2>1 DEF ProvenInv
<1>9. MainInv' /\ ChosenInv'
  <2>1. DOMAIN runs \subseteq DOMAIN runs'
    BY <1>5, <1>6
  <2>2. ASSUME NEW r \in DOMAIN runs
        PROVE  /\ runs'[r].attempt = runs[r].attempt
               /\ runs[r].status = "success" =>
                    /\ runs'[r].status = "success"
                    /\ runs'[r].node.attempt = runs[r].node.attempt
    BY <1>4, <1>6
  <2> QED BY <1>2, <2>1, <2>2, PullsMayChange
<1> QED BY <1>8, <1>9 DEF ReuseInv

LEMMA NodeEndsKeeps ==
  ASSUME ReuseInv, NEW r \in DOMAIN runs, NodeEnds(r) PROVE ReuseInv'
<1>1. /\ ProvenInv /\ Watched /\ UNCHANGED <<artifacts, mainVars>>
      /\ runs[r].status = "running" /\ runs[r] \in PullRuns /\ runs[r].attempt \in Nat
      /\ DOMAIN runs = 1 .. Len(runs)
  BY PullFacts DEF ReuseInv, NodeEnds, ProvenInv
<1>2. ASSUME NEW result \in {"success", "failure"}, NEW image \in Images \cup {NoImage},
             runs' = [runs EXCEPT ![r].node = Node(runs[r].attempt, result, image)],
             executed \subseteq executed',
             result = "success" => <<runs[r].base, image>> \in executed'
      PROVE  ReuseInv'
  <2> DEFINE node == Node(runs[r].attempt, result, image)
             new == [runs[r] EXCEPT !.node = node]
  <2>1. node \in NodeJobs /\ node.result = result /\ node.image = image
    BY <1>1 DEF Node, NodeJobs
  <2> HIDE DEF node
  <2>2. /\ new \in PullRuns /\ new.base = runs[r].base /\ new.attempt = runs[r].attempt
        /\ new.node = node
    BY <1>1, <2>1 DEF PullRuns
  <2>3. runs' = [runs EXCEPT ![r] = new]
    BY <1>2 DEF node
  <2> HIDE DEF new
  <2>4. \A a \in artifacts' : <<a.tree, a.image>> \in executed'
    BY <1>1, <1>2 DEF ProvenInv
  <2> QED BY <1>1, <1>2, <2>1, <2>2, <2>3, <2>4, PullChanges
<1>3. CASE /\ runs' = [runs EXCEPT ![r].node = Node(runs[r].attempt, "failure", NoImage)]
           /\ UNCHANGED executed
  BY <1>2, <1>3
<1>4. ASSUME NEW image \in Images,
             runs' = [runs EXCEPT ![r].node = Node(runs[r].attempt, "success", image)],
             executed' = executed \cup {<<runs[r].base, image>>}
      PROVE  ReuseInv'
  BY <1>2, <1>4
<1> QED BY <1>3, <1>4 DEF NodeEnds

LEMMA GateEndsKeeps ==
  ASSUME ReuseInv, NEW r \in DOMAIN runs, GateEnds(r) PROVE ReuseInv'
<1>1. /\ ProvenInv /\ Watched /\ UNCHANGED <<executed, mainVars>>
      /\ runs[r].status = "running" /\ runs[r] \in PullRuns /\ runs[r].attempt \in Nat
      /\ runs[r].others \in OtherJobs
  BY PullFacts DEF ReuseInv, GateEnds
<1>2. PICK others \in IF runs[r].others.result = "pending"
                      THEN {Job(runs[r].attempt, "success"), Job(runs[r].attempt, "failure")}
                      ELSE {runs[r].others} :
        LET ended == [runs EXCEPT ![r].others = others]
        IN IF {runs[r].node.result, others.result} = {"success"}
           THEN /\ runs' = [ended EXCEPT ![r].status = "success"]
                /\ \E image \in Images :
                     artifacts' = artifacts \cup
                       IF Recordable(r, image) THEN {RecordOf(r, others, image)} ELSE {}
           ELSE /\ runs' = [ended EXCEPT ![r].status = "failure"] /\ UNCHANGED artifacts
  BY DEF GateEnds
<1>3. others \in OtherJobs
  <2>1. /\ Job(runs[r].attempt, "success") \in OtherJobs
        /\ Job(runs[r].attempt, "failure") \in OtherJobs
    BY <1>1 DEF Job, OtherJobs
  <2> QED BY <1>1, <2>1
<1>4. ASSUME NEW status \in {"success", "failure"},
             runs' = [[runs EXCEPT ![r].others = others] EXCEPT ![r].status = status],
             artifacts \subseteq artifacts',
             \A a \in artifacts' : <<a.tree, a.image>> \in executed
      PROVE  ReuseInv'
  <2> DEFINE new == [[runs[r] EXCEPT !.others = others] EXCEPT !.status = status]
  <2>1. /\ new \in PullRuns /\ new.base = runs[r].base /\ new.attempt = runs[r].attempt
        /\ new.node = runs[r].node
    BY <1>1, <1>3 DEF PullRuns
  <2>2. runs' = [runs EXCEPT ![r] = new]
    BY <1>4
  <2> HIDE DEF new
  <2>3. new.node.result = "success" => <<new.base, new.node.image>> \in executed
    BY <1>1, <2>1 DEF ProvenInv
  <2> QED BY <1>1, <1>4, <2>1, <2>2, <2>3, PullChanges
<1>5. CASE {runs[r].node.result, others.result} = {"success"}
  <2>1. PICK image \in Images :
          artifacts' = artifacts \cup
            IF Recordable(r, image) THEN {RecordOf(r, others, image)} ELSE {}
    BY <1>2, <1>5
  <2>2. Recordable(r, image) => <<runs[r].base, image>> \in executed
    BY <1>1, <1>5 DEF Recordable, ProvenInv
  <2>3. RecordOf(r, others, image).tree = runs[r].base /\ RecordOf(r, others, image).image = image
    BY DEF RecordOf
  <2>4. \A a \in artifacts' : <<a.tree, a.image>> \in executed
    BY <1>1, <2>1, <2>2, <2>3 DEF ProvenInv
  <2> QED BY <1>2, <1>4, <1>5, <2>1, <2>4
<1>6. CASE {runs[r].node.result, others.result} # {"success"}
  <2>1. \A a \in artifacts' : <<a.tree, a.image>> \in executed
    BY <1>1, <1>2, <1>6 DEF ProvenInv
  <2> QED BY <1>2, <1>4, <1>6, <2>1
<1> QED BY <1>5, <1>6

LEMMA RerunKeeps ==
  ASSUME ReuseInv, NEW r \in DOMAIN runs, Rerun(r) PROVE ReuseInv'
<1>1. /\ ProvenInv /\ Watched /\ UNCHANGED <<artifacts, executed, mainVars>>
      /\ runs[r] \in PullRuns /\ runs[r].attempt \in Nat
      /\ runs[r].node \in NodeJobs /\ runs[r].others \in OtherJobs
  BY PullFacts DEF ReuseInv, Rerun
<1> DEFINE attempt == runs[r].attempt + 1
<1>2. PICK node, others \in BOOLEAN :
        runs' = [runs EXCEPT
          ![r].attempt = attempt, ![r].status = "running",
          ![r].node = IF node \/ @.result = "pending" THEN Node(attempt, "pending", NoImage) ELSE @,
          ![r].others = IF others \/ @.result = "pending" THEN Job(attempt, "pending") ELSE @]
  BY DEF Rerun
<1> DEFINE newNode == IF node \/ runs[r].node.result = "pending"
                      THEN Node(attempt, "pending", NoImage) ELSE runs[r].node
           newOthers == IF others \/ runs[r].others.result = "pending"
                        THEN Job(attempt, "pending") ELSE runs[r].others
           new == [runs[r] EXCEPT !.attempt = attempt, !.status = "running",
                                  !.node = newNode, !.others = newOthers]
<1>3. /\ newNode \in NodeJobs /\ newOthers \in OtherJobs
      /\ attempt \in Nat /\ attempt > runs[r].attempt
      /\ newNode.result = "success" => newNode = runs[r].node
  <2>1. /\ attempt \in Nat /\ Node(attempt, "pending", NoImage) \in NodeJobs
        /\ Node(attempt, "pending", NoImage).result = "pending"
        /\ Job(attempt, "pending") \in OtherJobs
    BY <1>1 DEF Node, Job, NodeJobs, OtherJobs
  <2> QED BY <1>1, <2>1
<1>4. runs' = [runs EXCEPT ![r] = new]
  BY <1>1, <1>2 DEF PullRuns
<1> HIDE DEF newNode, newOthers, attempt
<1>5. /\ new \in PullRuns /\ new.base = runs[r].base /\ new.attempt = attempt
      /\ new.node = newNode
  BY <1>1, <1>3 DEF PullRuns
<1> HIDE DEF new
<1>6. new.node.result = "success" => <<new.base, new.node.image>> \in executed
  BY <1>1, <1>3, <1>5 DEF ProvenInv
<1>7. \A a \in artifacts' : <<a.tree, a.image>> \in executed
  BY <1>1 DEF ProvenInv
<1> QED BY <1>1, <1>3, <1>4, <1>5, <1>6, <1>7, PullChanges

-----------------------------------------------------------------------------
\* What a step of main keeps of the pull request.
LEMMA MergeKeeps == ASSUME ReuseInv, Merge PROVE ReuseInv'
<1>1. /\ landed = <<>> /\ UNCHANGED <<reading, selection, main, runs, artifacts, executed>>
      /\ \E base, tree : landed' = [base |-> base, tree |-> tree]
      /\ ProvenInv /\ MainInv /\ ChosenInv
  BY DEF Merge, pullVars, ReuseInv
<1>2. main.attempt = 0 /\ reading = 0
  BY <1>1 DEF MainInv
<1>3. ProvenInv' /\ MainInv'
  BY <1>1, <1>2 DEF ProvenInv, MainInv, Admitted
<1>4. ChosenInv'
  BY <1>1, <1>2 DEF ChosenInv, Admitted
<1> QED BY <1>3, <1>4 DEF ReuseInv

LEMMA StartMainKeeps == ASSUME ReuseInv, StartMain PROVE ReuseInv'
<1>1. PICK disabled \in BOOLEAN :
        /\ main' = [Idle EXCEPT !.attempt = 1, !.reuse = IF disabled THEN "no" ELSE "none"]
        /\ reading' = IF disabled THEN 0 ELSE 1
  BY DEF StartMain
<1>2. /\ UNCHANGED <<landed, runs, artifacts, executed>> /\ landed # <<>>
      /\ selection' = [run |-> 0, attempt |-> 0, image |-> NoImage, record |-> <<>>]
      /\ ProvenInv
  BY DEF StartMain, pullVars, ReuseInv
<1>3. ProvenInv'
  BY <1>2 DEF ProvenInv
<1>4. MainInv'
  <2>1. Idle \in Mains /\ Idle.node = "pending"
    BY DEF Idle, Mains
  <2>2. /\ main' \in Mains /\ main'.attempt = 1 /\ main'.node = "pending"
        /\ main'.reuse = IF disabled THEN "no" ELSE "none"
    BY <1>1, <2>1 DEF Mains
  <2> QED BY <1>1, <1>2, <2>2 DEF MainInv, Admitted
<1>5. ChosenInv'
  BY <1>1, <1>2 DEF ChosenInv, Admitted
<1> QED BY <1>3, <1>4, <1>5 DEF ReuseInv

\* The selector gives up, or the run on main goes on after it has decided.
LEMMA MainGoesOn ==
  ASSUME ReuseInv, GiveUp \/ MainNodeEnds \/ MainOthersEnd \/ MainGateEnds \/ RetryMain
  PROVE  ReuseInv'
<1>1. /\ UNCHANGED <<landed, selection, runs, artifacts, executed>>
      /\ ProvenInv /\ MainInv /\ ChosenInv
  BY DEF GiveUp, MainNodeEnds, MainOthersEnd, MainGateEnds, RetryMain, pullVars, ReuseInv
<1>2. ProvenInv'
  BY <1>1 DEF ProvenInv
<1>3. CASE GiveUp
  <2>1. MainInv'
    BY <1>1, <1>3 DEF GiveUp, MainInv, Mains, Idle, Admitted
  <2>2. ChosenInv'
    BY <1>1, <1>3 DEF GiveUp, ChosenInv, Admitted
  <2> QED BY <1>2, <2>1, <2>2 DEF ReuseInv
<1>4. CASE MainNodeEnds \/ MainOthersEnd \/ MainGateEnds \/ RetryMain
  <2>1. reading' = reading
    BY <1>4 DEF MainNodeEnds, MainOthersEnd, MainGateEnds, RetryMain
  <2>2. ChosenInv'
    BY <1>1, <2>1 DEF ChosenInv, Establishes
  <2>3. MainInv'
    <3>1. CASE MainNodeEnds
      BY <1>1, <2>1, <3>1 DEF MainNodeEnds, MainInv, Mains, Idle
    <3>2. CASE MainOthersEnd
      BY <1>1, <2>1, <3>2 DEF MainOthersEnd, MainInv, Mains, Idle
    <3>3. CASE MainGateEnds
      BY <1>1, <2>1, <3>3 DEF MainGateEnds, MainInv, Mains, Idle
    <3>4. CASE RetryMain
      <4> DEFINE again(result) == IF result = "failure" THEN "pending" ELSE result
                 attempt == main.attempt + 1
                 node == again(main.node)
                 others == again(main.others)
      <4>1. main' = [main EXCEPT !.attempt = attempt, !.verdict = "none",
                                 !.node = node, !.others = others]
        BY <3>4 DEF RetryMain
      <4>2. /\ main \in Mains /\ attempt \in Nat /\ attempt # 0
            /\ node \in {"pending", "skipped", "success", "failure"}
            /\ others \in {"pending", "success", "failure"}
            /\ node = "skipped" => main.node = "skipped"
        BY <1>1 DEF MainInv, Mains
      <4> HIDE DEF attempt, node, others
      <4>3. /\ main' \in Mains /\ main'.reuse = main.reuse /\ main'.node = node
            /\ main'.attempt = attempt
        BY <4>1, <4>2 DEF Mains
      <4>4. landed # <<>>
        BY <1>1, <3>4 DEF RetryMain, MainInv, Idle
      <4> QED BY <1>1, <2>1, <4>2, <4>3, <4>4 DEF MainInv
    <3> QED BY <1>4, <3>1, <3>2, <3>3, <3>4
  <2> QED BY <1>2, <2>2, <2>3 DEF ReuseInv
<1> QED BY <1>3, <1>4

\* The reads of the selector.
LEMMA ReadNextKeeps == ASSUME ReuseInv, ReadNext PROVE ReuseInv'
<1>1. /\ UNCHANGED <<landed, runs, artifacts, executed>>
      /\ reading \in 1 .. 9 /\ Fact(reading) /\ reading' = reading + 1
      /\ main' = IF reading' = Admitted THEN [main EXCEPT !.reuse = "yes"] ELSE main
      /\ ProvenInv /\ MainInv /\ ChosenInv
  BY DEF ReadNext, pullVars, ReuseInv
<1>2. ProvenInv'
  BY <1>1 DEF ProvenInv
<1>3. main \in Mains /\ main.attempt # 0 /\ landed # <<>> /\ main.node # "skipped"
      /\ main.reuse = "none"
  <2>1. main.attempt # 0 /\ main.reuse = "none"
    BY <1>1 DEF MainInv
  <2> QED BY <1>1, <2>1 DEF MainInv
<1>4. MainInv'
  <2>1. CASE reading = 9
    <3>1. reading' = Admitted /\ main' = [main EXCEPT !.reuse = "yes"]
      BY <1>1, <2>1 DEF Admitted
    <3> QED BY <1>1, <1>3, <3>1 DEF MainInv, Mains, Admitted
  <2>2. CASE reading # 9
    <3>1. reading' \in 1 .. 9 /\ reading' # Admitted /\ main' = main
      BY <1>1, <2>2 DEF Admitted
    <3> QED BY <1>1, <1>3, <3>1 DEF MainInv, Admitted
  <2> QED BY <2>1, <2>2
<1>5. ChosenInv'
  <2>1. CASE reading = 1
    <3>1. /\ Len(runs) > 0 /\ runs[Len(runs)].status = "success"
          /\ selection' = [selection EXCEPT !.run = Len(runs),
                                            !.attempt = runs[Len(runs)].attempt]
          /\ reading' = 2
      BY <1>1, <2>1 DEF ReadNext, Fact, SourceRun
    <3>2. Len(runs) \in DOMAIN runs /\ runs[Len(runs)].attempt \in Nat
      <4>1. runs \in Seq(PullRuns)
        BY <1>1 DEF ProvenInv
      <4>2. Len(runs) \in DOMAIN runs
        BY <3>1, <4>1
      <4> QED BY <1>1, <4>2, PullFacts
    <3>3. DOMAIN selection = {"run", "attempt", "image", "record"}
      BY <1>1, <2>1 DEF ChosenInv, Admitted
    <3>4. /\ selection'.run = Len(runs) /\ selection'.attempt = runs[Len(runs)].attempt
          /\ DOMAIN selection' = {"run", "attempt", "image", "record"}
      BY <3>1, <3>3
    <3> QED BY <1>1, <3>1, <3>2, <3>4 DEF ChosenInv, Admitted
  <2>2. CASE reading = 3
    <3>1. PICK a \in RecordsOf(selection.run, selection.attempt) :
            selection' = [selection EXCEPT !.record = a]
      BY <1>1, <2>2 DEF ReadNext
    <3>2. a \in artifacts /\ a.run = selection.run /\ a.attempt = selection.attempt
      BY DEF RecordsOf
    <3>3. DOMAIN selection = {"run", "attempt", "image", "record"}
      BY <1>1, <2>2 DEF ChosenInv, Admitted
    <3>4. /\ selection'.run = selection.run /\ selection'.attempt = selection.attempt
          /\ selection'.record = a
          /\ DOMAIN selection' = {"run", "attempt", "image", "record"}
      BY <3>1, <3>3
    <3> QED BY <1>1, <2>2, <3>2, <3>4 DEF ChosenInv, Admitted
  <2>3. CASE reading = 5
    <3>1. PICK image \in Images : /\ Establishes(selection.record, image)
                                  /\ selection' = [selection EXCEPT !.image = image]
      BY <1>1, <2>3 DEF ReadNext
    <3>2. DOMAIN selection = {"run", "attempt", "image", "record"}
      BY <1>1, <2>3 DEF ChosenInv, Admitted
    <3>3. /\ selection'.run = selection.run /\ selection'.attempt = selection.attempt
          /\ selection'.record = selection.record /\ selection'.image = image
          /\ DOMAIN selection' = {"run", "attempt", "image", "record"}
      BY <3>1, <3>2
    <3> QED BY <1>1, <2>3, <3>1, <3>3 DEF ChosenInv, Admitted, Establishes
  <2>4. CASE reading \notin {1, 3, 5}
    <3>1. selection' = selection
      BY <1>1, <2>4 DEF ReadNext
    <3>2. CASE reading = 6
      <4>1. runs[selection.run].node.attempt = selection.record.nodeAttempt
        BY <1>1, <3>2 DEF Fact, SameJobs
      <4> QED BY <1>1, <3>1, <3>2, <4>1 DEF ChosenInv, Admitted, Establishes
    <3>3. CASE reading = 9
      <4>1. Len(runs) = selection.run /\ runs[selection.run].attempt = selection.attempt
        BY <1>1, <3>3 DEF Fact, StillLatest, SameAttempt
      <4> QED BY <1>1, <3>1, <3>3, <4>1 DEF ChosenInv, Admitted, Establishes
    <3>4. CASE reading \in {2, 4, 7, 8}
      BY <1>1, <3>1, <3>4 DEF ChosenInv, Admitted, Establishes
    <3> QED BY <1>1, <2>4, <3>2, <3>3, <3>4
  <2> QED BY <2>1, <2>2, <2>3, <2>4
<1> QED BY <1>2, <1>4, <1>5 DEF ReuseInv

LEMMA ReuseKeeps == ASSUME ReuseInv, [ReuseNext]_reuseVars PROVE ReuseInv'
<1>1. CASE StartRun \/ Merge
  BY <1>1, StartRunKeeps, MergeKeeps
<1>2. CASE \E r \in DOMAIN runs : NodeEnds(r) \/ GateEnds(r) \/ Rerun(r)
  BY <1>2, NodeEndsKeeps, GateEndsKeeps, RerunKeeps
<1>3. CASE StartMain \/ ReadNext
  BY <1>3, StartMainKeeps, ReadNextKeeps
<1>4. CASE GiveUp \/ MainNodeEnds \/ MainOthersEnd \/ MainGateEnds \/ RetryMain
  BY <1>4, MainGoesOn
<1>5. CASE UNCHANGED reuseVars
  BY <1>5 DEF reuseVars, ReuseInv, ProvenInv, MainInv, ChosenInv, Establishes
<1> QED BY <1>1, <1>2, <1>3, <1>4, <1>5 DEF ReuseNext

LEMMA ReuseIsSafe == ASSUME ReuseInv PROVE ReuseIsProved /\ SourceIsLatest
<1>1. ProvenInv /\ MainInv /\ ChosenInv
  BY DEF ReuseInv
<1>2. ASSUME main.reuse = "yes"
      PROVE  /\ selection.record \in artifacts /\ Establishes(selection.record, selection.image)
             /\ selection.record.run = selection.run /\ selection.run = Len(runs)
             /\ runs[selection.run].attempt = selection.record.attempt
             /\ runs[selection.run].status = "success"
             /\ runs[selection.run].node.attempt = selection.record.nodeAttempt
  <2>1. reading = Admitted /\ Admitted = 10
    BY <1>1, <1>2 DEF MainInv, Admitted
  <2>2. /\ reading \in 2 .. Admitted /\ reading \in 4 .. Admitted /\ reading \in 6 .. Admitted
        /\ reading \in 7 .. Admitted
    BY <2>1
  <2>3. /\ selection.run \in DOMAIN runs /\ selection.attempt \in Nat
        /\ runs[selection.run].attempt = selection.attempt
    BY <1>1, <2>1, <2>2 DEF ChosenInv
  <2>4. ~(runs[selection.run].attempt > selection.attempt)
    BY <2>3
  <2> QED BY <1>1, <2>1, <2>2, <2>3, <2>4 DEF ChosenInv
<1>3. ReuseIsProved
  <2>1. SUFFICES ASSUME main.node = "skipped"
                 PROVE  <<landed.tree, selection.image>> \in executed
    BY DEF ReuseIsProved
  <2>2. main.reuse = "yes"
    BY <1>1, <2>1 DEF MainInv
  <2> QED BY <1>1, <1>2, <2>2 DEF ProvenInv, Establishes
<1>4. SourceIsLatest
  BY <1>2 DEF SourceIsLatest
<1> QED BY <1>3, <1>4

\* Main leaves its Node suites out only where they have passed, in the newest run: for any
\* numbers of runs, attempts, bases and images.
THEOREM ReuseIsEarned == ReuseSpec => [](ReuseIsProved /\ SourceIsLatest)
<1>1. ReuseInit => ReuseInv
  BY ReuseBegins
<1>2. ReuseInv /\ [ReuseNext]_reuseVars => ReuseInv'
  BY ReuseKeeps
<1>3. ReuseInv => ReuseIsProved /\ SourceIsLatest
  BY ReuseIsSafe
<1> QED BY <1>1, <1>2, <1>3, PTL DEF ReuseSpec

-----------------------------------------------------------------------------
(* The publication of the website                                          *)

\* What a receipt may hold.
Entries == [locator : Nat, digest : Nat]
Purposes == {"none", "latest-active", "candidate", "draft"}
Receipts == [purpose : Purposes, policy : Nat, authorities : Nat,
             modules : [Modules -> Entries], validated : [Modules -> Nat]]
RunStages == {"idle", "registry", "sources", "validate", "open", "write", "ended"}
Runs == [stage : RunStages, replaced : Nat, locator : {Elsewhere} \cup Artifacts,
         registry : [Modules -> Entries], position : Nat, result : Receipts]
\* Stages after the receipt has been read, and of the copy.
Checking == {"source", "derived", "full builds", "upload", "uploaded"}
Copying == {"list", "copy", "list again", "seal"}
Stages == {"idle", "policy", "registry", "authorities", "receipt", "refused"}
          \cup Checking \cup Copying
Publications == [stage : Stages, gate : 1..3, policy : Nat, active : [Modules -> Nat],
                 authorities : Nat, receipt : Receipts, position : Nat,
                 before : [Files -> Nat], again : [Files -> Nat]]

\* What is there, and what the files of dist have been built from: numbers only grow.
WorldInv ==
  /\ policy \in Nat /\ authorities \in Nat /\ source \in [Artifacts -> Nat]
  /\ activation \in [Modules -> [locator : Artifacts, digest : Nat]]
  /\ dist \in [Files -> Nat]
  /\ \A f \in Artifacts : dist[f] <= source[f]

\* The digests are those of the texts that have been validated.
Digested(r) == \A m \in Modules : r.modules[m].digest = r.validated[m]
Proper(r) ==
  /\ Digested(r.result)
  /\ r.stage \in {"registry", "sources"} => r.position \in Modules
  /\ r.stage = "sources" => \A m \in Modules : r.registry[m].locator \in Artifacts
  /\ r.stage \in {"open", "write"} => Qualifies(r.result)
RunInv == run \in [Qualifications -> Runs] /\ \A q \in Qualifications : Proper(run[q])
ReceiptInv ==
  /\ receipt \in Receipts /\ Digested(receipt)
  /\ receipt.purpose \in {"latest-active", "candidate"} =>
       Conforms(receipt.validated, receipt.policy)

Checked(m) == publication.receipt.modules[m].digest = candidate[publication.active[m]]

PublicationType ==
  /\ publication \in Publications
  /\ candidate \in [Files -> Nat] /\ whileLive \in [Files -> Nat]
  /\ publication.stage \in {"source", "derived"} => publication.position \in Modules
  /\ publication.stage \in Copying \ {"seal"} => publication.position \in Files
  /\ publication.stage \in {"upload", "uploaded"} => publication.gate = 3
  /\ publication.stage \in Copying \cup {"idle", "refused"} => publication.gate = 1
  /\ publication.gate # 1
     \/ publication.stage \in {"authorities", "receipt"} \cup Checking \cup Copying
       => publication.active \in [Modules -> Artifacts]

\* The copy is of files that were in dist, and dist has not overtaken the sources.
CandidateInv ==
  /\ \A f \in Artifacts : candidate[f] <= source[f]
  /\ publication.gate # 1 => candidate = whileLive

\* The gate on the copy: what has been checked is covered by the receipt; between the two
\* checks of a module its digest lies between the copy and the source.
GateInv ==
  /\ publication.stage \in Checking =>
       /\ Digested(publication.receipt)
       /\ Conforms(publication.receipt.validated, publication.policy)
  /\ publication.gate # 1 =>
       /\ publication.stage \in {"source", "derived"} =>
            \A m \in Modules : m < publication.position => Checked(m)
       /\ publication.stage = "derived" =>
            LET m == publication.position
                digest == publication.receipt.modules[m].digest
            IN /\ candidate[publication.active[m]] <= digest
               /\ digest <= source[publication.active[m]]
       /\ publication.stage \in {"full builds", "upload", "uploaded"} =>
            \A m \in Modules : Checked(m)

\* What was in dist when the first listing was complete lies between the two listings.
ListInv ==
  /\ publication.stage = "list" =>
       \A f \in Files : f < publication.position => publication.before[f] <= dist[f]
  /\ publication.stage \in {"copy", "list again", "seal"} =>
       \A f \in Files : publication.before[f] <= whileLive[f] /\ whileLive[f] <= dist[f]
  /\ publication.stage = "list again" =>
       \A f \in Files : f < publication.position => whileLive[f] <= publication.again[f]
  /\ publication.stage = "seal" =>
       \A f \in Files : whileLive[f] <= publication.again[f]

WebsiteInv == /\ WorldInv /\ RunInv /\ ReceiptInv /\ PublicationType /\ CandidateInv
              /\ GateInv /\ ListInv

-----------------------------------------------------------------------------
\* The numbers of modules, artifacts and files.
LEMMA WebsiteNumbers ==
  /\ Modules = 1 .. ModuleCount /\ ModuleCount \in Nat /\ 1 \in Modules
  /\ Page \in Nat \ {0} /\ Files = 1 .. Page /\ Page \in Files
  /\ Artifacts \subseteq Files /\ Page \notin Artifacts
  /\ \A m \in Modules : ArtifactsOf[m] \subseteq Artifacts /\ Min(ArtifactsOf[m]) \in Artifacts
<1>1. Modules = 1 .. ModuleCount /\ ModuleCount \in Nat /\ 1 \in Modules
  BY WebsiteAssumption DEF Modules
<1>2. Cardinality(Artifacts) \in Nat /\ Artifacts = 1 .. Cardinality(Artifacts)
  BY WebsiteAssumption, FS_CardinalityType
<1>3. /\ Page \in Nat \ {0} /\ Files = 1 .. Page /\ Page \in Files
      /\ Artifacts \subseteq Files /\ Page \notin Artifacts
  BY <1>2 DEF Page, Files
<1>4. ASSUME NEW m \in Modules
      PROVE  ArtifactsOf[m] \subseteq Artifacts /\ Min(ArtifactsOf[m]) \in Artifacts
  <2>1. ArtifactsOf[m] \subseteq Artifacts
    BY DEF Artifacts
  <2>2. ArtifactsOf[m] # {} /\ ArtifactsOf[m] \subseteq Nat
    BY <2>1, <1>2, WebsiteAssumption
  <2>3. PICK least \in ArtifactsOf[m] : \A y \in ArtifactsOf[m] : least <= y
    BY <2>2, LeastElement
  <2>4. Min(ArtifactsOf[m]) \in ArtifactsOf[m]
    BY <2>3 DEF Min
  <2> QED BY <2>1, <2>4
<1> QED BY <1>1, <1>3, <1>4

LEMMA WebsiteBegins == ASSUME WebsiteInit PROVE WebsiteInv
<1> USE WebsiteNumbers
<1>0. NoModules \in [Modules -> Entries] /\ NoTexts \in [Modules -> Nat]
  BY DEF NoModules, NoTexts, Entries, Elsewhere
<1>1. NoReceipt \in Receipts /\ Digested(NoReceipt)
  <2>1. NoReceipt \in Receipts
    BY <1>0 DEF NoReceipt, Receipts, Purposes
  <2>2. Digested(NoReceipt)
    BY DEF NoReceipt, Digested, NoModules, NoTexts
  <2> QED BY <2>1, <2>2
<1>2. WorldInv
  BY DEF WebsiteInit, WorldInv, Unrecorded
<1>3. NewRun \in Runs
  BY <1>0, <1>1 DEF NewRun, Runs, RunStages
<1>4. RunInv
  BY <1>1, <1>3 DEF WebsiteInit, RunInv, Proper, NewRun
<1>5. ReceiptInv
  BY <1>1 DEF WebsiteInit, ReceiptInv, NoReceipt
<1>6. NoFiles \in [Files -> Nat]
  BY DEF NoFiles
<1>7. NewPublication \in Publications
  BY <1>0, <1>1, <1>6 DEF NewPublication, Publications, Stages
<1>8. publication = NewPublication /\ publication.stage = "idle" /\ publication.gate = 1
  BY DEF WebsiteInit, NewPublication
<1>9. PublicationType
  BY <1>6, <1>7, <1>8 DEF WebsiteInit, PublicationType, Checking, Copying
<1>10. CandidateInv
  BY <1>8 DEF WebsiteInit, CandidateInv, NoFiles
<1>11. GateInv /\ ListInv
  BY <1>8 DEF GateInv, ListInv, Checking
<1> QED BY <1>2, <1>4, <1>5, <1>9, <1>10, <1>11 DEF WebsiteInv

-----------------------------------------------------------------------------
\* What changes meanwhile only makes numbers grow, and that keeps everything.
LEMMA WorldGrows ==
  ASSUME WebsiteInv, WorldInv', UNCHANGED <<receipt, run, uploadVars>>,
         \A f \in Artifacts : source[f] <= source'[f],
         \A f \in Files : dist[f] <= dist'[f]
  PROVE  WebsiteInv'
<1>0. /\ WorldInv /\ RunInv /\ ReceiptInv /\ PublicationType /\ CandidateInv /\ GateInv
      /\ ListInv /\ receipt' = receipt /\ run' = run /\ publication' = publication
      /\ candidate' = candidate /\ whileLive' = whileLive
  BY DEF WebsiteInv, uploadVars
<1> HIDE DEF WebsiteInv
<1>1. RunInv' /\ ReceiptInv' /\ PublicationType'
  BY <1>0 DEF RunInv, Proper, ReceiptInv, PublicationType, Digested, Qualifies, Conforms
<1>2. /\ source \in [Artifacts -> Nat] /\ source' \in [Artifacts -> Nat]
      /\ dist \in [Files -> Nat] /\ dist' \in [Files -> Nat]
  BY <1>0 DEF WorldInv
<1>3. candidate \in [Files -> Nat] /\ whileLive \in [Files -> Nat]
  BY <1>0 DEF PublicationType
<1>4. CandidateInv'
  <2>1. ASSUME NEW f \in Artifacts PROVE candidate'[f] <= source'[f]
    <3>1. /\ candidate[f] \in Nat /\ source[f] \in Nat /\ source'[f] \in Nat
          /\ candidate[f] <= source[f] /\ source[f] <= source'[f]
      BY <1>0, <1>2, <1>3, WebsiteNumbers DEF CandidateInv
    <3> QED BY <1>0, <3>1
  <2> QED BY <1>0, <2>1 DEF CandidateInv
<1>5. /\ publication \in Publications
      /\ publication.before \in [Files -> Nat]
      /\ publication.receipt.modules \in [Modules -> Entries]
      /\ publication.stage = "derived" => publication.position \in Modules
      /\ publication.gate # 1 => publication.active \in [Modules -> Artifacts]
  BY <1>0 DEF PublicationType, Publications, Receipts
<1>6. GateInv'
  <2>1. ASSUME publication.gate # 1, publication.stage = "derived"
        PROVE  publication.receipt.modules[publication.position].digest
                 <= source'[publication.active[publication.position]]
    <3> DEFINE digest == publication.receipt.modules[publication.position].digest
               f == publication.active[publication.position]
    <3>1. digest \in Nat /\ f \in Artifacts
      BY <1>5, <2>1 DEF Entries
    <3>2. digest <= source[f]
      BY <1>0, <2>1 DEF GateInv
    <3>3. source[f] \in Nat /\ source'[f] \in Nat /\ source[f] <= source'[f]
      BY <1>2, <3>1
    <3> QED BY <3>1, <3>2, <3>3
  <2> QED BY <1>0, <2>1 DEF GateInv, Checked, Digested, Conforms
<1>7. ListInv'
  <2>1. ASSUME NEW f \in Files, NEW n \in Nat, n <= dist[f] PROVE n <= dist'[f]
    <3>1. dist[f] \in Nat /\ dist'[f] \in Nat /\ dist[f] <= dist'[f]
      BY <1>2
    <3> QED BY <2>1, <3>1
  <2> QED BY <1>0, <1>3, <1>5, <2>1 DEF ListInv
<1> QED BY <1>1, <1>4, <1>6, <1>7 DEF WebsiteInv

LEMMA WorldStepKeeps ==
  ASSUME WebsiteInv,
         \/ EditPolicy \/ EditAuthorities \/ BuildWebsite
         \/ \E f \in Artifacts : EditSource(f)
         \/ \E m \in Modules : \E f \in ArtifactsOf[m] : ActivateArtifact(m, f)
         \/ \E f \in Files : WriteOutput(f)
  PROVE  WebsiteInv'
<1> USE WebsiteNumbers
<1>1. /\ policy \in Nat /\ authorities \in Nat /\ source \in [Artifacts -> Nat]
      /\ activation \in [Modules -> [locator : Artifacts, digest : Nat]]
      /\ dist \in [Files -> Nat] /\ \A f \in Artifacts : dist[f] <= source[f]
  BY DEF WebsiteInv, WorldInv
<1>2. UNCHANGED <<receipt, run, uploadVars>>
  BY DEF EditPolicy, EditAuthorities, BuildWebsite, EditSource, ActivateArtifact,
         WriteOutput, Elsewise
<1>3. /\ WorldInv' /\ \A f \in Artifacts : source[f] <= source'[f]
      /\ \A f \in Files : dist[f] <= dist'[f]
  <2>1. CASE EditPolicy \/ EditAuthorities \/ BuildWebsite
    BY <1>1, <2>1 DEF EditPolicy, EditAuthorities, BuildWebsite, distVars, WorldInv
  <2>2. CASE \E f \in Artifacts : EditSource(f)
    <3>1. PICK f \in Artifacts : EditSource(f)
      BY <2>2
    <3>2. source' = [source EXCEPT ![f] = @ + 1]
          /\ UNCHANGED <<policy, authorities, activation, dist>>
      BY <3>1 DEF EditSource, distVars
    <3>3. source[f] \in Nat
      BY <1>1
    <3>10. source[f] + 1 \in Nat
      BY <3>3
    <3>11. source' \in [Artifacts -> Nat]
      BY <1>1, <3>2, <3>10
    <3>12. \A g \in Artifacts : source[g] <= source'[g]
      <4> TAKE g \in Artifacts
      <4>1. source[g] \in Nat /\ (source'[g] = source[g] \/ source'[g] = source[g] + 1)
        BY <1>1, <3>2
      <4> QED BY <4>1
    <3>4. source' \in [Artifacts -> Nat] /\ \A g \in Artifacts : source[g] <= source'[g]
      BY <3>11, <3>12
    <3>5. \A g \in Artifacts : dist[g] \in Nat /\ source[g] \in Nat /\ source'[g] \in Nat
      BY <1>1, <3>4
    <3>6. \A g \in Artifacts : dist'[g] <= source'[g]
      BY SMTT(30), <1>1, <3>2, <3>4, <3>5
    <3>7. \A g \in Files : dist[g] \in Nat /\ dist[g] <= dist'[g]
      BY <1>1, <3>2
    <3> QED BY <1>1, <3>2, <3>4, <3>6, <3>7 DEF WorldInv
  <2>3. ASSUME NEW m \in Modules, NEW f \in ArtifactsOf[m], ActivateArtifact(m, f)
        PROVE  activation' \in [Modules -> [locator : Artifacts, digest : Nat]]
    <3>1. f \in Artifacts /\ source[f] \in Nat
      BY <1>1
    <3> QED BY <1>1, <2>3, <3>1 DEF ActivateArtifact
  <2>4. CASE \E m \in Modules : \E f \in ArtifactsOf[m] : ActivateArtifact(m, f)
    <3>1. UNCHANGED <<policy, authorities, source, dist>>
      BY <2>4 DEF ActivateArtifact, distVars
    <3>2. activation' \in [Modules -> [locator : Artifacts, digest : Nat]]
      BY <2>3, <2>4
    <3>3. /\ \A f \in Artifacts : source[f] \in Nat /\ source[f] <= source'[f]
          /\ \A f \in Files : dist[f] \in Nat /\ dist[f] <= dist'[f]
      BY SMTT(30), <1>1, <3>1
    <3> QED BY <1>1, <3>1, <3>2, <3>3 DEF WorldInv
  <2>5. CASE \E f \in Files : WriteOutput(f)
    <3>1. PICK f \in Files : WriteOutput(f)
      BY <2>5
    <3>2. f = Page \/ f \in Artifacts
      BY DEF Files
    <3>3. dist' = [dist EXCEPT ![f] = IF f = Page THEN @ + 1 ELSE source[f]]
          /\ UNCHANGED <<policy, authorities, source, activation>>
      BY <3>1 DEF WriteOutput, worldVars
    <3>4. f = Page => f \notin Artifacts
      BY WebsiteNumbers
    <3> DEFINE to == IF f = Page THEN dist[f] + 1 ELSE source[f]
    <3>6. to \in Nat /\ dist[f] \in Nat /\ dist[f] <= to /\ (f \in Artifacts => to = source[f])
      BY <1>1, <3>2, <3>4
    <3>7. dist' = [dist EXCEPT ![f] = to]
      BY <3>3
    <3> HIDE DEF to
    <3>8. dist' \in [Files -> Nat] /\ \A g \in Files : dist[g] <= dist'[g]
      <4>1. dist' \in [Files -> Nat]
        BY <1>1, <3>6, <3>7
      <4>2. ASSUME NEW g \in Files PROVE dist[g] <= dist'[g]
        <5>1. dist[g] \in Nat
          BY <1>1
        <5>2. g # f => dist'[g] = dist[g]
          BY <1>1, <3>7
        <5>3. dist'[f] = to
          BY <1>1, <3>7
        <5>4. CASE g # f
          BY <5>1, <5>2, <5>4
        <5> QED BY <3>6, <5>3, <5>4
      <4> QED BY <4>1, <4>2
    <3>9. \A g \in Artifacts : g \in Files /\ dist'[g] <= source[g]
      BY <1>1, <3>6, <3>7 DEF Files
    <3>10. \A g \in Artifacts : source[g] \in Nat /\ source[g] <= source'[g]
      BY <1>1, <3>3
    <3> QED BY <1>1, <3>3, <3>8, <3>9, <3>10 DEF WorldInv
  <2> QED BY <2>1, <2>2, <2>4, <2>5
<1> QED BY <1>2, <1>3, WorldGrows

-----------------------------------------------------------------------------
\* A step of a qualification to a proper state of it keeps the others, and all but the
\* receipt.
LEMMA RunStepKeeps ==
  ASSUME WebsiteInv, NEW q \in Qualifications, NEW from, NEW to \in Runs,
         RunStep(q, from, to), Proper(to), ReceiptInv'
  PROVE  WebsiteInv'
<1>0. /\ WorldInv /\ RunInv /\ PublicationType /\ CandidateInv /\ GateInv /\ ListInv
      /\ run' = [run EXCEPT ![q] = to] /\ UNCHANGED <<worldVars, distVars, uploadVars>>
  BY DEF WebsiteInv, RunStep
<1> HIDE DEF WebsiteInv
<1>1. WorldInv'
  BY <1>0 DEF WorldInv, worldVars, distVars
<1>2. RunInv'
  BY <1>0 DEF RunInv
<1>3. PublicationType' /\ CandidateInv'
  BY <1>0 DEF PublicationType, CandidateInv, uploadVars, worldVars
<1>4. GateInv' /\ ListInv'
  BY <1>0 DEF GateInv, ListInv, Checked, Digested, Conforms, uploadVars, worldVars, distVars
<1> QED BY <1>1, <1>2, <1>3, <1>4 DEF WebsiteInv

\* A receipt that stays is as good as before.
LEMMA ReceiptStays == ASSUME ReceiptInv, UNCHANGED receipt PROVE ReceiptInv'
BY DEF ReceiptInv, Digested, Conforms

\* A run that has ended.
LEMMA EndedIsProper == Ended \in Runs /\ Proper(Ended)
<1> USE WebsiteNumbers
<1>1. NoModules \in [Modules -> Entries] /\ NoTexts \in [Modules -> Nat]
  BY DEF NoModules, NoTexts, Entries, Elsewhere
<1>2. NoReceipt \in Receipts
  BY <1>1 DEF NoReceipt, Receipts, Purposes
<1>3. Ended \in Runs
  BY <1>1, <1>2 DEF Ended, NewRun, Runs, RunStages
<1>4. Proper(Ended)
  BY DEF Proper, Ended, NewRun, NoReceipt, Digested, NoModules, NoTexts
<1> QED BY <1>3, <1>4

LEMMA BeginRunKeeps ==
  ASSUME WebsiteInv, NEW q \in Qualifications, BeginRun(q) PROVE WebsiteInv'
<1>1. PICK purpose \in {"latest-active", "candidate", "draft"} :
      \E replaced \in IF purpose = "latest-active" THEN {0} ELSE Modules :
      \E locator \in {Elsewhere} \cup IF replaced = 0 THEN {} ELSE ArtifactsOf[replaced] :
        RunStep(q, "idle", [NewRun EXCEPT !.stage = "registry", !.replaced = replaced,
                              !.locator = locator, !.result = Begun(purpose)])
  BY DEF BeginRun
<1>2. PICK replaced \in IF purpose = "latest-active" THEN {0} ELSE Modules :
      \E locator \in {Elsewhere} \cup IF replaced = 0 THEN {} ELSE ArtifactsOf[replaced] :
        RunStep(q, "idle", [NewRun EXCEPT !.stage = "registry", !.replaced = replaced,
                              !.locator = locator, !.result = Begun(purpose)])
  BY <1>1
<1>3. PICK locator \in {Elsewhere} \cup IF replaced = 0 THEN {} ELSE ArtifactsOf[replaced] :
        RunStep(q, "idle", [NewRun EXCEPT !.stage = "registry", !.replaced = replaced,
                              !.locator = locator, !.result = Begun(purpose)])
  BY <1>2
<1> DEFINE to == [NewRun EXCEPT !.stage = "registry", !.replaced = replaced,
                                !.locator = locator, !.result = Begun(purpose)]
<1>4. RunStep(q, "idle", to)
  BY <1>3
<1>5. NewRun \in Runs /\ NoReceipt \in Receipts /\ Digested(NoReceipt)
  <2>1. NoModules \in [Modules -> Entries] /\ NoTexts \in [Modules -> Nat]
    BY DEF NoModules, NoTexts, Entries, Elsewhere
  <2>2. NoReceipt \in Receipts
    BY <2>1 DEF NoReceipt, Receipts, Purposes
  <2> QED BY <2>1, <2>2
      DEF NewRun, Runs, RunStages, Digested, NoReceipt, NoModules, NoTexts
<1>6. policy \in Nat
  BY DEF WebsiteInv, WorldInv
<1>7. Begun(purpose) \in Receipts /\ Digested(Begun(purpose))
  BY <1>5, <1>6 DEF Begun, Receipts, Purposes, Digested
<1>8. replaced \in Nat /\ locator \in {Elsewhere} \cup Artifacts
  BY WebsiteNumbers DEF Elsewhere
<1>9. /\ to \in Runs /\ to.stage = "registry" /\ to.position = NewRun.position
      /\ to.result = Begun(purpose)
  BY <1>5, <1>7, <1>8 DEF Runs, RunStages
<1> HIDE DEF to
<1>10. Proper(to)
  BY <1>7, <1>9, WebsiteNumbers DEF Proper, NewRun
<1>11. ReceiptInv'
  BY ReceiptStays DEF WebsiteInv, BeginRun
<1> QED BY <1>4, <1>9, <1>10, <1>11, RunStepKeeps

LEMMA LoadOwnedModulesKeeps ==
  ASSUME WebsiteInv, NEW q \in Qualifications, LoadOwnedModules(q) PROVE WebsiteInv'
<1> DEFINE to == [run[q] EXCEPT !.stage = "sources", !.registry = activation]
<1>1. /\ run[q] \in Runs /\ Proper(run[q]) /\ run[q].stage = "registry"
      /\ RunStep(q, "registry", to)
  BY DEF WebsiteInv, RunInv, LoadOwnedModules, RunStep
<1>2. activation \in [Modules -> [locator : Artifacts, digest : Nat]]
  BY DEF WebsiteInv, WorldInv
<1>3. activation \in [Modules -> Entries]
  <2>1. Artifacts \subseteq Nat
    BY WebsiteNumbers
  <2>2. ASSUME NEW m \in Modules PROVE activation[m] \in Entries
    BY <1>2, <2>1 DEF Entries
  <2> QED BY <1>2, <2>2
<1>4. to \in Runs
  BY <1>1, <1>3 DEF Runs, RunStages
<1>5. /\ to.stage = "sources" /\ to.registry = activation /\ to.result = run[q].result
      /\ to.position = run[q].position
  BY <1>1 DEF Runs
<1> HIDE DEF to
<1>6. Proper(to)
  BY <1>1, <1>2, <1>5 DEF Proper
<1>7. ReceiptInv'
  BY ReceiptStays DEF WebsiteInv, LoadOwnedModules
<1> QED BY <1>1, <1>4, <1>6, <1>7, RunStepKeeps

LEMMA ReadSourceKeeps ==
  ASSUME WebsiteInv, NEW q \in Qualifications, ReadSource(q) PROVE WebsiteInv'
<1> DEFINE r == run[q]
           m == r.position
           locator == IF r.replaced = m THEN r.locator ELSE r.registry[m].locator
           end == m = ModuleCount
           Next1(text) == [r EXCEPT !.stage = IF end THEN "validate" ELSE "sources",
                                    !.position = IF end THEN 1 ELSE m + 1,
                                    !.result.modules[m] = [locator |-> locator,
                                                           digest |-> text],
                                    !.result.validated[m] = text]
<1>1. PICK text \in IF locator = Elsewhere THEN Texts ELSE {source[locator]} :
        RunStep(q, "sources",
                IF r.replaced # m /\ ~MatchesActivation(r, m, text) THEN Ended
                ELSE Next1(text))
  BY DEF ReadSource
<1>2. r \in Runs /\ Proper(r) /\ r.stage = "sources"
  BY <1>1 DEF WebsiteInv, RunInv, RunStep
<1>3. /\ m \in Modules /\ locator \in {Elsewhere} \cup Artifacts
      /\ r.result \in Receipts /\ Digested(r.result)
  BY <1>2 DEF Proper, Runs
<1>4. text \in Nat /\ locator \in Nat
  <2>0. text \in IF locator = Elsewhere THEN Texts ELSE {source[locator]}
    BY <1>1
  <2>1. source \in [Artifacts -> Nat] /\ Texts \subseteq Nat
    BY WebsiteAssumption DEF WebsiteInv, WorldInv, Texts
  <2> HIDE DEF r, m, locator, end, Next1
  <2>2. locator \in Nat
    <3>1. Elsewhere \in Nat /\ \A a \in Artifacts : a \in Nat
      <4>1. Artifacts \subseteq Files /\ Files = 1 .. Page
        BY WebsiteNumbers
      <4>2. \A a \in 1 .. Page : a \in Nat
        OBVIOUS
      <4> QED BY <4>1, <4>2 DEF Elsewhere
    <3>2. locator = Elsewhere \/ locator \in Artifacts
      BY <1>3
    <3> QED BY <3>1, <3>2
  <2>3. CASE locator = Elsewhere
    BY <2>0, <2>1, <2>2, <2>3
  <2>4. CASE locator # Elsewhere
    <3>1. text = source[locator] /\ locator \in Artifacts
      BY <1>3, <2>0, <2>4
    <3> QED BY <2>1, <2>2, <3>1
  <2> QED BY <2>3, <2>4
<1>5. ReceiptInv'
  BY ReceiptStays DEF WebsiteInv, ReadSource
<1> DEFINE modules == [r.result.modules EXCEPT ![m] = [locator |-> locator, digest |-> text]]
           validated == [r.result.validated EXCEPT ![m] = text]
           result == [r.result EXCEPT !.modules = modules, !.validated = validated]
<1>6. /\ modules \in [Modules -> Entries] /\ validated \in [Modules -> Nat]
      /\ \A k \in Modules : modules[k].digest = validated[k]
  <2>1. /\ r.result.modules \in [Modules -> Entries]
        /\ r.result.validated \in [Modules -> Nat]
    BY <1>3 DEF Receipts
  <2>2. [locator |-> locator, digest |-> text] \in Entries
    BY <1>4 DEF Entries
  <2> HIDE DEF locator
  <2> QED BY <1>3, <1>4, <2>1, <2>2 DEF Digested
<1>7. result \in Receipts /\ Digested(result)
  <2> HIDE DEF modules, validated
  <2> QED BY <1>3, <1>6 DEF Receipts, Digested
<1>8. Next1(text) = [r EXCEPT !.stage = IF end THEN "validate" ELSE "sources",
                              !.position = IF end THEN 1 ELSE m + 1, !.result = result]
  BY <1>2, <1>3 DEF Runs, Receipts
<1> HIDE DEF locator, result
<1>9. Next1(text) \in Runs /\ Proper(Next1(text))
  <2> DEFINE to == [r EXCEPT !.stage = IF end THEN "validate" ELSE "sources",
                             !.position = IF end THEN 1 ELSE m + 1, !.result = result]
  <2>1. (IF end THEN 1 ELSE m + 1) \in Modules
    BY <1>3, WebsiteNumbers
  <2>2. to \in Runs
    <3>1. /\ (IF end THEN 1 ELSE m + 1) \in Nat
          /\ (IF end THEN "validate" ELSE "sources") \in RunStages
      BY <2>1, WebsiteNumbers DEF RunStages
    <3> DEFINE onward == IF end THEN 1 ELSE m + 1
               reached == IF end THEN "validate" ELSE "sources"
    <3> HIDE DEF onward, reached, result, m, end
    <3>2. onward \in Nat /\ reached \in RunStages
      BY <3>1 DEF onward, reached
    <3>3. [r EXCEPT !.stage = reached, !.position = onward, !.result = result] \in Runs
      BY <1>2, <1>7, <3>2 DEF Runs
    <3> QED BY <3>3 DEF onward, reached
  <2>3. /\ to.result = result /\ to.position \in Modules /\ to.registry = r.registry
        /\ to.stage \in {"sources", "validate"}
    BY <1>2, <2>1 DEF Runs
  <2> HIDE DEF to
  <2>4. Proper(to)
    BY <1>2, <1>7, <2>3 DEF Proper
  <2> QED BY <1>8, <2>2, <2>4 DEF to
<1> HIDE DEF Next1
<1>10. CASE r.replaced # m /\ ~MatchesActivation(r, m, text)
  BY <1>1, <1>5, <1>10, EndedIsProper, RunStepKeeps
<1>11. CASE ~(r.replaced # m /\ ~MatchesActivation(r, m, text))
  BY <1>1, <1>5, <1>9, <1>11, RunStepKeeps
<1> QED BY <1>10, <1>11

LEMMA RestOfRunKeeps ==
  ASSUME WebsiteInv, NEW q \in Qualifications,
         Validate(q) \/ OpenReceipt(q) \/ WriteReceipt(q) \/ RunFails(q)
  PROVE  WebsiteInv'
<1>1. run[q] \in Runs /\ Proper(run[q]) /\ authorities \in Nat /\ ReceiptInv
  BY DEF WebsiteInv, RunInv, WorldInv
<1>2. CASE Validate(q)
  <2> DEFINE result == [run[q].result EXCEPT !.authorities = authorities]
             to == [run[q] EXCEPT !.stage = "open", !.result = result]
  <2>1. result \in Receipts /\ Digested(result)
    BY <1>1 DEF Runs, Receipts, Proper, Digested
  <2>2. /\ result.purpose = run[q].result.purpose /\ result.policy = run[q].result.policy
        /\ result.validated = run[q].result.validated
    BY <1>1 DEF Runs, Receipts
  <2>3. [run[q] EXCEPT !.stage = "open", !.result.authorities = authorities] = to
    BY <1>1 DEF Runs, Receipts
  <2> HIDE DEF result
  <2>4. to \in Runs /\ to.stage = "open" /\ to.result = result
    BY <1>1, <2>1 DEF Runs, RunStages
  <2> HIDE DEF to
  <2>5. Qualifies(run[q].result) => Proper(to)
    BY <2>1, <2>2, <2>4 DEF Proper, Qualifies
  <2>6. RunStep(q, "validate", IF Qualifies(run[q].result) THEN to ELSE Ended)
    BY <1>2, <2>3 DEF Validate
  <2>7. ReceiptInv'
    BY <1>1, <1>2, ReceiptStays DEF Validate
  <2>8. CASE Qualifies(run[q].result)
    BY <2>4, <2>5, <2>6, <2>7, <2>8, RunStepKeeps
  <2>9. CASE ~Qualifies(run[q].result)
    BY <2>6, <2>7, <2>9, EndedIsProper, RunStepKeeps
  <2> QED BY <2>8, <2>9
<1>3. CASE OpenReceipt(q)
  <2> DEFINE to == [run[q] EXCEPT !.stage = "write"]
  <2>1. /\ to \in Runs /\ to.stage = "write" /\ to.result = run[q].result
        /\ run[q].stage = "open" /\ RunStep(q, "open", to)
    BY <1>1, <1>3 DEF Runs, RunStages, OpenReceipt, RunStep
  <2> HIDE DEF to
  <2>2. Proper(to)
    BY <1>1, <2>1 DEF Proper
  <2>3. NoModules \in [Modules -> Entries] /\ NoTexts \in [Modules -> Nat]
    BY DEF NoModules, NoTexts, Entries, Elsewhere
  <2>4. NoReceipt \in Receipts
    BY <2>3 DEF NoReceipt, Receipts, Purposes
  <2>5. ReceiptInv'
    BY <1>3, <2>4 DEF OpenReceipt, ReceiptInv, NoReceipt, Digested, NoModules, NoTexts
  <2> QED BY <2>1, <2>2, <2>5, RunStepKeeps
<1>4. CASE WriteReceipt(q)
  <2>1. run[q].stage = "write" /\ receipt' = run[q].result /\ RunStep(q, "write", Ended)
    BY <1>4 DEF WriteReceipt, RunStep
  <2>2. /\ Digested(run[q].result) /\ Qualifies(run[q].result)
        /\ run[q].result \in Receipts
    BY <1>1, <2>1 DEF Proper, Runs
  <2>3. ReceiptInv'
    BY <2>1, <2>2 DEF ReceiptInv, Qualifies, Digested, Conforms
  <2> QED BY <2>1, <2>3, EndedIsProper, RunStepKeeps
<1>5. CASE RunFails(q)
  <2>1. RunStep(q, run[q].stage, Ended) /\ ReceiptInv'
    BY <1>1, <1>5, ReceiptStays DEF RunFails
  <2> QED BY <2>1, EndedIsProper, RunStepKeeps
<1> QED BY <1>2, <1>3, <1>4, <1>5

-----------------------------------------------------------------------------
\* What is known of the publication before a step, part by part.
LEMMA PublicationFacts ==
  ASSUME WebsiteInv
  PROVE  /\ policy \in Nat /\ authorities \in Nat
         /\ source \in [Artifacts -> Nat] /\ dist \in [Files -> Nat]
         /\ publication \in Publications /\ publication.before \in [Files -> Nat]
         /\ publication.again \in [Files -> Nat] /\ publication.receipt \in Receipts
         /\ publication.position \in Nat /\ publication.gate \in 1..3
         /\ publication.receipt.modules \in [Modules -> Entries]
         /\ PublicationType /\ CandidateInv /\ GateInv /\ ListInv
BY DEF WebsiteInv, WorldInv, PublicationType, Publications, Receipts

\* A step of the publication keeps what it does not own.
LEMMA MovesKeeps ==
  ASSUME WebsiteInv, NEW from, NEW to, Moves(from, to)
  PROVE  /\ WorldInv' /\ RunInv' /\ ReceiptInv' /\ publication.stage = from
         /\ publication' = to /\ source' = source /\ dist' = dist
<1>1. /\ UNCHANGED <<policy, authorities, source, activation, dist, receipt, run>>
      /\ publication.stage = from /\ publication' = to
  BY DEF Moves, worldVars, distVars
<1>2. WorldInv' /\ RunInv' /\ ReceiptInv'
  BY <1>1 DEF WebsiteInv, WorldInv, RunInv, ReceiptInv, Digested, Proper, Qualifies, Conforms
<1> QED BY <1>1, <1>2

\* Before the receipt is read nothing is claimed of the checks or of the listings.
LEMMA QuietStages ==
  ASSUME publication'.stage \in {"policy", "registry", "authorities", "receipt"}
  PROVE  GateInv' /\ ListInv'
BY DEF GateInv, ListInv, Checking

\* The publication begins, reads the policy, the registry and the authorities.
LEMMA GateReadsKeep ==
  ASSUME WebsiteInv, BeginPublication \/ LoadPolicy \/ LoadRegistry \/ ReadAuthorities
  PROVE  WebsiteInv'
<1>0. /\ WorldInv' /\ RunInv' /\ ReceiptInv' /\ source' = source
      /\ candidate' = candidate /\ whileLive' = whileLive
  BY MovesKeeps DEF BeginPublication, LoadPolicy, LoadRegistry, ReadAuthorities, Goes
<1>1. /\ publication' \in Publications /\ publication'.gate = publication.gate
      /\ publication'.stage \in {"policy", "registry", "authorities", "receipt"}
      /\ publication'.stage = "policy" => publication.gate = 1
      /\ publication.gate # 1 \/ publication'.stage \in {"authorities", "receipt"}
          => publication'.active \in [Modules -> Artifacts]
  <2>0. /\ publication \in Publications /\ policy \in Nat /\ authorities \in Nat
        /\ PublicationType
    BY PublicationFacts
  <2>1. CASE BeginPublication
    <3>1. publication' = At("policy") /\ publication.stage = "idle"
      BY <2>1 DEF BeginPublication, Goes, Moves
    <3>2. publication.gate = 1
      BY <2>0, <3>1 DEF PublicationType
    <3> QED BY <2>0, <3>1, <3>2 DEF At, Publications, Stages
  <2>2. CASE LoadPolicy
    <3>1. publication' = [At("registry") EXCEPT !.policy = policy]
      BY <2>2 DEF LoadPolicy, Goes, Moves
    <3> QED BY <2>0, <3>1 DEF At, Publications, Stages, PublicationType
  <2>3. CASE LoadRegistry
    <3> DEFINE active == [m \in Modules |-> activation[m].locator]
    <3>1. publication' = [At("authorities") EXCEPT !.active = active]
      BY <2>3 DEF LoadRegistry, Goes, Moves
    <3>2. activation \in [Modules -> [locator : Artifacts, digest : Nat]]
      BY DEF WebsiteInv, WorldInv
    <3>3. active \in [Modules -> Artifacts]
      BY <3>2
    <3>4. Artifacts \subseteq Nat
      BY WebsiteNumbers
    <3> HIDE DEF active
    <3>5. active \in [Modules -> Nat]
      BY <3>3, <3>4
    <3> QED BY <2>0, <3>1, <3>3, <3>5 DEF At, Publications, Stages
  <2>4. CASE ReadAuthorities
    <3>1. /\ publication' = [At("receipt") EXCEPT !.authorities = authorities]
          /\ publication.stage = "authorities"
      BY <2>4 DEF ReadAuthorities, Goes, Moves
    <3> QED BY <2>0, <3>1 DEF At, Publications, Stages, PublicationType
  <2> QED BY <2>1, <2>2, <2>3, <2>4
<1>2. PublicationType'
  BY <1>0, <1>1, PublicationFacts DEF PublicationType, Checking, Copying
<1>3. CandidateInv'
  BY <1>0, <1>1, PublicationFacts DEF CandidateInv
<1> QED BY <1>0, <1>1, <1>2, <1>3, QuietStages DEF WebsiteInv

LEMMA ReadReceiptKeeps == ASSUME WebsiteInv, ReadReceipt PROVE WebsiteInv'
<1>0. /\ WorldInv' /\ RunInv' /\ ReceiptInv' /\ source' = source
      /\ candidate' = candidate /\ whileLive' = whileLive
      /\ publication.stage = "receipt" /\ ReceiptAdmits(receipt)
      /\ publication' = [At("source") EXCEPT !.receipt = receipt, !.position = 1]
  BY MovesKeeps DEF ReadReceipt, Goes
<1>1. ReceiptInv /\ receipt \in Receipts
  BY DEF WebsiteInv, ReceiptInv
<1>2. /\ publication' \in Publications /\ publication'.gate = publication.gate
      /\ publication'.stage = "source" /\ publication'.position = 1
      /\ publication'.active = publication.active /\ publication'.receipt = receipt
      /\ publication'.policy = publication.policy
  BY <1>0, <1>1, PublicationFacts DEF At, Publications, Stages, Checking
<1>3. PublicationType'
  BY <1>0, <1>2, PublicationFacts, WebsiteNumbers DEF PublicationType, Checking, Copying
<1>4. CandidateInv'
  BY <1>0, <1>2, PublicationFacts DEF CandidateInv
<1>5. Digested(receipt) /\ Conforms(receipt.validated, publication.policy)
  BY <1>0, <1>1 DEF ReceiptAdmits, ReceiptInv
<1>6. \A m \in Modules : ~(m < 1)
  BY WebsiteNumbers
<1>7. GateInv'
  BY <1>2, <1>5, <1>6 DEF GateInv, Checking, Digested, Conforms
<1>8. ListInv'
  BY <1>2 DEF ListInv
<1> QED BY <1>0, <1>3, <1>4, <1>7, <1>8 DEF WebsiteInv

\* The text that is in the source has been qualified as the artifact that is active.
LEMMA CheckSourceKeeps == ASSUME WebsiteInv, CheckSource PROVE WebsiteInv'
<1>0. /\ WorldInv' /\ RunInv' /\ ReceiptInv' /\ source' = source
      /\ candidate' = candidate /\ whileLive' = whileLive
      /\ publication.stage = "source" /\ Covered(publication.position)
      /\ publication' = At("derived")
  BY MovesKeeps DEF CheckSource, Goes
<1>1. /\ publication' \in Publications /\ publication'.gate = publication.gate
      /\ publication'.stage = "derived" /\ publication'.position = publication.position
      /\ publication'.active = publication.active /\ publication'.policy = publication.policy
      /\ publication'.receipt = publication.receipt
  BY <1>0, PublicationFacts DEF At, Publications, Stages, Checking
<1>2. /\ publication.position \in Modules /\ publication.active \in [Modules -> Artifacts]
  BY <1>0, PublicationFacts DEF PublicationType, Checking
<1>3. PublicationType'
  BY <1>0, <1>1, <1>2, PublicationFacts DEF PublicationType, Checking, Copying
<1>4. CandidateInv'
  BY <1>0, <1>1, PublicationFacts DEF CandidateInv
<1>5. /\ Digested(publication.receipt)
      /\ Conforms(publication.receipt.validated, publication.policy)
      /\ publication.gate # 1 =>
           \A m \in Modules : m < publication.position => Checked(m)
  BY <1>0, PublicationFacts DEF GateInv, Checking
<1>6. LET f == publication.active[publication.position]
          digest == publication.receipt.modules[publication.position].digest
      IN candidate[f] <= digest /\ digest <= source[f]
  <2> DEFINE f == publication.active[publication.position]
  <2>1. f \in Artifacts /\ source[f] \in Nat
    BY <1>2, PublicationFacts
  <2>2. publication.receipt.modules[publication.position].digest = source[f]
    BY <1>0 DEF Covered
  <2>3. candidate[f] <= source[f]
    BY <2>1, PublicationFacts DEF CandidateInv
  <2> QED BY <2>1, <2>2, <2>3
<1>7. GateInv'
  BY <1>0, <1>1, <1>5, <1>6 DEF GateInv, Checking, Digested, Conforms, Checked
<1>8. ListInv'
  BY <1>1 DEF ListInv
<1> QED BY <1>0, <1>3, <1>4, <1>7, <1>8 DEF WebsiteInv

\* The copy lies between the digest and the source, so where it equals the source the three
\* are one.
LEMMA CheckDerivedKeeps == ASSUME WebsiteInv, CheckDerived PROVE WebsiteInv'
<1> DEFINE m == publication.position
           f == publication.active[m]
           to == IF m = ModuleCount THEN At("full builds")
                 ELSE [At("source") EXCEPT !.position = m + 1]
<1>0. /\ WorldInv' /\ RunInv' /\ ReceiptInv' /\ source' = source
      /\ candidate' = candidate /\ whileLive' = whileLive
      /\ publication.stage = "derived" /\ Examined[f] = source[f]
      /\ publication' = to
  BY MovesKeeps DEF CheckDerived, Goes
<1>1. /\ m \in Modules /\ publication.active \in [Modules -> Artifacts]
  BY <1>0, PublicationFacts DEF PublicationType, Checking
<1>2. /\ publication' \in Publications /\ publication'.gate = publication.gate
      /\ publication'.active = publication.active /\ publication'.policy = publication.policy
      /\ publication'.receipt = publication.receipt
      /\ \/ m = ModuleCount /\ publication'.stage = "full builds"
         \/ m # ModuleCount /\ publication'.stage = "source" /\ publication'.position = m + 1
  <2>1. m + 1 \in Nat
    BY <1>1, WebsiteNumbers
  <2> QED BY <1>0, <2>1, PublicationFacts DEF At, Publications, Stages, Checking
<1>3. m # ModuleCount => m + 1 \in Modules
  BY <1>1, WebsiteNumbers
<1>4. PublicationType'
  BY <1>0, <1>1, <1>2, <1>3, PublicationFacts DEF PublicationType, Checking, Copying
<1>5. CandidateInv'
  BY <1>0, <1>2, PublicationFacts DEF CandidateInv
<1>6. /\ Digested(publication.receipt)
      /\ Conforms(publication.receipt.validated, publication.policy)
  BY <1>0, PublicationFacts DEF GateInv, Checking
<1>7. ASSUME publication.gate # 1, NEW k \in Modules, k <= m PROVE Checked(k)
  <2>1. CASE k = m
    <3>1. /\ f \in Artifacts /\ f \in Files /\ source[f] \in Nat /\ candidate[f] \in Nat
          /\ publication.receipt.modules[m].digest \in Nat
      BY <1>1, PublicationFacts, WebsiteNumbers DEF Entries, PublicationType
    <3>2. /\ candidate[f] <= publication.receipt.modules[m].digest
          /\ publication.receipt.modules[m].digest <= source[f]
      BY <1>0, <1>7, PublicationFacts DEF GateInv
    <3>3. candidate[f] = source[f]
      BY <1>0, <1>7 DEF Examined
    <3> QED BY <2>1, <3>1, <3>2, <3>3 DEF Checked
  <2>2. CASE k # m
    <3>1. k < m
      BY <1>1, <1>7, <2>2, WebsiteNumbers
    <3> QED BY <1>0, <1>7, <3>1, PublicationFacts DEF GateInv
  <2> QED BY <2>1, <2>2
<1>8. \A k \in Modules : (m = ModuleCount => k <= m) /\ (k < m + 1 => k <= m)
  BY <1>1, WebsiteNumbers
<1> HIDE DEF m, to
<1>9. ASSUME publication'.gate # 1
      PROVE  /\ publication'.stage = "source" =>
                  \A k \in Modules : k < publication'.position => Checked(k)'
             /\ publication'.stage = "full builds" => \A k \in Modules : Checked(k)'
  BY <1>0, <1>2, <1>7, <1>8, <1>9 DEF Checked
<1>10. GateInv'
  BY <1>0, <1>2, <1>6, <1>9 DEF GateInv, Checking, Digested, Conforms
<1>11. ListInv'
  BY <1>2 DEF ListInv
<1> QED BY <1>0, <1>4, <1>5, <1>10, <1>11 DEF WebsiteInv

\* The full builds are verified, after the last module; and the upload.
LEMMA VerifiedKeeps == ASSUME WebsiteInv, VerifyFullBuilds \/ Upload PROVE WebsiteInv'
<1>0. /\ WorldInv' /\ RunInv' /\ ReceiptInv' /\ source' = source
      /\ candidate' = candidate /\ whileLive' = whileLive
  BY MovesKeeps DEF VerifyFullBuilds, Upload, Goes
<1>1. /\ publication' \in Publications /\ publication'.receipt = publication.receipt
      /\ publication'.active = publication.active /\ publication'.policy = publication.policy
      /\ publication'.gate = 1 => publication.gate = 1
      /\ \/ /\ publication'.stage = "list" /\ publication'.position = 1
            /\ publication'.gate = 1 /\ publication.stage = "full builds"
         \/ publication'.stage = "policy" /\ publication'.gate = 3 /\ publication.gate = 2
         \/ /\ publication'.stage \in {"upload", "uploaded"} /\ publication'.gate = 3
            /\ publication.gate = 3 /\ publication.stage \in {"full builds", "upload"}
  <2>1. CASE VerifyFullBuilds
    <3>0. publication \in Publications
      BY PublicationFacts
    <3>1. CASE publication.gate = 1 /\ Goes("full builds", [At("list") EXCEPT !.position = 1])
      <4>1. /\ publication' = [At("list") EXCEPT !.position = 1] /\ publication.gate = 1
            /\ publication.stage = "full builds"
        BY <3>1 DEF Goes, Moves
      <4>2. publication' \in Publications
        BY <3>0, <4>1 DEF At, Publications, Stages, Copying
      <4> QED BY <3>0, <4>1, <4>2 DEF At, Publications
    <3>2. CASE publication.gate = 2 /\ Goes("full builds", [At("policy") EXCEPT !.gate = 3])
      <4>1. publication' = [At("policy") EXCEPT !.gate = 3] /\ publication.gate = 2
        BY <3>2 DEF Goes, Moves
      <4>2. publication' \in Publications
        <5>1. 3 \in 1..3 /\ "policy" \in Stages
          BY DEF Stages
        <5> QED BY <3>0, <4>1, <5>1 DEF At, Publications
      <4> QED BY <3>0, <4>1, <4>2 DEF At, Publications
    <3>3. CASE publication.gate = 3 /\ Goes("full builds", At("upload"))
      <4>1. /\ publication' = At("upload") /\ publication.gate = 3
            /\ publication.stage = "full builds"
        BY <3>3 DEF Goes, Moves
      <4>2. publication' \in Publications
        BY <3>0, <4>1 DEF At, Publications, Stages, Checking
      <4> QED BY <3>0, <4>1, <4>2 DEF At, Publications
    <3> QED BY <2>1, <3>1, <3>2, <3>3 DEF VerifyFullBuilds
  <2>2. CASE Upload
    <3>1. publication.stage = "upload" /\ publication' = At("uploaded")
      BY <2>2 DEF Upload, Goes, Moves
    <3>2. publication.gate = 3
      BY <3>1, PublicationFacts DEF PublicationType
    <3> QED BY <3>1, <3>2, PublicationFacts DEF At, Publications, Stages, Checking
  <2> QED BY <2>1, <2>2
<1>2. PublicationType'
  <2>1. publication.active \in [Modules -> Artifacts]
    <3>1. publication.stage = "full builds" \/ publication.gate # 1
      <4>1. publication.stage = "full builds" \/ publication.gate = 2 \/ publication.gate = 3
        BY <1>1
      <4>2. ASSUME NEW g, g = 2 \/ g = 3 PROVE g # 1
        BY <4>2
      <4> QED BY <4>1, <4>2
    <3>2. publication.gate # 1 \/ publication.stage \in Checking
            => publication.active \in [Modules -> Artifacts]
      BY PublicationFacts DEF PublicationType
    <3> QED BY <3>1, <3>2 DEF Checking
  <2>2. 1 \in Files
    BY WebsiteNumbers
  <2>3. candidate' \in [Files -> Nat] /\ whileLive' \in [Files -> Nat]
    BY <1>0, PublicationFacts DEF PublicationType
  <2>4. CASE publication'.stage = "list"
    BY <1>1, <2>1, <2>2, <2>3, <2>4 DEF PublicationType, Checking, Copying
  <2>5. CASE publication'.stage # "list"
    <3>1. publication'.gate = 3 /\ publication'.stage \in {"policy", "upload", "uploaded"}
      BY <1>1, <2>5
    <3> QED BY <1>1, <2>1, <2>3, <3>1 DEF PublicationType, Checking, Copying
  <2> QED BY <2>4, <2>5
<1>3. CandidateInv'
  BY <1>0, <1>1, PublicationFacts DEF CandidateInv
<1>4. GateInv'
  BY <1>0, <1>1, PublicationFacts DEF GateInv, Checking, Digested, Conforms, Checked
<1>5. \A f \in Files : ~(f < 1)
  BY WebsiteNumbers
<1>6. ListInv'
  BY <1>1, <1>5 DEF ListInv
<1> QED BY <1>0, <1>2, <1>3, <1>4, <1>6 DEF WebsiteInv

\* The next file, or the next stage after the last one.
LEMMA NextFile ==
  ASSUME WebsiteInv, publication.position \in Files, NEW reached \in Stages, NEW after \in Stages
  PROVE  /\ Next(reached, after) \in Publications
         /\ Next(reached, after).gate = publication.gate
         /\ Next(reached, after).active = publication.active
         /\ Next(reached, after).before = publication.before
         /\ Next(reached, after).again = publication.again
         /\ \/ /\ publication.position = Page
               /\ Next(reached, after).stage = after /\ Next(reached, after).position = 1
            \/ /\ publication.position # Page /\ Next(reached, after).stage = reached
               /\ Next(reached, after).position = publication.position + 1
<1>0. publication \in Publications /\ publication.position + 1 \in Nat
  BY PublicationFacts
<1>1. CASE publication.position = Page
  <2> DEFINE placed == 1
  <2>1. Next(reached, after) = [At(after) EXCEPT !.position = placed]
    BY <1>1 DEF Next
  <2>2. placed \in Nat
    OBVIOUS
  <2> HIDE DEF placed
  <2>3. /\ Next(reached, after) \in Publications /\ Next(reached, after).stage = after
        /\ Next(reached, after).position = placed
        /\ Next(reached, after).gate = publication.gate
        /\ Next(reached, after).active = publication.active
        /\ Next(reached, after).before = publication.before
        /\ Next(reached, after).again = publication.again
    BY <1>0, <2>1, <2>2 DEF At, Publications
  <2> QED BY <1>1, <2>3 DEF placed
<1>2. CASE publication.position # Page
  <2> DEFINE placed == publication.position + 1
  <2>1. Next(reached, after) = [At(reached) EXCEPT !.position = placed]
    <3>1. At(reached).position = publication.position
      BY <1>0 DEF At, Publications
    <3> QED BY <1>2, <3>1 DEF Next
  <2> HIDE DEF placed
  <2>2. placed \in Nat
    BY <1>0 DEF placed
  <2>3. /\ Next(reached, after) \in Publications /\ Next(reached, after).stage = reached
        /\ Next(reached, after).position = placed
        /\ Next(reached, after).gate = publication.gate
        /\ Next(reached, after).active = publication.active
        /\ Next(reached, after).before = publication.before
        /\ Next(reached, after).again = publication.again
    BY <1>0, <2>1, <2>2 DEF At, Publications
  <2> QED BY <1>2, <2>3 DEF placed
<1> QED BY <1>1, <1>2

\* A file is listed: what was seen of it can only grow, and when the last is listed all of
\* dist is remembered.
LEMMA ListFileKeeps == ASSUME WebsiteInv, ListFile PROVE WebsiteInv'
<1> DEFINE f == publication.position
           before == [publication.before EXCEPT ![f] = dist[f]]
<1>0. /\ WorldInv' /\ RunInv' /\ ReceiptInv' /\ source' = source /\ dist' = dist
      /\ publication.stage = "list" /\ candidate' = candidate
      /\ whileLive' = IF f = Page THEN dist ELSE whileLive
      /\ publication' = [Next("list", "copy") EXCEPT !.before[f] = dist[f]]
  BY MovesKeeps DEF ListFile
<1>1. /\ f \in Files /\ publication.gate = 1 /\ publication.active \in [Modules -> Artifacts]
  BY <1>0, PublicationFacts DEF PublicationType, Copying, Checking
<1>2. before \in [Files -> Nat]
  BY <1>1, PublicationFacts
<1>3. /\ publication' \in Publications /\ publication'.gate = 1
      /\ publication'.active = publication.active /\ publication'.before = before
      /\ \/ f = Page /\ publication'.stage = "copy" /\ publication'.position = 1
         \/ f # Page /\ publication'.stage = "list" /\ publication'.position = f + 1
  <2>1. "list" \in Stages /\ "copy" \in Stages
    BY DEF Stages, Copying
  <2> DEFINE next == Next("list", "copy")
  <2>2. /\ next \in Publications /\ next.gate = publication.gate
        /\ next.active = publication.active /\ next.before = publication.before
        /\ next.again = publication.again
        /\ \/ f = Page /\ next.stage = "copy" /\ next.position = 1
           \/ f # Page /\ next.stage = "list" /\ next.position = f + 1
    BY <1>1, <2>1, NextFile
  <2>3. publication' = [next EXCEPT !.before[f] = dist[f]]
    BY <1>0
  <2> HIDE DEF next
  <2>4. [next EXCEPT !.before[f] = dist[f]] = [next EXCEPT !.before = before]
    BY <2>2
  <2> HIDE DEF f, before
  <2> QED BY <1>1, <1>2, <2>2, <2>3, <2>4 DEF Publications
<1>4. f # Page => f + 1 \in Files
  BY <1>1, WebsiteNumbers
<1>5. candidate' \in [Files -> Nat] /\ whileLive' \in [Files -> Nat] /\ 1 \in Files
  BY <1>0, PublicationFacts, WebsiteNumbers DEF PublicationType
<1>6. PublicationType'
  BY <1>1, <1>3, <1>4, <1>5 DEF PublicationType, Checking, Copying
<1>7. CandidateInv'
  BY <1>0, <1>3, PublicationFacts DEF CandidateInv
<1>8. GateInv'
  BY <1>3 DEF GateInv, Checking
<1>9. ASSUME NEW g \in Files, g <= f PROVE before[g] <= dist[g]
  <2>1. CASE g = f
    BY <1>1, <2>1, PublicationFacts
  <2>2. CASE g # f
    <3>1. g < f
      BY <1>1, <1>9, <2>2, WebsiteNumbers
    <3>2. publication.before[g] <= dist[g]
      BY <1>0, <3>1, PublicationFacts DEF ListInv
    <3> QED BY <1>1, <2>2, <3>2, PublicationFacts
  <2> QED BY <2>1, <2>2
<1>10. \A g \in Files : (f = Page => g <= f) /\ (g < f + 1 => g <= f)
  BY <1>1, WebsiteNumbers
<1>11. \A g \in Files : dist[g] <= dist[g]
  BY PublicationFacts
<1> HIDE DEF f, before
<1>12. ListInv'
  BY <1>0, <1>3, <1>9, <1>10, <1>11 DEF ListInv
<1> QED BY <1>0, <1>6, <1>7, <1>8, <1>12 DEF WebsiteInv

LEMMA CopyFileKeeps == ASSUME WebsiteInv, CopyFile PROVE WebsiteInv'
<1> DEFINE f == publication.position
<1>0. /\ WorldInv' /\ RunInv' /\ ReceiptInv' /\ source' = source /\ dist' = dist
      /\ publication.stage = "copy" /\ whileLive' = whileLive
      /\ candidate' = [candidate EXCEPT ![f] = dist[f]]
      /\ publication' = Next("copy", "list again")
  BY MovesKeeps DEF CopyFile
<1>1. /\ f \in Files /\ publication.gate = 1 /\ publication.active \in [Modules -> Artifacts]
  BY <1>0, PublicationFacts DEF PublicationType, Copying, Checking
<1>2. /\ publication' \in Publications /\ publication'.gate = 1
      /\ publication'.active = publication.active
      /\ publication'.before = publication.before
      /\ \/ f = Page /\ publication'.stage = "list again" /\ publication'.position = 1
         \/ f # Page /\ publication'.stage = "copy" /\ publication'.position = f + 1
  <2>1. "copy" \in Stages /\ "list again" \in Stages
    BY DEF Stages, Copying
  <2> QED BY <1>0, <1>1, <2>1, NextFile
<1>3. f # Page => f + 1 \in Files
  BY <1>1, WebsiteNumbers
<1>4. candidate' \in [Files -> Nat] /\ whileLive' \in [Files -> Nat] /\ 1 \in Files
  <2>1. /\ candidate \in [Files -> Nat] /\ whileLive \in [Files -> Nat]
        /\ dist \in [Files -> Nat]
    BY PublicationFacts DEF PublicationType
  <2>2. candidate' \in [Files -> Nat]
    BY <1>0, <1>1, <2>1
  <2>3. whileLive' \in [Files -> Nat]
    BY <1>0, <2>1
  <2> QED BY <2>2, <2>3, WebsiteNumbers
<1>5. PublicationType'
  BY <1>1, <1>2, <1>3, <1>4 DEF PublicationType, Checking, Copying
<1>6. CandidateInv'
  <2>1. ASSUME NEW g \in Artifacts PROVE candidate'[g] <= source[g]
    <3>1. candidate \in [Files -> Nat] /\ g \in Files
      BY PublicationFacts, WebsiteNumbers DEF PublicationType
    <3>2. candidate[g] <= source[g] /\ dist[g] <= source[g]
      BY PublicationFacts DEF CandidateInv, WebsiteInv, WorldInv
    <3> QED BY <1>0, <1>1, <3>1, <3>2
  <2> QED BY <1>0, <1>2, <2>1 DEF CandidateInv
<1>7. GateInv'
  BY <1>2 DEF GateInv, Checking
<1>8. \A g \in Files : ~(g < 1)
  BY WebsiteNumbers
<1> HIDE DEF f
<1>9. ListInv'
  BY <1>0, <1>2, <1>8, PublicationFacts DEF ListInv
<1> QED BY <1>0, <1>5, <1>6, <1>7, <1>9 DEF WebsiteInv

LEMMA ListAgainKeeps == ASSUME WebsiteInv, ListAgain PROVE WebsiteInv'
<1> DEFINE f == publication.position
           again == [publication.again EXCEPT ![f] = dist[f]]
<1>0. /\ WorldInv' /\ RunInv' /\ ReceiptInv' /\ source' = source /\ dist' = dist
      /\ publication.stage = "list again" /\ candidate' = candidate
      /\ whileLive' = whileLive
      /\ publication' = [Next("list again", "seal") EXCEPT !.again[f] = dist[f]]
  BY MovesKeeps DEF ListAgain, Goes
<1>1. /\ f \in Files /\ publication.gate = 1 /\ publication.active \in [Modules -> Artifacts]
  BY <1>0, PublicationFacts DEF PublicationType, Copying, Checking
<1>2. again \in [Files -> Nat]
  BY <1>1, PublicationFacts
<1>3. /\ publication' \in Publications /\ publication'.gate = 1
      /\ publication'.active = publication.active /\ publication'.again = again
      /\ publication'.before = publication.before
      /\ \/ f = Page /\ publication'.stage = "seal"
         \/ f # Page /\ publication'.stage = "list again" /\ publication'.position = f + 1
  <2>1. "list again" \in Stages /\ "seal" \in Stages
    BY DEF Stages, Copying
  <2> DEFINE next == Next("list again", "seal")
  <2>2. /\ next \in Publications /\ next.gate = publication.gate
        /\ next.active = publication.active /\ next.before = publication.before
        /\ next.again = publication.again
        /\ \/ f = Page /\ next.stage = "seal" /\ next.position = 1
           \/ f # Page /\ next.stage = "list again" /\ next.position = f + 1
    BY <1>1, <2>1, NextFile
  <2>3. publication' = [next EXCEPT !.again[f] = dist[f]]
    BY <1>0
  <2> HIDE DEF next
  <2>4. [next EXCEPT !.again[f] = dist[f]] = [next EXCEPT !.again = again]
    BY <2>2
  <2> HIDE DEF f, again
  <2> QED BY <1>1, <1>2, <2>2, <2>3, <2>4 DEF Publications
<1>4. f # Page => f + 1 \in Files
  BY <1>1, WebsiteNumbers
<1>5. candidate' \in [Files -> Nat] /\ whileLive' \in [Files -> Nat]
  BY <1>0, PublicationFacts DEF PublicationType
<1>6. PublicationType'
  BY <1>1, <1>3, <1>4, <1>5 DEF PublicationType, Checking, Copying
<1>7. CandidateInv'
  BY <1>0, <1>3, PublicationFacts DEF CandidateInv
<1>8. GateInv'
  BY <1>3 DEF GateInv, Checking
<1>9. ASSUME NEW g \in Files, g <= f PROVE whileLive[g] <= again[g]
  <2>0. whileLive[g] <= dist[g]
    BY <1>0, PublicationFacts DEF ListInv
  <2>1. CASE g = f
    BY <1>1, <2>0, <2>1, PublicationFacts
  <2>2. CASE g # f
    <3>1. g < f
      BY <1>1, <1>9, <2>2, WebsiteNumbers
    <3>2. whileLive[g] <= publication.again[g]
      BY <1>0, <3>1, PublicationFacts DEF ListInv
    <3> QED BY <1>1, <2>2, <3>2, PublicationFacts
  <2> QED BY <2>1, <2>2
<1>10. \A g \in Files : (f = Page => g <= f) /\ (g < f + 1 => g <= f)
  BY <1>1, WebsiteNumbers
<1>11. \A g \in Files : publication.before[g] <= whileLive[g] /\ whileLive[g] <= dist[g]
  BY <1>0, PublicationFacts DEF ListInv
<1> HIDE DEF f, again
<1>12. ListInv'
  BY <1>0, <1>3, <1>9, <1>10, <1>11 DEF ListInv
<1> QED BY <1>0, <1>6, <1>7, <1>8, <1>12 DEF WebsiteInv

\* The copy equals both listings, and what was in dist lies between them.
LEMMA SealKeeps == ASSUME WebsiteInv, Seal PROVE WebsiteInv'
<1> DEFINE to == [At("policy") EXCEPT !.gate = 2, !.before = NoFiles, !.again = NoFiles]
<1>0. /\ WorldInv' /\ RunInv' /\ ReceiptInv' /\ source' = source
      /\ publication.stage = "seal" /\ candidate' = candidate /\ whileLive' = whileLive
      /\ publication' = to /\ Unmoved
  BY MovesKeeps DEF Seal, Goes
<1>1. NoFiles \in [Files -> Nat] /\ 2 \in 1..3 /\ "policy" \in Stages
  BY DEF NoFiles, Stages
<1>2. /\ publication' \in Publications /\ publication'.gate = 2
      /\ publication'.stage = "policy" /\ publication'.active = publication.active
  BY <1>0, <1>1, PublicationFacts DEF At, Publications
<1>3. candidate \in [Files -> Nat] /\ whileLive \in [Files -> Nat]
  BY PublicationFacts DEF PublicationType
<1>4. publication.active \in [Modules -> Artifacts]
  BY <1>0, PublicationFacts DEF PublicationType, Copying
<1>5. PublicationType'
  BY <1>0, <1>2, <1>3, <1>4 DEF PublicationType, Checking, Copying
<1>6. candidate = whileLive
  <2>1. /\ publication.before = candidate /\ publication.again = candidate
    BY <1>0 DEF Unmoved
  <2>2. ASSUME NEW f \in Files PROVE candidate[f] = whileLive[f]
    <3>1. /\ candidate[f] <= whileLive[f] /\ whileLive[f] <= candidate[f]
      BY <1>0, <2>1, PublicationFacts DEF ListInv
    <3>2. candidate[f] \in Nat /\ whileLive[f] \in Nat
      BY <1>3
    <3> QED BY <3>1, <3>2
  <2> QED BY <1>3, <2>2
<1>7. CandidateInv'
  BY <1>0, <1>6, PublicationFacts DEF CandidateInv
<1>8. GateInv' /\ ListInv'
  BY <1>2, QuietStages
<1> QED BY <1>0, <1>5, <1>7, <1>8 DEF WebsiteInv

LEMMA RefuseKeeps == ASSUME WebsiteInv, Refuse PROVE WebsiteInv'
<1>0. /\ WorldInv' /\ RunInv' /\ ReceiptInv' /\ source' = source
      /\ candidate' = NoFiles /\ whileLive' = NoFiles
      /\ publication' = [NewPublication EXCEPT !.stage = "refused"]
  BY MovesKeeps DEF Refuse
<1>1. NewPublication \in Publications /\ NoFiles \in [Files -> Nat]
  <2>1. NoModules \in [Modules -> Entries] /\ NoTexts \in [Modules -> Nat]
    BY DEF NoModules, NoTexts, Entries, Elsewhere
  <2>2. NoReceipt \in Receipts
    BY <2>1 DEF NoReceipt, Receipts, Purposes
  <2>3. NoFiles \in [Files -> Nat]
    BY DEF NoFiles
  <2> QED BY <2>1, <2>2, <2>3 DEF NewPublication, Publications, Stages
<1>2. /\ publication' \in Publications /\ publication'.stage = "refused"
      /\ publication'.gate = NewPublication.gate
  BY <1>0, <1>1 DEF Publications, Stages
<1>3. publication'.gate = 1
  BY <1>2 DEF NewPublication
<1>4. PublicationType'
  BY <1>0, <1>1, <1>2, <1>3 DEF PublicationType, Checking, Copying
<1>5. CandidateInv'
  <2>1. ASSUME NEW f \in Artifacts PROVE candidate'[f] <= source'[f]
    <3>1. NoFiles[f] = 0 /\ source[f] \in Nat
      BY PublicationFacts, WebsiteNumbers DEF NoFiles
    <3> QED BY <1>0, <3>1
  <2> QED BY <1>3, <2>1 DEF CandidateInv
<1>6. GateInv' /\ ListInv'
  BY <1>2 DEF GateInv, ListInv, Checking
<1> QED BY <1>0, <1>4, <1>5, <1>6 DEF WebsiteInv

-----------------------------------------------------------------------------
LEMMA WebsiteStutters == ASSUME WebsiteInv, UNCHANGED websiteVars PROVE WebsiteInv'
<1>1. UNCHANGED <<receipt, run, uploadVars, policy, authorities, source, activation, dist>>
  BY DEF websiteVars, worldVars, distVars
<1>2. WorldInv'
  BY <1>1 DEF WebsiteInv, WorldInv
<1>3. /\ \A f \in Artifacts : source[f] <= source'[f]
      /\ \A f \in Files : dist[f] <= dist'[f]
  BY <1>1 DEF WebsiteInv, WorldInv
<1> QED BY <1>1, <1>2, <1>3, WorldGrows

LEMMA WebsiteKeeps == ASSUME WebsiteInv, [WebsiteNext]_websiteVars PROVE WebsiteInv'
<1>1. CASE EditPolicy \/ EditAuthorities \/ BuildWebsite
  BY <1>1, WorldStepKeeps
<1>2. CASE \E f \in Artifacts : EditSource(f)
  BY <1>2, WorldStepKeeps
<1>3. CASE \E m \in Modules : \E f \in ArtifactsOf[m] : ActivateArtifact(m, f)
  BY <1>3, WorldStepKeeps
<1>4. CASE \E f \in Files : WriteOutput(f)
  BY <1>4, WorldStepKeeps
<1>5. CASE \E q \in Qualifications : RunNext(q)
  BY <1>5, BeginRunKeeps, LoadOwnedModulesKeeps, ReadSourceKeeps, RestOfRunKeeps DEF RunNext
<1>6. CASE PublicationStep
  BY <1>6, GateReadsKeep, ReadReceiptKeeps, CheckSourceKeeps, CheckDerivedKeeps, VerifiedKeeps,
     ListFileKeeps, CopyFileKeeps, ListAgainKeeps, SealKeeps, RefuseKeeps DEF PublicationStep
<1>7. CASE UNCHANGED websiteVars
  BY <1>7, WebsiteStutters
<1> QED BY <1>1, <1>2, <1>3, <1>4, <1>5, <1>6, <1>7 DEF WebsiteNext

\* When everything has been checked for the third time, the copy is what was validated.
LEMMA WebsiteIsHonest == ASSUME WebsiteInv PROVE PublicationHonest
<1>1. ASSUME Uploaded PROVE UploadedIsQualified /\ UploadedWasLive
  <2>1. publication.stage = "uploaded" /\ publication.gate = 3
    BY <1>1, PublicationFacts DEF Uploaded, PublicationType
  <2>2. /\ candidate = whileLive /\ \A m \in Modules : Checked(m)
        /\ Digested(publication.receipt)
        /\ Conforms(publication.receipt.validated, publication.policy)
    BY <2>1, PublicationFacts DEF CandidateInv, GateInv, Checking
  <2> DEFINE texts == [m \in Modules |-> candidate[publication.active[m]]]
  <2>3. \A m \in Modules : texts[m] = publication.receipt.validated[m]
    BY <2>2 DEF Checked, Digested
  <2>4. publication.receipt.validated \in [Modules -> Nat]
    BY PublicationFacts DEF Receipts
  <2>5. texts = publication.receipt.validated
    <3>1. texts \in [Modules -> Nat]
      BY <2>3, <2>4
    <3> HIDE DEF texts
    <3> QED BY <2>3, <2>4, <3>1
  <2> QED BY <2>2, <2>5 DEF UploadedIsQualified, UploadedWasLive
<1> QED BY <1>1 DEF PublicationHonest, UploadedIsQualified, UploadedWasLive

\* What is uploaded has been validated and was live: for any modules, artifacts, policies
\* that texts violate, runs of the validation and numbers of changes.
THEOREM UploadsAreHonest == WebsiteSpec => []PublicationHonest
<1>1. WebsiteInit => WebsiteInv
  BY WebsiteBegins
<1>2. WebsiteInv /\ [WebsiteNext]_websiteVars => WebsiteInv'
  BY WebsiteKeeps
<1>3. WebsiteInv => PublicationHonest
  BY WebsiteIsHonest
<1> QED BY <1>1, <1>2, <1>3, PTL DEF WebsiteSpec

-----------------------------------------------------------------------------
(* The tool of a page                                                      *)

\* What a call may be, and a load.
Outcomes == {"none", "invalid_input", "rejected", "aborted", "invalid_reference", "failure",
             "mismatch", "found", "not_found", "ambiguous"}
UseStages == {"idle", "awaiting", "asking", "reporting", "ended"}
UseRecords == [stage : UseStages, reference : References \cup {"none"}, load : Nat,
               asked : Nat, aborted : BOOLEAN, outcome : Outcomes, release : Nat]
Loads == [creator : Uses, status : {"loading", "ready", "failed"}]

\* The page: a document that is being registered or is registered has been admitted.
PageInv ==
  /\ tab \in {"loading", "shown", "cached", "gone"} /\ shown \in Documents
  /\ served \in [Versions -> Versions \cup {Absent}]
  /\ listening \in BOOLEAN /\ tool \in BOOLEAN
  /\ registration \in {"registering", "registered"} => Indexed(shown) /\ WellFormed(shown)
  /\ tab = "loading" => registration = "none" /\ ~tool
  /\ tab = "gone" => ~tool
  /\ tool => registration = "registered"
  /\ registration \in {"failed", "declined"} \/ tab = "gone" => ~listening

\* A call of an admitted page, and its answer.
Answering(x) == x.outcome \in {"found", "not_found", "ambiguous"}
UseInv(x) ==
  /\ x.stage # "idle" => tab # "loading" /\ WellFormed(shown)
  /\ x.stage # "ended" => x.outcome = "none"
  /\ x.stage \in {"asking", "reporting"} => x.asked \in {1, 2}
  /\ Answering(x) =>
       /\ x.release = shown.version /\ ~x.aborted
       /\ x.outcome = "not_found" /\ x.reference = "uuid_urn" => x.asked = 2
UsesInv == uses \in [Uses -> UseRecords] /\ \A u \in Uses : UseInv(uses[u])

\* A load that has not failed is the one that is kept; until the call that made it goes
\* on, it is kept though it fails, and once it is not kept it is never joined again.
LoadsInv ==
  /\ loads \in Seq(Loads) /\ resolver \in 0 .. Len(loads)
  /\ \A n \in DOMAIN loads : loads[n].status # "failed" => n = resolver
  /\ resolver # 0 /\ loads[resolver].status # "ready" =>
       LET creator == loads[resolver].creator
       IN uses[creator].stage = "awaiting" /\ uses[creator].load = resolver
JoinInv ==
  \A u \in Uses :
    /\ uses[u].stage = "awaiting" =>
         /\ uses[u].load \in DOMAIN loads
         /\ loads[uses[u].load].creator = u => uses[u].load = resolver
    /\ uses[u].outcome = "rejected" =>
         uses[u].load \in DOMAIN loads /\ uses[u].load # resolver

ToolInv == PageInv /\ UsesInv /\ LoadsInv /\ JoinInv

-----------------------------------------------------------------------------
LEMMA ToolBegins == ASSUME ToolInit PROVE ToolInv
<1>1. NoUse \in UseRecords
  BY DEF NoUse, UseRecords, UseStages, Outcomes, Absent
<1>2. PageInv
  BY DEF ToolInit, PageInv, Absent
<1>3. UsesInv
  BY <1>1 DEF ToolInit, UsesInv, UseInv, NoUse, Answering
<1>4. loads = <<>> /\ resolver = 0 /\ Len(loads) = 0 /\ DOMAIN loads = {}
  BY DEF ToolInit
<1>5. LoadsInv
  BY <1>4 DEF LoadsInv
<1>6. JoinInv
  BY DEF ToolInit, JoinInv, NoUse
<1> QED BY <1>2, <1>3, <1>5, <1>6 DEF ToolInv

\* A step of the page, which has to leave the document to the calls there are.
LEMMA PageStepKeeps ==
  ASSUME ToolInv,
         Render \/ Import \/ RegisterTool \/ PageHide \/ PageShow \/ Publish
  PROVE  ToolInv'
<1>1. UNCHANGED <<loads, resolver, uses>>
  BY DEF Render, Import, RegisterTool, PageHide, PageShow, Publish
<1>2. LoadsInv' /\ JoinInv'
  BY <1>1 DEF ToolInv, LoadsInv, JoinInv
<1>3. PageInv /\ UsesInv
  BY DEF ToolInv
<1>4. PageInv'
  <2>1. CASE Render
    BY <1>3, <2>1 DEF Render, PageInv
  <2>2. CASE Import
    BY <1>3, <2>2 DEF Import, PageInv
  <2>3. CASE RegisterTool
    BY <1>3, <2>3 DEF RegisterTool, PageInv
  <2>4. CASE PageHide \/ PageShow
    BY <1>3, <2>4 DEF PageHide, PageShow, PageInv
  <2>5. CASE Publish
    BY <1>3, <2>5 DEF Publish, pageLife, PageInv
  <2> QED BY <2>1, <2>2, <2>3, <2>4, <2>5
<1>5. UsesInv'
  <2>1. tab # "loading" => UNCHANGED shown /\ tab' # "loading"
    BY <1>3 DEF Render, Import, RegisterTool, PageHide, PageShow, Publish, pageLife, PageInv
  <2>2. ASSUME NEW u \in Uses PROVE UseInv(uses[u])'
    <3>1. UseInv(uses[u]) /\ uses'[u] = uses[u]
      BY <1>1, <1>3 DEF UsesInv
    <3>2. CASE tab # "loading"
      BY <2>1, <3>1, <3>2 DEF UseInv, WellFormed
    <3>3. CASE tab = "loading"
      <4>1. uses[u].stage = "idle" /\ uses[u].outcome = "none"
        BY <1>3, <3>1, <3>3 DEF UsesInv, UseRecords, UseInv
      <4> QED BY <3>1, <4>1 DEF UseInv, Answering
    <3> QED BY <3>2, <3>3
  <2> QED BY <1>1, <1>3, <2>2 DEF UsesInv
<1> QED BY <1>2, <1>4, <1>5 DEF ToolInv

-----------------------------------------------------------------------------
\* What is known of a load.
LEMMA LoadFacts ==
  ASSUME LoadsInv, NEW n \in DOMAIN loads
  PROVE  /\ loads[n].creator \in Uses /\ loads[n].status \in {"loading", "ready", "failed"}
         /\ loads[n] \in Loads /\ n \in 1 .. Len(loads)
<1>1. loads \in Seq(Loads) /\ n \in 1 .. Len(loads)
  BY DEF LoadsInv
<1>2. loads[n] \in Loads
  BY <1>1
<1> QED BY <1>1, <1>2 DEF Loads

\* A step of a call that is on the page leaves the page and the other calls.
LEMMA UseStepKeeps ==
  ASSUME ToolInv, NEW u \in Uses, NEW to \in UseRecords,
         uses' = [uses EXCEPT ![u] = to], UNCHANGED <<pageLife, served>>,
         UseInv(to)
  PROVE  PageInv' /\ UsesInv'
<1>1. UNCHANGED <<tab, shown, registration, listening, tool, served>>
  BY DEF pageLife
<1>2. PageInv'
  BY <1>1 DEF ToolInv, PageInv, Indexed, WellFormed
<1>3. UsesInv'
  <2>1. uses' \in [Uses -> UseRecords]
    BY DEF ToolInv, UsesInv
  <2>2. ASSUME NEW v \in Uses PROVE UseInv(uses[v])'
    <3>1. UseInv(uses'[v])
      BY DEF ToolInv, UsesInv
    <3> QED BY <1>1, <3>1 DEF UseInv, WellFormed
  <2> QED BY <2>1, <2>2 DEF UsesInv
<1> QED BY <1>2, <1>3

\* A step of a call that no longer waits for a load, if it was never the one to make it.
LEMMA LaterStepKeeps ==
  ASSUME ToolInv, NEW u \in Uses, NEW to \in UseRecords,
         uses' = [uses EXCEPT ![u] = to], UNCHANGED <<loads, resolver>>,
         to.load = uses[u].load,
         \/ uses[u].stage # "awaiting" /\ to.stage # "awaiting" /\ to.outcome # "rejected"
         \/ to.stage = uses[u].stage /\ to.outcome = uses[u].outcome
  PROVE  LoadsInv' /\ JoinInv'
<1>1. /\ LoadsInv /\ JoinInv /\ uses \in [Uses -> UseRecords]
      /\ loads' = loads /\ resolver' = resolver
  BY DEF ToolInv, UsesInv
<1>2. \A v \in Uses : uses'[v] = IF v = u THEN to ELSE uses[v]
  BY <1>1
<1>3. \A v \in Uses : /\ uses'[v].load = uses[v].load
                      /\ uses'[v].stage = "awaiting" <=> uses[v].stage = "awaiting"
                      /\ uses'[v].outcome = "rejected" => uses[v].outcome = "rejected"
  BY <1>2
<1>4. JoinInv'
  BY <1>1, <1>3 DEF JoinInv
<1>5. LoadsInv'
  <2>1. ASSUME resolver # 0 PROVE loads[resolver].creator \in Uses
    <3>1. resolver \in DOMAIN loads
      BY <1>1, <2>1 DEF LoadsInv
    <3> QED BY <1>1, <3>1, LoadFacts
  <2> QED BY <1>1, <1>3, <2>1 DEF LoadsInv
<1> QED BY <1>4, <1>5

LEMMA ExecuteKeeps ==
  ASSUME ToolInv, NEW u \in Uses, Execute(u) PROVE ToolInv'
<1>1. PICK reference \in References :
        IF reference = "input"
        THEN /\ uses' = [uses EXCEPT ![u] = Outcome([@ EXCEPT !.reference = reference],
                                                    "invalid_input")]
             /\ UNCHANGED <<loads, resolver>>
        ELSE /\ resolver = 0 => Len(loads) < MaxLoads
             /\ IF resolver = 0
                THEN /\ loads' = Append(loads, [creator |-> u, status |-> "loading"])
                     /\ resolver' = Len(loads')
                ELSE UNCHANGED <<loads, resolver>>
             /\ uses' = [uses EXCEPT ![u].stage = "awaiting", ![u].reference = reference,
                                     ![u].load = resolver']
  BY DEF Execute
<1>2. /\ UsesInv /\ LoadsInv /\ JoinInv /\ tab = "shown" /\ WellFormed(shown)
      /\ UNCHANGED <<pageLife, served>> /\ uses \in [Uses -> UseRecords]
      /\ uses[u] \in UseRecords /\ UseInv(uses[u]) /\ uses[u].stage = "idle"
      /\ uses[u].outcome = "none"
  BY DEF ToolInv, UsesInv, UseInv, PageInv, Execute
<1>3. CASE reference = "input"
  <2> DEFINE to == Outcome([uses[u] EXCEPT !.reference = reference], "invalid_input")
  <2>1. uses' = [uses EXCEPT ![u] = to] /\ UNCHANGED <<loads, resolver>>
    BY <1>1, <1>2, <1>3
  <2>2. /\ to \in UseRecords /\ to.load = uses[u].load /\ to.stage = "ended"
        /\ to.outcome = "invalid_input"
    BY <1>2 DEF Outcome, UseRecords, UseStages, Outcomes
  <2> HIDE DEF to
  <2>3. UseInv(to)
    BY <1>2, <2>2 DEF UseInv, Answering
  <2>4. PageInv' /\ UsesInv'
    BY <1>2, <2>1, <2>2, <2>3, UseStepKeeps
  <2>5. LoadsInv' /\ JoinInv'
    BY <1>2, <2>1, <2>2, LaterStepKeeps
  <2> QED BY <2>4, <2>5 DEF ToolInv
<1>4. CASE reference # "input"
  <2> DEFINE to == [uses[u] EXCEPT !.stage = "awaiting", !.reference = reference,
                                   !.load = resolver']
  <2>1. /\ uses' = [uses EXCEPT ![u] = to]
        /\ \/ /\ resolver = 0 /\ resolver' = Len(loads')
              /\ loads' = Append(loads, [creator |-> u, status |-> "loading"])
           \/ resolver # 0 /\ UNCHANGED <<loads, resolver>>
    BY <1>1, <1>2, <1>4
  <2>2. /\ [creator |-> u, status |-> "loading"] \in Loads
        /\ loads \in Seq(Loads) /\ Len(loads) \in Nat /\ DOMAIN loads = 1 .. Len(loads)
        /\ resolver \in 0 .. Len(loads)
    BY <1>2 DEF Loads, LoadsInv
  <2>3. resolver' \in Nat \ {0} /\ resolver' \in 1 .. Len(loads') /\ loads' \in Seq(Loads)
    BY <2>1, <2>2
  <2>4. /\ to \in UseRecords /\ to.stage = "awaiting" /\ to.load = resolver'
        /\ to.outcome = "none"
    BY <1>2, <2>3 DEF UseRecords, UseStages
  <2> HIDE DEF to
  <2>5. UseInv(to)
    BY <1>2, <2>4 DEF UseInv, Answering
  <2>6. PageInv' /\ UsesInv'
    BY <1>2, <2>1, <2>4, <2>5, UseStepKeeps
  <2>7. \A v \in Uses : uses'[v] = IF v = u THEN to ELSE uses[v]
    BY <1>2, <2>1
  <2>8. CASE resolver = 0
    <3>1. /\ Len(loads') = Len(loads) + 1 /\ resolver' = Len(loads) + 1
          /\ DOMAIN loads' = 1 .. Len(loads) + 1
          /\ loads'[resolver'] = [creator |-> u, status |-> "loading"]
          /\ \A n \in DOMAIN loads : loads'[n] = loads[n]
      BY <2>1, <2>2, <2>8
    <3>2. \A n \in DOMAIN loads : loads[n].status = "failed" /\ n # 0 /\ n # resolver'
      BY <1>2, <2>2, <2>8, <3>1 DEF LoadsInv
    <3>3. \A n \in DOMAIN loads' : n = resolver' \/ n \in DOMAIN loads
      BY <2>2, <3>1
    <3>4. LoadsInv'
      BY <2>3, <2>4, <2>7, <3>1, <3>2, <3>3 DEF LoadsInv
    <3>5. ASSUME NEW v \in Uses
          PROVE  /\ uses'[v].stage = "awaiting" =>
                      /\ uses'[v].load \in DOMAIN loads'
                      /\ loads'[uses'[v].load].creator = v => uses'[v].load = resolver'
                 /\ uses'[v].outcome = "rejected" =>
                      uses'[v].load \in DOMAIN loads' /\ uses'[v].load # resolver'
      <4>1. CASE v = u
        BY <2>2, <2>4, <2>7, <3>1, <4>1
      <4>2. CASE v # u
        <5>1. uses'[v] = uses[v]
          BY <2>7, <4>2
        <5>2. DOMAIN loads \subseteq DOMAIN loads'
          BY <2>2, <3>1
        <5>3. CASE uses[v].stage = "awaiting"
          <6>1. /\ uses[v].load \in DOMAIN loads
                /\ loads[uses[v].load].creator = v => uses[v].load = 0
                /\ uses[v].outcome # "rejected"
            BY <1>2, <2>8, <5>3 DEF JoinInv, UsesInv, UseInv
          <6> QED BY <3>1, <3>2, <5>1, <5>2, <6>1
        <5>4. CASE uses[v].stage # "awaiting"
          BY <1>2, <3>2, <5>1, <5>2, <5>4 DEF JoinInv
        <5> QED BY <5>3, <5>4
      <4> QED BY <4>1, <4>2
    <3>6. JoinInv'
      BY <3>5 DEF JoinInv
    <3> QED BY <2>6, <3>4, <3>6 DEF ToolInv
  <2>9. CASE resolver # 0
    <3>1. loads' = loads /\ resolver' = resolver /\ resolver \in DOMAIN loads
      BY <2>1, <2>2, <2>9
    <3>2. loads[resolver].creator = u => loads[resolver].status = "ready"
      BY <1>2, <2>9 DEF LoadsInv
    <3>3. loads[resolver].creator \in Uses
      BY <1>2, <3>1, LoadFacts
    <3>4. LoadsInv'
      BY <1>2, <2>7, <3>1, <3>2, <3>3 DEF LoadsInv
    <3>5. JoinInv'
      BY <1>2, <2>4, <2>7, <3>1 DEF JoinInv
    <3> QED BY <2>6, <3>4, <3>5 DEF ToolInv
  <2> QED BY <2>8, <2>9
<1> QED BY <1>3, <1>4

LEMMA LoadEndsKeeps ==
  ASSUME ToolInv, NEW n \in DOMAIN loads, LoadEnds(n) PROVE ToolInv'
<1>1. PICK status \in {"ready", "failed"} : loads' = [loads EXCEPT ![n].status = status]
  BY DEF LoadEnds
<1>2. /\ PageInv /\ UsesInv /\ LoadsInv /\ JoinInv /\ loads[n].status = "loading"
      /\ UNCHANGED <<tab, shown, registration, listening, tool, served, resolver, uses>>
  BY DEF ToolInv, LoadEnds, pageLife
<1>3. PageInv' /\ UsesInv'
  BY <1>2 DEF PageInv, Indexed, WellFormed, UsesInv, UseInv
<1>4. /\ loads[n] \in Loads /\ n \in 1 .. Len(loads) /\ loads \in Seq(Loads)
      /\ n = resolver
  BY <1>2, LoadFacts DEF LoadsInv
<1> DEFINE new == [loads[n] EXCEPT !.status = status]
<1>5. new \in Loads /\ new.creator = loads[n].creator /\ new.status = status
  BY <1>4 DEF Loads
<1>6. loads' = [loads EXCEPT ![n] = new]
  BY <1>1
<1> HIDE DEF new
<1>7. /\ loads' \in Seq(Loads) /\ Len(loads') = Len(loads) /\ DOMAIN loads' = DOMAIN loads
      /\ loads'[n] = new /\ \A k \in DOMAIN loads : k # n => loads'[k] = loads[k]
  BY <1>4, <1>5, <1>6
<1>8. \A k \in DOMAIN loads : loads'[k].creator = loads[k].creator
  BY <1>5, <1>7
<1>9. JoinInv'
  BY <1>2, <1>7, <1>8 DEF JoinInv
<1>10. LoadsInv'
  BY <1>2, <1>4, <1>7, <1>8 DEF LoadsInv
<1> QED BY <1>3, <1>9, <1>10 DEF ToolInv

\* The call that made a load that has failed lets go of it; the others go on after it.
LEMMA ResumeKeeps == ASSUME ToolInv, NEW u \in Uses, Resume(u) PROVE ToolInv'
<1> DEFINE n == uses[u].load
           to == IF loads[n].status = "failed" THEN Outcome(uses[u], "rejected")
                 ELSE IF uses[u].aborted THEN Outcome(uses[u], "aborted")
                 ELSE IF uses[u].reference = "blank" THEN Outcome(uses[u], "invalid_reference")
                 ELSE [uses[u] EXCEPT !.stage = "asking", !.asked = 1]
<1>1. /\ UsesInv /\ LoadsInv /\ JoinInv /\ UNCHANGED <<pageLife, served>> /\ loads' = loads
      /\ uses \in [Uses -> UseRecords] /\ uses[u] \in UseRecords /\ UseInv(uses[u])
      /\ uses[u].stage = "awaiting" /\ uses[u].outcome = "none"
      /\ resolver' = KeptPromise(u) /\ loads[n].status # "loading"
      /\ loads[n].creator = u \/ uses[loads[n].creator].stage # "awaiting"
  BY DEF ToolInv, UsesInv, UseInv, Resume
<1>2. uses' = [uses EXCEPT ![u] = to]
  BY <1>1 DEF Resume
<1>3. /\ to \in UseRecords /\ to.load = n /\ to.stage # "awaiting"
      /\ to.outcome = "rejected" <=> loads[n].status = "failed"
      /\ \/ to.stage = "ended" /\ ~Answering(to)
         \/ to.stage = "asking" /\ to.asked = 1 /\ to.outcome = "none"
  BY <1>1 DEF Outcome, UseRecords, UseStages, Outcomes, Answering
<1> HIDE DEF to
<1>4. UseInv(to)
  BY <1>1, <1>3 DEF UseInv, Answering
<1>5. PageInv' /\ UsesInv'
  BY <1>1, <1>2, <1>3, <1>4, UseStepKeeps
<1>6. \A v \in Uses : uses'[v] = IF v = u THEN to ELSE uses[v]
  BY <1>1, <1>2
<1>7. /\ n \in DOMAIN loads
      /\ loads[n].creator = u => n = resolver
      /\ DOMAIN loads = 1 .. Len(loads) /\ resolver \in 0 .. Len(loads) /\ Len(loads) \in Nat
      /\ n # 0
  BY <1>1 DEF JoinInv, LoadsInv
<1>8. resolver # 0 => loads[resolver].creator \in Uses
  BY <1>1, <1>7, LoadFacts
<1>9. CASE loads[n].status = "failed" /\ loads[n].creator = u
  <2>1. resolver' = 0 /\ n = resolver
    BY <1>1, <1>7, <1>9 DEF KeptPromise
  <2>2. LoadsInv'
    BY <1>1, <1>7, <1>9, <2>1 DEF LoadsInv
  <2>3. JoinInv'
    BY <1>1, <1>3, <1>6, <1>7, <1>9, <2>1 DEF JoinInv
  <2> QED BY <1>5, <2>2, <2>3 DEF ToolInv
<1>10. CASE ~(loads[n].status = "failed" /\ loads[n].creator = u)
  <2>1. resolver' = resolver
    BY <1>1, <1>10 DEF KeptPromise
  <2>2. resolver # 0 /\ loads[resolver].status # "ready" => loads[resolver].creator # u
    <3>1. SUFFICES ASSUME resolver # 0, loads[resolver].status # "ready",
                          loads[resolver].creator = u
                   PROVE  FALSE
      OBVIOUS
    <3>2. n = resolver
      BY <1>1, <3>1 DEF LoadsInv
    <3>3. loads[n].status \in {"loading", "ready", "failed"}
      BY <1>1, <1>7, LoadFacts
    <3> QED BY <1>1, <1>10, <3>1, <3>2, <3>3
  <2>3. LoadsInv'
    BY <1>1, <1>6, <1>8, <2>1, <2>2 DEF LoadsInv
  <2>4. loads[n].status = "failed" => n # resolver
    <3>1. SUFFICES ASSUME loads[n].status = "failed", n = resolver PROVE FALSE
      OBVIOUS
    <3>2. uses[loads[n].creator].stage = "awaiting"
      BY <1>1, <1>7, <3>1 DEF LoadsInv
    <3> QED BY <1>1, <1>10, <3>1, <3>2
  <2>5. JoinInv'
    BY <1>1, <1>3, <1>6, <1>7, <2>1, <2>4 DEF JoinInv
  <2> QED BY <1>5, <2>3, <2>5 DEF ToolInv
<1> QED BY <1>9, <1>10

\* The query module answers, or reports an error; a call is aborted.
LEMMA LaterKeeps ==
  ASSUME ToolInv, NEW u \in Uses, QueryEnds(u) \/ ReportEnds(u) \/ AbortUse(u)
  PROVE  ToolInv'
<1>1. /\ UsesInv /\ UNCHANGED <<pageLife, served, loads, resolver>>
      /\ uses \in [Uses -> UseRecords] /\ uses[u] \in UseRecords /\ UseInv(uses[u])
      /\ uses[u].stage # "idle"
  BY DEF ToolInv, UsesInv, QueryEnds, ReportEnds, AbortUse
<1>2. ASSUME NEW to \in UseRecords, uses' = [uses EXCEPT ![u] = to], UseInv(to),
             to.load = uses[u].load,
             \/ uses[u].stage # "awaiting" /\ to.stage # "awaiting" /\ to.outcome # "rejected"
             \/ to.stage = uses[u].stage /\ to.outcome = uses[u].outcome
      PROVE  ToolInv'
  BY <1>1, <1>2, UseStepKeeps, LaterStepKeeps DEF ToolInv
<1>3. ASSUME NEW outcome \in Outcomes \ {"rejected", "found", "not_found", "ambiguous"},
             uses[u].stage \in {"asking", "reporting"},
             uses' = [uses EXCEPT ![u] = Outcome(uses[u], outcome)]
      PROVE  ToolInv'
  <2> DEFINE to == Outcome(uses[u], outcome)
  <2>1. /\ to \in UseRecords /\ to.load = uses[u].load /\ to.stage = "ended"
        /\ to.outcome = outcome
    BY <1>1 DEF Outcome, UseRecords, UseStages
  <2>2. uses' = [uses EXCEPT ![u] = to]
    BY <1>3
  <2> HIDE DEF to
  <2>3. UseInv(to)
    BY <1>1, <1>3, <2>1 DEF UseInv, Answering
  <2> QED BY <1>2, <1>3, <2>1, <2>2, <2>3
<1>4. CASE ReportEnds(u)
  <2> DEFINE outcome == IF uses[u].aborted THEN "aborted" ELSE "failure"
  <2>1. outcome \in Outcomes \ {"rejected", "found", "not_found", "ambiguous"}
    BY DEF Outcomes
  <2>2. uses' = [uses EXCEPT ![u] = Outcome(uses[u], outcome)] /\ uses[u].stage = "reporting"
    BY <1>4 DEF ReportEnds
  <2> QED BY <1>3, <2>1, <2>2
<1>5. CASE AbortUse(u)
  <2> DEFINE to == [uses[u] EXCEPT !.aborted = TRUE]
  <2>1. /\ to \in UseRecords /\ to.load = uses[u].load /\ to.stage = uses[u].stage
        /\ to.outcome = uses[u].outcome /\ to.asked = uses[u].asked
    BY <1>1 DEF UseRecords
  <2>2. uses' = [uses EXCEPT ![u] = to] /\ uses[u].stage # "ended"
    BY <1>5 DEF AbortUse
  <2> HIDE DEF to
  <2>3. UseInv(to)
    BY <1>1, <2>1, <2>2 DEF UseInv, Answering
  <2> QED BY <1>2, <2>1, <2>2, <2>3
<1>6. CASE QueryEnds(u)
  <2>1. /\ uses[u].stage = "asking" /\ uses[u].outcome = "none" /\ uses[u].asked \in {1, 2}
        /\ WellFormed(shown) /\ shown.version \in Versions
    <3>1. uses[u].stage = "asking" /\ shown \in Documents
      BY <1>6 DEF QueryEnds, ToolInv, PageInv
    <3>2. shown.version \in Versions \cup {Malformed}
      BY <3>1 DEF Documents
    <3> QED BY <1>1, <3>1, <3>2 DEF UseInv, WellFormed
  <2>2. CASE uses' = [uses EXCEPT ![u] = Outcome(@, "aborted")]
    <3>1. "aborted" \in Outcomes \ {"rejected", "found", "not_found", "ambiguous"}
      BY DEF Outcomes
    <3> QED BY <1>3, <2>1, <2>2, <3>1
  <2>3. CASE uses' = [uses EXCEPT ![u] = Outcome(@, "failure")]
    <3>1. "failure" \in Outcomes \ {"rejected", "found", "not_found", "ambiguous"}
      BY DEF Outcomes
    <3> QED BY <1>3, <2>1, <2>3, <3>1
  <2>4. CASE uses' = [uses EXCEPT ![u].stage = "reporting"]
    <3> DEFINE to == [uses[u] EXCEPT !.stage = "reporting"]
    <3>1. /\ to \in UseRecords /\ to.load = uses[u].load /\ to.stage = "reporting"
          /\ to.outcome = uses[u].outcome /\ to.asked = uses[u].asked
      BY <1>1 DEF UseRecords, UseStages
    <3>2. uses' = [uses EXCEPT ![u] = to]
      BY <2>4
    <3> HIDE DEF to
    <3>3. UseInv(to)
      BY <1>1, <2>1, <3>1 DEF UseInv, Answering
    <3> QED BY <1>2, <2>1, <3>1, <3>2, <3>3
  <2>5. ASSUME NEW status \in {"found", "not_found", "ambiguous"}, ~uses[u].aborted,
               uses' = [uses EXCEPT ![u] = Answered(@, status)]
        PROVE  ToolInv'
    <3>1. CASE status = "not_found" /\ uses[u].reference = "uuid_urn" /\ uses[u].asked = 1
      <4> DEFINE to == [uses[u] EXCEPT !.asked = 2]
      <4>1. /\ to \in UseRecords /\ to.load = uses[u].load /\ to.stage = "asking"
            /\ to.outcome = "none" /\ to.asked = 2
        BY <1>1, <2>1 DEF UseRecords
      <4>2. uses' = [uses EXCEPT ![u] = to]
        BY <2>5, <3>1 DEF Answered
      <4> HIDE DEF to
      <4>3. UseInv(to)
        BY <1>1, <2>1, <4>1 DEF UseInv, Answering
      <4> QED BY <1>2, <2>1, <4>1, <4>2, <4>3
    <3>2. CASE /\ ~(status = "not_found" /\ uses[u].reference = "uuid_urn" /\ uses[u].asked = 1)
               /\ served[Selected] # shown.version
      <4>1. uses' = [uses EXCEPT ![u] = Outcome(uses[u], "mismatch")]
        BY <2>5, <3>2 DEF Answered
      <4>2. "mismatch" \in Outcomes \ {"rejected", "found", "not_found", "ambiguous"}
        BY DEF Outcomes
      <4> QED BY <1>3, <2>1, <4>1, <4>2
    <3>3. CASE /\ ~(status = "not_found" /\ uses[u].reference = "uuid_urn" /\ uses[u].asked = 1)
               /\ served[Selected] = shown.version
      <4> DEFINE to == [Outcome(uses[u], status) EXCEPT !.release = served[Selected]]
      <4>0. served[Selected] \in Nat /\ status \in Outcomes
        BY <2>1, <3>3, ToolAssumption DEF Outcomes
      <4>1. /\ to \in UseRecords /\ to.load = uses[u].load /\ to.stage = "ended"
            /\ to.outcome = status /\ to.asked = uses[u].asked
            /\ to.reference = uses[u].reference /\ to.aborted = uses[u].aborted
            /\ to.release = served[Selected]
        BY <1>1, <4>0 DEF Outcome, UseRecords, UseStages
      <4>2. uses' = [uses EXCEPT ![u] = to]
        BY <2>5, <3>3 DEF Answered
      <4> HIDE DEF to
      <4>3. UseInv(to)
        BY <1>1, <2>1, <2>5, <3>3, <4>1 DEF UseInv, Answering
      <4>4. to.stage # "awaiting" /\ to.outcome # "rejected" /\ uses[u].stage # "awaiting"
        BY <2>1, <2>5, <4>1
      <4> QED BY <1>2, <4>1, <4>2, <4>3, <4>4
    <3> QED BY <3>1, <3>2, <3>3
  <2>6. \/ uses' = [uses EXCEPT ![u] = Outcome(@, "aborted")]
        \/ uses' = [uses EXCEPT ![u].stage = "reporting"]
        \/ uses' = [uses EXCEPT ![u] = Outcome(@, "failure")]
        \/ /\ ~uses[u].aborted
           /\ \E status \in {"found", "not_found", "ambiguous"} :
                uses' = [uses EXCEPT ![u] = Answered(@, status)]
    BY <1>6 DEF QueryEnds
  <2> QED BY <2>2, <2>3, <2>4, <2>5, <2>6
<1> QED BY <1>4, <1>5, <1>6

LEMMA ToolKeeps == ASSUME ToolInv, [ToolNext]_toolVars PROVE ToolInv'
<1>1. CASE Render \/ Import \/ RegisterTool \/ PageHide \/ PageShow \/ Publish
  BY <1>1, PageStepKeeps
<1>2. CASE \E u \in Uses : Execute(u) \/ Resume(u) \/ QueryEnds(u) \/ ReportEnds(u) \/ AbortUse(u)
  BY <1>2, ExecuteKeeps, ResumeKeeps, LaterKeeps
<1>3. CASE \E n \in DOMAIN loads : LoadEnds(n)
  BY <1>3, LoadEndsKeeps
<1>4. CASE UNCHANGED toolVars
  BY <1>4 DEF toolVars, pageLife, ToolInv, PageInv, UsesInv, UseInv, LoadsInv, JoinInv,
              Indexed, WellFormed
<1> QED BY <1>1, <1>2, <1>3, <1>4 DEF ToolNext

LEMMA ToolIsHonest ==
  ASSUME ToolInv PROVE ToolBelongsToPage /\ LoadsAreRetried /\ AnswersAreOfDisplayed
<1>1. ToolBelongsToPage
  BY DEF ToolInv, PageInv, ToolBelongsToPage
<1>2. AnswersAreOfDisplayed
  BY DEF ToolInv, UsesInv, UseInv, Answering, AnswersAreOfDisplayed
<1>3. LoadsAreRetried
  <2> DEFINE kept == {n \in DOMAIN loads : loads[n].status # "failed"}
  <2>1. kept \subseteq {resolver}
    BY DEF ToolInv, LoadsInv
  <2>2. IsFiniteSet({resolver}) /\ Cardinality({resolver}) = 1
    BY FS_Singleton
  <2>3. Cardinality(kept) <= 1
    BY <2>1, <2>2, FS_Subset
  <2>4. \A u \in Uses : uses[u].outcome = "rejected" => uses[u].load # resolver
    BY DEF ToolInv, JoinInv
  <2> QED BY <2>3, <2>4 DEF LoadsAreRetried
<1> QED BY <1>1, <1>2, <1>3

\* The tool belongs to its page, loads are shared and tried again, and answers are about the
\* document: for any calls, versions and number of loads.
THEOREM ToolIsOfItsPage ==
  ToolSpec => [](ToolBelongsToPage /\ LoadsAreRetried /\ AnswersAreOfDisplayed)
<1>1. ToolInit => ToolInv
  BY ToolBegins
<1>2. ToolInv /\ [ToolNext]_toolVars => ToolInv'
  BY ToolKeeps
<1>3. ToolInv => ToolBelongsToPage /\ LoadsAreRetried /\ AnswersAreOfDisplayed
  BY ToolIsHonest
<1> QED BY <1>1, <1>2, <1>3, PTL DEF ToolSpec

-----------------------------------------------------------------------------
(* The delivery                                                            *)

DeliveryInv == CheckPlanInv /\ ReuseInv /\ WebsiteInv /\ ToolInv

\* What becomes of a revision is sound in any interleaving of its parts.
THEOREM DeliveryIsSafe == DeliverySpec => []DeliverySafe
<1>1. DeliveryInit => DeliveryInv
  BY ChecksBegin, ReuseBegins, WebsiteBegins, ToolBegins DEF DeliveryInit, DeliveryInv
<1>2. DeliveryInv /\ [DeliveryNext]_deliveryVars => DeliveryInv'
  <2>1. [DeliveryNext]_deliveryVars =>
          /\ [CheckPlanNext]_planVars /\ [ReuseNext]_reuseVars
          /\ [WebsiteNext]_websiteVars /\ [ToolNext]_toolVars
    BY DEF DeliveryNext, deliveryVars
  <2> QED BY <2>1, ChecksKeep, ReuseKeeps, WebsiteKeeps, ToolKeeps DEF DeliveryInv
<1>3. DeliveryInv => DeliverySafe
  BY ChecksAreSafe, ReuseIsSafe, WebsiteIsHonest, ToolIsHonest DEF DeliveryInv, DeliverySafe
<1> QED BY <1>1, <1>2, <1>3, PTL DEF DeliverySpec

-----------------------------------------------------------------------------
(* The pages of a search                                                   *)

-----------------------------------------------------------------------------
(* The pages of a search.  What has been delivered is all that comes       *)
(* before the cursor, and with the page that is being filled all that      *)
(* comes before the match that is read next.                               *)

Item == Nat \X Nat
InOrder(s) == \A j, k \in DOMAIN s : j < k => Precedes(s[j], s[k])
Below(m, d) == {x \in Expected : x[1] < m \/ (x[1] = m /\ x[2] < d)}

\* The inductive invariant.
CursorType ==
  \/ position \in {Begin, End}
  \/ /\ position \in [match : Nat, definition : Nat] /\ position.match \in DOMAIN ranking
     /\ position.definition \in 0..Len(ranking[position.match].definitions)
PageTypes ==
  /\ ranking \in Seq(Matches) /\ delivered \in Seq(Item) /\ CursorType
  /\ page # Begin =>
       /\ DOMAIN page = {"index", "items", "groups", "bytes", "candidates", "budget", "count"}
       /\ page.index \in 1..(Len(ranking) + 1) /\ page.items \in Seq(Item)
DeliveredSoFar ==
  /\ InOrder(delivered)
  /\ position = Begin => delivered = <<>>
  /\ position = End => ToSet(delivered) = Expected /\ page = Begin
  /\ position \notin {Begin, End} =>
       ToSet(delivered) = Below(position.match, position.definition)

\* The definition that is read next, 0 for all of the match.
Resumed == IF position # Begin /\ position.match = page.index THEN position.definition ELSE 0
FilledTo(items, m, d) == /\ items \in Seq(Item) /\ InOrder(delivered \o items)
                         /\ ToSet(delivered \o items) = Below(m, d)
PageSoFar ==
  page # Begin => /\ position # Begin => position.match <= page.index
                  /\ page.items # <<>> => Resumed = 0
                  /\ FilledTo(page.items, page.index, Resumed)
PagingInv == PageTypes /\ DeliveredSoFar /\ PageSoFar

\* Items are put in order behind others that come before them.
LEMMA JoinedInOrder ==
  ASSUME NEW s \in Seq(Item), NEW t \in Seq(Item), InOrder(s), InOrder(t),
         \A x \in ToSet(s), y \in ToSet(t) : Precedes(x, y)
  PROVE  /\ s \o t \in Seq(Item) /\ InOrder(s \o t)
         /\ ToSet(s \o t) = ToSet(s) \cup ToSet(t)
<1>1. /\ s \o t \in Seq(Item) /\ DOMAIN (s \o t) = 1..(Len(s) + Len(t))
      /\ Len(s) \in Nat /\ Len(t) \in Nat /\ DOMAIN s = 1..Len(s) /\ DOMAIN t = 1..Len(t)
  OBVIOUS
<1>2. \A k \in 1..Len(s) : (s \o t)[k] = s[k]
  OBVIOUS
<1>3. \A k \in 1..Len(t) : (s \o t)[Len(s) + k] = t[k]
  OBVIOUS
<1>4. \A k \in DOMAIN (s \o t) : \/ k \in DOMAIN s
                                 \/ k - Len(s) \in DOMAIN t /\ k = Len(s) + (k - Len(s))
  BY <1>1
<1>5. \A k \in DOMAIN t : Len(s) + k \in DOMAIN (s \o t)
  BY <1>1
<1>6. ToSet(s \o t) = ToSet(s) \cup ToSet(t)
  <2>1. ASSUME NEW x \in ToSet(s \o t) PROVE x \in ToSet(s) \cup ToSet(t)
    <3>1. PICK k \in DOMAIN (s \o t) : x = (s \o t)[k]
      BY DEF ToSet
    <3>2. CASE k \in DOMAIN s
      BY <1>1, <1>2, <3>1, <3>2 DEF ToSet
    <3>3. CASE k - Len(s) \in DOMAIN t /\ k = Len(s) + (k - Len(s))
      <4>1. (s \o t)[k] = t[k - Len(s)]
        BY <1>1, <1>3, <3>3
      <4> QED BY <3>1, <3>3, <4>1 DEF ToSet
    <3> QED BY <1>4, <3>1, <3>2, <3>3
  <2>2. ASSUME NEW x \in ToSet(s) PROVE x \in ToSet(s \o t)
    BY <1>1, <1>2 DEF ToSet
  <2>3. ASSUME NEW x \in ToSet(t) PROVE x \in ToSet(s \o t)
    BY <1>1, <1>3, <1>5 DEF ToSet
  <2> QED BY <2>1, <2>2, <2>3
<1>7. ASSUME NEW j \in DOMAIN (s \o t), NEW k \in DOMAIN (s \o t), j < k
      PROVE  Precedes((s \o t)[j], (s \o t)[k])
  <2>1. CASE k \in DOMAIN s
    <3>1. j \in DOMAIN s
      BY <1>1, <1>7, <2>1
    <3> QED BY <1>1, <1>2, <1>7, <2>1, <3>1 DEF InOrder
  <2>2. CASE j \in DOMAIN s /\ k \notin DOMAIN s
    <3>1. (s \o t)[k] = t[k - Len(s)] /\ k - Len(s) \in DOMAIN t
      BY <1>1, <1>3, <1>4, <2>2
    <3>2. (s \o t)[j] \in ToSet(s) /\ (s \o t)[k] \in ToSet(t)
      BY <1>1, <1>2, <2>2, <3>1 DEF ToSet
    <3> QED BY <3>2
  <2>3. CASE j \notin DOMAIN s /\ k \notin DOMAIN s
    <3>1. /\ (s \o t)[k] = t[k - Len(s)] /\ k - Len(s) \in DOMAIN t
          /\ (s \o t)[j] = t[j - Len(s)] /\ j - Len(s) \in DOMAIN t
      BY <1>1, <1>3, <1>4, <2>3
    <3>2. j - Len(s) < k - Len(s)
      BY <1>1, <1>7
    <3> QED BY <3>1, <3>2 DEF InOrder
  <2> QED BY <2>1, <2>2, <2>3
<1> QED BY <1>1, <1>6, <1>7 DEF InOrder

LEMMA Regrouped ==
  ASSUME NEW s \in Seq(Item), NEW t \in Seq(Item), NEW u \in Seq(Item)
  PROVE  (s \o t) \o u = s \o (t \o u)
BY ConcatAssociative

\* What is known of a match that is read.
LEMMA ReadMatch ==
  ASSUME PagingInv, Reading
  PROVE  /\ page.index \in DOMAIN ranking /\ page.index \in Nat
         /\ Definitions \in Seq(Nat) /\ Len(Definitions) \in Nat
         /\ DOMAIN Definitions = 1..Len(Definitions)
         /\ Resumed \in 0..Len(Definitions) /\ Resumed \in Nat
         /\ Start = IF Resumed > 0 THEN Resumed ELSE 1
         /\ Start \in Nat /\ Start >= 1 /\ Remaining \in Nat
         /\ Definitions = <<>> => Start = 1 /\ Remaining = 0 /\ Resumed = 0
         /\ Definitions # <<>> => Len(Definitions) > 0
         /\ Listed(page.index) = IF ~IsOwned \/ (filtered /\ Definitions = <<>>) THEN {}
                                 ELSE IF Definitions = <<>> THEN {<<page.index, 0>>}
                                 ELSE {<<page.index, d>> : d \in 1..Len(Definitions)}
<1> USE PageAssumption
<1>1. /\ page.index \in DOMAIN ranking /\ page.index \in Nat
      /\ page # Begin /\ position # End /\ CursorType
  BY DEF PagingInv, PageTypes, DeliveredSoFar, Reading
<1>2. ranking[page.index] \in Matches
  BY <1>1 DEF PagingInv, PageTypes
<1>3. ranking[page.index] \in [owned : BOOLEAN, definitions : Seq(Nat)]
  BY <1>2 DEF PageAssumption
<1>4. Definitions \in Seq(Nat)
  BY <1>3 DEF Definitions
<1>5. Len(Definitions) \in Nat /\ DOMAIN Definitions = 1..Len(Definitions)
  BY <1>4
<1>6. Resumed \in 0..Len(Definitions)
  BY <1>1, <1>5 DEF Resumed, CursorType, Definitions
<1>7. Start = IF Resumed > 0 THEN Resumed ELSE 1
  BY <1>6, <1>5 DEF Start, Resumed
<1>8. /\ Definitions = <<>> => Len(Definitions) = 0
      /\ Definitions # <<>> => Len(Definitions) > 0
  BY <1>4, <1>5
<1>9. Start \in Nat /\ Start >= 1 /\ Start <= Len(Definitions) + 1
  BY <1>5, <1>6, <1>7
<1>10. Remaining \in Nat /\ Remaining = Len(Definitions) - Start + 1
  BY <1>5, <1>9 DEF Remaining
<1>11. Definitions = <<>> => Start = 1 /\ Remaining = 0 /\ Resumed = 0
  BY <1>5, <1>6, <1>7, <1>8, <1>10
<1>12. Listed(page.index) = IF ~IsOwned \/ (filtered /\ Definitions = <<>>) THEN {}
                            ELSE IF Definitions = <<>> THEN {<<page.index, 0>>}
                            ELSE {<<page.index, d>> : d \in 1..Len(Definitions)}
  BY <1>5 DEF Listed, IsOwned, Definitions
<1> QED BY <1>1, <1>4, <1>5, <1>6, <1>7, <1>8, <1>9, <1>10, <1>11, <1>12

\* There is a number of definitions that fit.
LEMMA SomeFit ==
  ASSUME PagingInv, Reading
  PROVE  Fitting \in 0..Remaining
<1> DEFINE Stops(n) == n = Remaining \/ ~Fits(n + 1)
           Ends == {n \in Nat : Stops(n)}
<1>1. Remaining \in Nat
  BY ReadMatch
<1>2. Remaining \in Ends
  BY <1>1
<1>3. PICK n \in Ends : \A m \in Ends : n <= m
  BY <1>2, LeastElement
<1>4. n \in Nat /\ n <= Remaining /\ n \in 0..Remaining
  BY <1>1, <1>2, <1>3
<1>5. ASSUME NEW k \in 1..n PROVE Fits(k)
  <2>1. k - 1 \in Nat /\ k - 1 < n /\ (k - 1) + 1 = k /\ k - 1 # Remaining
    BY <1>1, <1>4
  <2>2. k - 1 \notin Ends
    BY <1>3, <1>4, <2>1
  <2> QED BY <2>1, <2>2
<1>6. n < Remaining => ~Fits(n + 1)
  BY <1>1, <1>3, <1>4
<1> HIDE DEF Stops, Ends
<1> QED BY <1>4, <1>5, <1>6 DEF Fitting

\* What the search is about.
LEMMA ExpectedItems ==
  ASSUME PageTypes, NEW x \in Expected
  PROVE  x[1] \in DOMAIN ranking /\ x[1] \in Nat /\ x[2] \in Nat /\ x \in Listed(x[1])
<1>1. PICK m \in DOMAIN ranking : x \in Listed(m)
  BY DEF Expected
<1>2. m \in Nat /\ ranking[m] \in Matches
  BY DEF PageTypes
<1>3. ranking[m].definitions \in Seq(Nat)
  BY <1>2, PageAssumption DEF PageAssumption
<1>4. DOMAIN ranking[m].definitions \subseteq Nat
  BY <1>3
<1>5. x[1] = m /\ x[2] \in Nat
  BY <1>1, <1>4 DEF Listed
<1> QED BY <1>1, <1>2, <1>5

\* The items of the next definitions follow on what has been filled.
LEMMA ItemsFill ==
  ASSUME PagingInv, Wanted, NEW n \in 0..Remaining,
         NEW items, items = page.items \o Items(n)
  PROVE  /\ Definitions # <<>> => FilledTo(items, page.index, Start + n)
         /\ n = Remaining => FilledTo(items, page.index + 1, 0)
<1> DEFINE i == page.index
           old == delivered \o page.items
           added == Items(n)
<1>1. /\ Reading /\ IsOwned /\ (filtered => Definitions # <<>>)
      /\ page # Begin /\ delivered \in Seq(Item) /\ page.items \in Seq(Item)
  BY DEF Wanted, Readable, Reading, PagingInv, PageTypes
<1>2. /\ i \in DOMAIN ranking /\ i \in Nat
      /\ Definitions \in Seq(Nat) /\ Len(Definitions) \in Nat
      /\ DOMAIN Definitions = 1..Len(Definitions)
      /\ Start = IF Resumed > 0 THEN Resumed ELSE 1
      /\ Resumed \in Nat /\ Resumed <= Len(Definitions)
      /\ Start \in Nat /\ Start >= 1 /\ Remaining \in Nat
      /\ Definitions = <<>> => Start = 1 /\ Remaining = 0 /\ Resumed = 0
      /\ Definitions # <<>> => Len(Definitions) > 0
      /\ Listed(i) = IF Definitions = <<>> THEN {<<i, 0>>}
                     ELSE {<<i, d>> : d \in 1..Len(Definitions)}
  BY <1>1, ReadMatch
<1>3. n \in Nat /\ Remaining = Len(Definitions) - Start + 1 /\ n <= Remaining
  BY <1>2 DEF Remaining
<1>4. InOrder(old) /\ ToSet(old) = Below(i, Resumed) /\ old \in Seq(Item)
  BY <1>1 DEF PagingInv, PageSoFar, FilledTo
<1>5. \A x \in Expected : x[1] \in Nat /\ x[2] \in Nat /\ x \in Listed(x[1])
  BY ExpectedItems DEF PagingInv
<1>6. \A x \in Expected : x[1] = i => x \in Listed(i)
  BY <1>5
<1>7. Listed(i) \subseteq Expected
  BY <1>2 DEF Expected
<1>8. \A x \in Expected : x[1] \in Nat /\ x[2] \in Nat
  BY <1>5
<1>9. CASE Definitions = <<>>
  <2>1. added = <<<<i, 0>>>>
    BY <1>9 DEF Items
  <2>2. added \in Seq(Item) /\ InOrder(added) /\ ToSet(added) = {<<i, 0>>}
    BY <1>2, <2>1 DEF Item, InOrder, ToSet
  <2>3. \A x \in Below(i, 0), y \in {<<i, 0>>} : Precedes(x, y)
    BY <1>2, <1>6, <1>9 DEF Below, Precedes
  <2>4. Below(i + 1, 0) = Below(i, 0) \cup {<<i, 0>>}
    <3>1. ASSUME NEW x \in Below(i + 1, 0) PROVE x \in Below(i, 0) \cup {<<i, 0>>}
      <4>1. x \in Expected /\ x[1] \in Nat /\ x[2] \in Nat
            /\ (x[1] < i + 1 \/ (x[1] = i + 1 /\ x[2] < 0))
        BY <1>8 DEF Below
      <4>2. x[1] < i \/ x[1] = i
        BY <1>2, <4>1
      <4>3. x[1] = i => x = <<i, 0>>
        BY <1>2, <1>6, <1>9, <4>1
      <4> QED BY <4>1, <4>2, <4>3 DEF Below
    <3>2. ASSUME NEW x \in Below(i, 0) \cup {<<i, 0>>} PROVE x \in Below(i + 1, 0)
      BY <1>2, <1>7, <1>8, <1>9 DEF Below
    <3> QED BY <3>1, <3>2
  <2> HIDE DEF added, old
  <2>5. /\ old \o added \in Seq(Item) /\ InOrder(old \o added)
        /\ ToSet(old \o added) = Below(i + 1, 0)
    <3>1. ToSet(old) = Below(i, 0)
      BY <1>2, <1>4, <1>9
    <3>2. \A x \in ToSet(old), y \in ToSet(added) : Precedes(x, y)
      BY <2>2, <2>3, <3>1
    <3>3. /\ old \o added \in Seq(Item) /\ InOrder(old \o added)
          /\ ToSet(old \o added) = ToSet(old) \cup ToSet(added)
      BY <1>4, <2>2, <3>2, JoinedInOrder
    <3> QED BY <2>2, <2>4, <3>1, <3>3
  <2>6. delivered \o items = old \o added /\ items \in Seq(Item)
    <3>1. items = page.items \o added
      BY DEF added
    <3>2. delivered \o (page.items \o added) = (delivered \o page.items) \o added
      BY <1>1, <2>2, Regrouped
    <3> QED BY <1>1, <2>2, <3>1, <3>2 DEF old
  <2> QED BY <1>9, <2>5, <2>6 DEF FilledTo
<1>10. CASE Definitions # <<>>
  <2>1. added = [k \in 1..n |-> <<i, Start + k - 1>>]
    BY <1>10 DEF Items
  <2>2. added \in Seq(Item)
    BY <1>2, <1>3, <2>1 DEF Item
  <2>3. InOrder(added)
    BY <1>2, <1>3, <2>1 DEF InOrder, Precedes
  <2>4. ToSet(added) = {<<i, d>> : d \in Start..(Start + n - 1)}
    <3>1. ASSUME NEW x \in ToSet(added) PROVE x \in {<<i, d>> : d \in Start..(Start + n - 1)}
      BY <1>2, <1>3, <2>1 DEF ToSet
    <3>2. ASSUME NEW d \in Start..(Start + n - 1) PROVE <<i, d>> \in ToSet(added)
      <4>1. d - Start + 1 \in 1..n /\ Start + (d - Start + 1) - 1 = d
        BY <1>2, <1>3
      <4> QED BY <2>1, <4>1 DEF ToSet
    <3> QED BY <3>1, <3>2
  <2>5. \A x \in Expected : x[1] = i => x[2] \in 1..Len(Definitions) /\ x = <<i, x[2]>>
    BY <1>2, <1>6, <1>10
  <2>6. \A x \in Below(i, Resumed), y \in ToSet(added) : Precedes(x, y)
    <3> SUFFICES ASSUME NEW x \in Below(i, Resumed), NEW d \in Start..(Start + n - 1)
                 PROVE  Precedes(x, <<i, d>>)
      BY <2>4
    <3>1. x \in Expected /\ (x[1] < i \/ (x[1] = i /\ x[2] < Resumed))
      BY DEF Below
    <3>2. x[1] = i => x[2] \in Nat
      BY <1>2, <2>5, <3>1
    <3> QED BY <1>2, <1>3, <3>1, <3>2 DEF Precedes
  <2>7. Below(i, Start + n) = Below(i, Resumed) \cup ToSet(added)
    <3>1. ASSUME NEW x \in Below(i, Start + n)
          PROVE  x \in Below(i, Resumed) \cup {<<i, d>> : d \in Start..(Start + n - 1)}
      <4>1. x \in Expected /\ (x[1] < i \/ (x[1] = i /\ x[2] < Start + n))
        BY DEF Below
      <4>2. CASE x[1] < i
        BY <4>1, <4>2 DEF Below
      <4>3. CASE x[1] = i
        <5>1. x[2] \in 1..Len(Definitions) /\ x = <<i, x[2]>> /\ x[2] < Start + n
          BY <1>2, <2>5, <4>1, <4>3
        <5>2. x[2] < Resumed \/ x[2] \in Start..(Start + n - 1)
          BY <1>2, <1>3, <5>1
        <5> QED BY <4>1, <4>3, <5>1, <5>2 DEF Below
      <4> QED BY <4>1, <4>2, <4>3
    <3>2. ASSUME NEW x \in Below(i, Resumed) PROVE x \in Below(i, Start + n)
      <4>1. x \in Expected /\ (x[1] < i \/ (x[1] = i /\ x[2] < Resumed))
        BY DEF Below
      <4>2. x[1] = i => x[2] \in Nat
        BY <1>2, <2>5, <4>1
      <4>3. x[1] < i \/ (x[1] = i /\ x[2] < Start + n)
        BY <1>2, <1>3, <4>1, <4>2
      <4> QED BY <4>1, <4>3 DEF Below
    <3>3. ASSUME NEW d \in Start..(Start + n - 1) PROVE <<i, d>> \in Below(i, Start + n)
      <4>1. d \in 1..Len(Definitions) /\ d < Start + n
        BY <1>2, <1>3
      <4>2. <<i, d>> \in Expected
        BY <1>2, <1>7, <1>10, <4>1
      <4> QED BY <4>1, <4>2 DEF Below
    <3> QED BY <2>4, <3>1, <3>2, <3>3
  <2>8. n = Remaining => Below(i, Start + n) = Below(i + 1, 0)
    <3> SUFFICES ASSUME n = Remaining PROVE Below(i, Start + n) = Below(i + 1, 0)
      OBVIOUS
    <3>1. Start + n = Len(Definitions) + 1
      BY <1>2, <1>3
    <3>2. \A x \in Expected : (x[1] = i => x[2] < Start + n) /\ (x[1] \in Nat)
      BY <1>2, <1>8, <2>5, <3>1
    <3> QED BY <1>2, <1>8, <3>2 DEF Below
  <2> HIDE DEF added, old
  <2>9. /\ old \o added \in Seq(Item) /\ InOrder(old \o added)
        /\ ToSet(old \o added) = Below(i, Start + n)
    BY <1>4, <2>2, <2>3, <2>6, <2>7, JoinedInOrder
  <2>10. delivered \o items = old \o added /\ items \in Seq(Item)
    <3>1. items = page.items \o added
      BY DEF added
    <3>2. delivered \o (page.items \o added) = (delivered \o page.items) \o added
      BY <1>1, <2>2, Regrouped
    <3> QED BY <1>1, <2>2, <3>1, <3>2 DEF old
  <2> QED BY <1>10, <2>8, <2>9, <2>10 DEF FilledTo
<1> QED BY <1>9, <1>10

\* A match that is not listed leaves nothing out.
LEMMA NothingListed ==
  ASSUME PagingInv, Reading, Listed(page.index) = {}
  PROVE  FilledTo(page.items, page.index + 1, 0)
<1> DEFINE i == page.index
<1>1. i \in Nat /\ page # Begin /\ Resumed \in Nat
  BY ReadMatch DEF Reading
<1>2. FilledTo(page.items, i, Resumed)
  BY <1>1 DEF PagingInv, PageSoFar
<1>3. \A x \in Expected : x[1] # i /\ x[1] \in Nat /\ x[2] \in Nat
  BY ExpectedItems DEF PagingInv
<1>4. Below(i + 1, 0) = Below(i, Resumed)
  BY <1>1, <1>3 DEF Below
<1> QED BY <1>2, <1>4 DEF FilledTo

-----------------------------------------------------------------------------
(* The steps.                                                              *)

\* The ranking is there while a page is filled, and what it lists is what is expected.
LEMMA ExpectedStays ==
  ASSUME UNCHANGED <<ranking, filtered>>
  PROVE  Expected' = Expected /\ \A m, d : Below(m, d)' = Below(m, d)
<1>1. Expected' = Expected
  BY DEF Expected, Listed
<1> QED BY <1>1 DEF Below

\* A page that ends where it has been filled.
LEMMA CutKeeps ==
  ASSUME PagingInv, page # Begin, NEW items, NEW m \in DOMAIN ranking,
         NEW d \in 0..Len(ranking[m].definitions), items # <<>> => FilledTo(items, m, d),
         Cut(items, m, d)
  PROVE  PagingInv'
<1> USE PageAssumption
<1>0. /\ page' = Begin /\ UNCHANGED <<ranking, filtered>>
      /\ Expected' = Expected /\ (\A k, e : Below(k, e)' = Below(k, e))
  BY ExpectedStays DEF Cut
<1>1. CASE items = <<>>
  <2>1. UNCHANGED <<position, delivered>>
    BY <1>1 DEF Cut
  <2>2. PageTypes' /\ PageSoFar'
    BY <1>0, <2>1 DEF PagingInv, PageTypes, CursorType, PageSoFar
  <2>3. DeliveredSoFar'
    BY <1>0, <2>1 DEF PagingInv, DeliveredSoFar, InOrder
  <2> QED BY <2>2, <2>3 DEF PagingInv
<1>2. CASE items # <<>>
  <2>1. /\ position' = [match |-> m, definition |-> d] /\ delivered' = delivered \o items
    BY <1>2 DEF Cut
  <2>2. /\ ranking \in Seq(Matches) /\ delivered \in Seq(Item) /\ items \in Seq(Item)
        /\ InOrder(delivered \o items) /\ ToSet(delivered \o items) = Below(m, d)
    BY <1>2 DEF PagingInv, PageTypes, FilledTo
  <2>3. m \in Nat /\ ranking[m].definitions \in Seq(Nat)
    <3>1. m \in Nat /\ ranking[m] \in Matches
      BY <2>2
    <3> QED BY <3>1 DEF PageAssumption
  <2>4. d \in Nat
    BY <2>3
  <2>5. /\ position' \in [match : Nat, definition : Nat]
        /\ position'.match = m /\ position'.definition = d
    BY <2>1, <2>3, <2>4
  <2>6. position' \notin {Begin, End}
    BY <2>5 DEF PageAssumption
  <2>7. PageTypes'
    <3>1. CursorType'
      BY <1>0, <2>5 DEF CursorType
    <3> QED BY <1>0, <2>1, <2>2, <3>1 DEF PageTypes
  <2>8. DeliveredSoFar'
    <3>1. InOrder(delivered)' /\ ToSet(delivered') = Below(m, d)
      BY <2>1, <2>2 DEF InOrder
    <3>2. ToSet(delivered') = Below(position.match, position.definition)'
      BY <1>0, <2>5, <3>1
    <3> QED BY <2>6, <3>1, <3>2 DEF DeliveredSoFar
  <2>9. PageSoFar'
    BY <1>0 DEF PageSoFar
  <2> QED BY <2>7, <2>8, <2>9 DEF PagingInv
<1> QED BY <1>1, <1>2

\* A page that goes on with the next match.
LEMMA ContinueKeeps ==
  ASSUME PagingInv, Reading, NEW items, NEW groups, NEW size,
         FilledTo(items, page.index + 1, 0),
         \/ Continue(items, groups, size)
         \/ /\ items = page.items /\ page' = [page EXCEPT !.index = @ + 1]
            /\ UNCHANGED <<ranking, filtered, position, delivered>>
  PROVE  PagingInv'
<1> USE PageAssumption
<1>0. /\ UNCHANGED <<ranking, filtered, position, delivered>>
      /\ Expected' = Expected /\ (\A k, e : Below(k, e)' = Below(k, e))
  BY ExpectedStays DEF Continue
<1>1. /\ page # Begin /\ page.index \in DOMAIN ranking /\ page.index \in Nat
      /\ ranking \in Seq(Matches) /\ CursorType
      /\ DOMAIN page = {"index", "items", "groups", "bytes", "candidates", "budget", "count"}
  BY ReadMatch DEF Reading, PagingInv, PageTypes
<1>2. /\ page'.index = page.index + 1 /\ page'.items = items
      /\ DOMAIN page' = {"index", "items", "groups", "bytes", "candidates", "budget", "count"}
  BY <1>1 DEF Continue
<1>3. PageTypes'
  <2>1. page'.index \in 1..(Len(ranking) + 1)
    BY <1>1, <1>2
  <2>2. items \in Seq(Item)
    BY DEF FilledTo
  <2>3. CursorType'
    BY <1>0, <1>1 DEF CursorType
  <2> QED BY <1>0, <1>2, <2>1, <2>2, <2>3 DEF PagingInv, PageTypes
<1>4. position # End
  BY <1>1 DEF PagingInv, DeliveredSoFar
<1>5. DeliveredSoFar'
  BY <1>0, <1>1, <1>4 DEF PagingInv, DeliveredSoFar, InOrder
<1>6. PageSoFar'
  <2>1. position # Begin => position.match \in Nat /\ position.match < page.index + 1
    BY <1>1, <1>4 DEF PagingInv, PageSoFar, CursorType
  <2>2. Resumed' = 0
    BY <1>0, <1>1, <1>2, <2>1 DEF Resumed
  <2>3. FilledTo(page.items, page.index, Resumed)'
    BY <1>0, <1>2, <2>2 DEF FilledTo, InOrder
  <2>4. position # Begin => position.match <= page'.index
    BY <1>1, <1>2, <2>1
  <2> QED BY <1>0, <2>2, <2>3, <2>4 DEF PageSoFar
<1> QED BY <1>3, <1>5, <1>6 DEF PagingInv

LEMMA PagesBegin == PageInit => PagingInv
<1> SUFFICES ASSUME PageInit PROVE PagingInv
  OBVIOUS
<1>1. ToSet(<<>>) = {} /\ InOrder(<<>>)
  BY DEF ToSet, InOrder
<1> QED BY <1>1, PageAssumption
        DEF PageInit, PagingInv, PageTypes, CursorType, DeliveredSoFar, PageSoFar, PageAssumption

LEMMA SearchKeeps == ASSUME PagingInv, Search PROVE PagingInv'
<1>1. ranking' \in Seq(Matches)
  BY DEF Search, BoundedSeq, SeqOf
<1>2. position = Begin /\ page = Begin /\ UNCHANGED <<position, page, delivered>>
  BY DEF Search
<1>3. delivered = <<>> /\ delivered \in Seq(Item)
  BY <1>2 DEF PagingInv, PageTypes, DeliveredSoFar
<1>4. InOrder(delivered)'
  BY <1>2, <1>3 DEF InOrder
<1> QED BY <1>1, <1>2, <1>3, <1>4, PageAssumption
        DEF PagingInv, PageTypes, CursorType, DeliveredSoFar, PageSoFar, PageAssumption

LEMMA AskPageKeeps == ASSUME PagingInv, AskPage PROVE PagingInv'
<1> USE PageAssumption
<1>1. PICK b \in Budgets, n \in Counts :
        page' = [index |-> IF position = Begin THEN 1 ELSE position.match,
                 items |-> <<>>, groups |-> 0, bytes |-> 0, candidates |-> 0,
                 budget |-> b, count |-> n]
  BY DEF AskPage
<1>2. /\ ranking # <<>> /\ position # End /\ UNCHANGED <<ranking, filtered, position, delivered>>
      /\ Expected' = Expected /\ (\A k, e : Below(k, e)' = Below(k, e))
  BY ExpectedStays DEF AskPage
<1>3. /\ ranking \in Seq(Matches) /\ delivered \in Seq(Item) /\ CursorType /\ DeliveredSoFar
      /\ Len(ranking) \in Nat /\ Len(ranking) > 0 /\ DOMAIN ranking = 1..Len(ranking)
  BY <1>2 DEF PagingInv, PageTypes
<1>4. /\ page'.index = IF position = Begin THEN 1 ELSE position.match
      /\ page'.items = <<>>
      /\ DOMAIN page' = {"index", "items", "groups", "bytes", "candidates", "budget", "count"}
  BY <1>1
<1>5. page'.index \in 1..(Len(ranking) + 1) /\ page'.index \in Nat
  BY <1>2, <1>3, <1>4 DEF CursorType
<1>6. PageTypes'
  <2>1. CursorType'
    BY <1>2, <1>3 DEF CursorType
  <2> QED BY <1>2, <1>3, <1>4, <1>5, <2>1 DEF PageTypes
<1>7. DeliveredSoFar'
  BY <1>2, <1>3 DEF DeliveredSoFar, InOrder
<1>8. Resumed' = IF position # Begin THEN position.definition ELSE 0
  BY <1>2, <1>4 DEF Resumed
<1>9. ToSet(delivered) = Below(page'.index, Resumed')
  <2>1. CASE position = Begin
    <3>1. delivered = <<>> /\ ToSet(delivered) = {}
      BY <1>3, <2>1 DEF DeliveredSoFar, ToSet
    <3>2. \A x \in Expected : x[1] \in Nat /\ x[2] \in Nat /\ x[1] >= 1
      BY <1>3, ExpectedItems DEF PagingInv
    <3>3. Below(1, 0) = {}
      BY <3>2 DEF Below
    <3> QED BY <1>4, <1>8, <2>1, <3>1, <3>3
  <2>2. CASE position # Begin
    BY <1>2, <1>3, <1>4, <1>8, <2>2 DEF DeliveredSoFar
  <2> QED BY <2>1, <2>2
<1>10. PageSoFar'
  <2>1. delivered \o <<>> = delivered /\ <<>> \in Seq(Item)
    BY <1>3
  <2>2. FilledTo(page.items, page.index, Resumed)'
    BY <1>2, <1>3, <1>4, <1>9, <2>1 DEF FilledTo, DeliveredSoFar, InOrder
  <2>3. position # Begin => position.match <= page'.index
    BY <1>4, <1>5
  <2> QED BY <1>2, <1>4, <2>2, <2>3 DEF PageSoFar
<1> QED BY <1>6, <1>7, <1>10 DEF PagingInv

LEMMA LastPageKeeps == ASSUME PagingInv, LastPage PROVE PagingInv'
<1>1. /\ page # Begin /\ page.index > Len(ranking) /\ page' = Begin /\ position' = End
      /\ delivered' = delivered \o page.items
      /\ UNCHANGED <<ranking, filtered>> /\ Expected' = Expected
  BY ExpectedStays DEF LastPage
<1>2. /\ delivered \in Seq(Item) /\ page.items \in Seq(Item) /\ ranking \in Seq(Matches)
      /\ page.index \in 1..(Len(ranking) + 1) /\ Len(ranking) \in Nat
      /\ DOMAIN ranking = 1..Len(ranking)
      /\ FilledTo(page.items, page.index, Resumed)
  BY <1>1 DEF PagingInv, PageTypes, PageSoFar
<1>3. \A x \in Expected : x[1] < page.index
  BY <1>1, <1>2, ExpectedItems DEF PagingInv
<1>4. ToSet(delivered') = Expected
  BY <1>1, <1>2, <1>3 DEF FilledTo, Below
<1>5. InOrder(delivered)'
  BY <1>1, <1>2 DEF FilledTo, InOrder
<1>6. delivered' \in Seq(Item)
  BY <1>1, <1>2
<1> QED BY <1>1, <1>2, <1>4, <1>5, <1>6, PageAssumption
        DEF PagingInv, PageTypes, CursorType, DeliveredSoFar, PageSoFar, PageAssumption

LEMMA PagingStepKeeps == ASSUME PagingInv, [PageNext]_pageVars PROVE PagingInv'
<1> DEFINE index == page.index
<1>0. ASSUME Reading PROVE index \in DOMAIN ranking /\ page # Begin /\ ranking \in Seq(Matches)
  BY <1>0, ReadMatch DEF Reading, PagingInv, PageTypes
<1>1. CASE UNCHANGED pageVars
  <2>1. Expected' = Expected /\ (\A k, e : Below(k, e)' = Below(k, e))
    BY <1>1, ExpectedStays DEF pageVars
  <2>2. PageTypes' /\ DeliveredSoFar'
    BY <1>1, <2>1 DEF PagingInv, pageVars, PageTypes, CursorType, DeliveredSoFar, InOrder
  <2>3. PageSoFar'
    BY <1>1, <2>1 DEF PagingInv, pageVars, PageSoFar, FilledTo, InOrder, Resumed
  <2> QED BY <2>2, <2>3 DEF PagingInv
<1>2. CASE PageFails
  <2>1. /\ page' = Begin /\ UNCHANGED <<ranking, filtered, position, delivered>>
        /\ Expected' = Expected /\ (\A k, e : Below(k, e)' = Below(k, e))
    BY <1>2, ExpectedStays DEF PageFails
  <2> QED BY <2>1 DEF PagingInv, PageTypes, CursorType, DeliveredSoFar, InOrder, PageSoFar
<1>3. CASE NotOwned
  <2>1. Reading /\ Listed(index) = {}
    BY <1>3, ReadMatch DEF NotOwned
  <2>2. FilledTo(page.items, index + 1, 0)
    BY <2>1, NothingListed
  <2> QED BY <1>3, <2>1, <2>2, ContinueKeeps DEF NotOwned
<1>4. CASE FilteredOut
  <2>1. Reading /\ Listed(index) = {}
    BY <1>4, ReadMatch DEF FilteredOut, Wanted, Readable
  <2>2. FilledTo(page.items, index + 1, 0)
    BY <2>1, NothingListed
  <2> QED BY <1>4, <2>1, <2>2, ContinueKeeps DEF FilteredOut
<1>5. CASE CandidatesExhausted
  <2>1. Reading /\ Cut(page.items, index, 0)
    BY <1>5 DEF CandidatesExhausted
  <2>2. page.items # <<>> => FilledTo(page.items, index, 0)
    BY <2>1 DEF PagingInv, PageSoFar, Reading
  <2>3. 0 \in 0..Len(ranking[index].definitions)
    BY <2>1, ReadMatch DEF Definitions
  <2> QED BY <1>0, <2>1, <2>2, <2>3, CutKeeps
<1>6. CASE EntityDoesNotFit
  <2> DEFINE d == IF Start <= Len(Definitions) THEN Start ELSE 0
  <2>1. Reading /\ IsOwned /\ Cut(page.items, index, d) /\ Wanted
    BY <1>6 DEF EntityDoesNotFit, Wanted, Readable
  <2>2. /\ d \in 0..Len(ranking[index].definitions)
        /\ Definitions # <<>> => Start <= Len(Definitions) \/ Resumed = 0
        /\ Resumed = 0 => Start = 1
    BY <2>1, ReadMatch DEF Definitions
  <2>3. ASSUME page.items # <<>> PROVE FilledTo(page.items, index, d)
    <3>1. FilledTo(page.items, index, 0) /\ Resumed = 0
      BY <2>1, <2>3 DEF PagingInv, PageSoFar, Reading
    <3>2. d = 0 \/ (d = 1 /\ Definitions # <<>>)
      BY <2>1, <2>2, <3>1, ReadMatch
    <3>3. Definitions # <<>> => Below(index, 1) = Below(index, 0)
      <4> SUFFICES ASSUME Definitions # <<>> PROVE Below(index, 1) = Below(index, 0)
        OBVIOUS
      <4>1. Listed(index) = {<<index, e>> : e \in 1..Len(Definitions)}
        BY <2>1, ReadMatch
      <4>2. \A x \in Expected : x[1] = index => x[2] \in 1..Len(Definitions)
        BY <4>1, ExpectedItems DEF PagingInv
      <4>3. \A x \in Expected : x[1] = index => ~(x[2] < 1) /\ ~(x[2] < 0)
        BY <2>1, <4>2, ReadMatch
      <4> QED BY <4>3 DEF Below
    <3> QED BY <3>1, <3>2, <3>3 DEF FilledTo
  <2> HIDE DEF d
  <2> QED BY <1>0, <2>1, <2>2, <2>3, CutKeeps
<1>7. CASE DefinitionDoesNotFit
  <2> DEFINE items == page.items \o Items(Fitting)
             d == Start + Fitting
  <2>1. Reading /\ Wanted /\ Fitting < Remaining /\ Cut(items, index, d)
    BY <1>7 DEF DefinitionDoesNotFit, Wanted, Readable
  <2>2. Fitting \in 0..Remaining /\ Remaining \in Nat
    BY <2>1, SomeFit, ReadMatch
  <2>3. Definitions # <<>> /\ d \in 0..Len(ranking[index].definitions)
    BY <2>1, <2>2, ReadMatch DEF Definitions, Remaining
  <2>4. FilledTo(items, index, d)
    BY <2>1, <2>2, <2>3, ItemsFill
  <2> HIDE DEF items, d
  <2> QED BY <1>0, <2>1, <2>3, <2>4, CutKeeps
<1>8. CASE MatchFits
  <2> DEFINE items == page.items \o Items(Remaining)
  <2>0. Reading /\ Wanted
    BY <1>8 DEF MatchFits, Wanted, Readable
  <2>1. Reading /\ Wanted /\ Remaining \in 0..Remaining
    <3>1. Remaining \in Nat
      BY <2>0, ReadMatch
    <3> QED BY <2>0, <3>1
  <2>2. FilledTo(items, index + 1, 0)
    BY <2>1, ItemsFill
  <2>3. CASE page.groups + 1 >= page.count /\ index < Len(ranking)
    <3>1. Cut(items, index + 1, 0)
      BY <1>8, <2>3 DEF MatchFits
    <3>2. index + 1 \in DOMAIN ranking
      BY <1>0, <2>1, <2>3
    <3>3. 0 \in 0..Len(ranking[index + 1].definitions)
      <4>1. ranking[index + 1] \in Matches
        BY <1>0, <2>1, <3>2
      <4>2. ranking[index + 1].definitions \in Seq(Nat)
        BY <4>1, PageAssumption DEF PageAssumption
      <4> QED BY <4>2
    <3> HIDE DEF items
    <3> QED BY <1>0, <2>1, <2>2, <3>1, <3>2, <3>3, CutKeeps
  <2>4. CASE ~(page.groups + 1 >= page.count /\ index < Len(ranking))
    <3>1. Continue(items, page.groups + 1,
                   FoldSeq(+, 1, SubSeq(Definitions, Start, Len(Definitions))))
      BY <1>8, <2>4 DEF MatchFits
    <3> HIDE DEF items
    <3> QED BY <2>1, <2>2, <3>1, ContinueKeeps
  <2> QED BY <2>3, <2>4
<1> QED BY <1>1, <1>2, <1>3, <1>4, <1>5, <1>6, <1>7, <1>8, SearchKeeps, AskPageKeeps,
           LastPageKeeps
        DEF PageNext

\* Following the cursors delivers every match with each of its definitions once and in
\* order, for any ranking, limits, cuts and lost pages.
THEOREM PagesAreComplete == PageSpec => []PagesCoverOnce
<1>1. PagingInv => PagesCoverOnce
  <2> SUFFICES ASSUME PagingInv PROVE PagesCoverOnce
    OBVIOUS
  <2>1. CursorType /\ DeliveredSoFar /\ InOrder(delivered)
    BY DEF PagingInv, PageTypes, DeliveredSoFar
  <2>2. CASE position = Begin
    <3>1. ToSet(delivered) = {}
      BY <2>1, <2>2 DEF DeliveredSoFar, ToSet
    <3> QED BY <2>1, <2>2, <3>1, PageAssumption DEF PagesCoverOnce, InOrder, PageAssumption
  <2>3. CASE position = End
    BY <2>1, <2>3 DEF DeliveredSoFar, PagesCoverOnce, InOrder
  <2>4. CASE position \notin {Begin, End}
    <3>1. /\ ToSet(delivered) = Below(position.match, position.definition)
          /\ position.match \in Nat /\ position.definition \in Nat
      BY <2>1, <2>4 DEF DeliveredSoFar, CursorType
    <3>2. \A x \in Expected : x[1] \in Nat /\ x[2] \in Nat
      BY ExpectedItems DEF PagingInv
    <3>3. \A x \in Expected, y \in ToSet(delivered) : Precedes(x, y) => x \in ToSet(delivered)
      BY <3>1, <3>2 DEF Below, Precedes
    <3> QED BY <2>1, <2>4, <3>1, <3>3 DEF PagesCoverOnce, InOrder, Below
  <2> QED BY <2>2, <2>3, <2>4
<1> QED BY <1>1, PagesBegin, PagingStepKeeps, PTL DEF PageSpec

-----------------------------------------------------------------------------
(* What the folds of the context go through.                               *)

\* The entities of all stores.
Entities == {Source} \cup {e.source : e \in Graph} \cup {e.target : e \in Graph}

Limits == {"node_limit", "connection_limit", "candidate_limit"}
Contexts == [nodes : Seq(Entities), connections : SUBSET Graph,
             frontier : Seq(Entities \X Nat), visited : SUBSET Entities,
             reasons : SUBSET Limits]

\* The entities a hop away from some.
Around(store, asked, near) ==
  UNION {{Neighbour(e, n) : e \in Hops(ToSet(store), asked, n)} : n \in near}

\* The neighbour of an entity is one.
LEMMA NeighbourType ==
  ASSUME NEW e \in Graph, NEW n PROVE Neighbour(e, n) \in Entities
BY DEF Neighbour, Entities

\* What is a hop away are entities.
LEMMA AroundType ==
  ASSUME NEW store \in Seq(Graph), NEW asked, NEW near
  PROVE  Around(store, asked, near) \subseteq Entities
<1>1. ToSet(store) \subseteq Graph
  BY ElementsType
<1> QED BY <1>1, NeighbourType DEF Around, Hops

\* Admitting an edge to a context.
LEMMA AdmitType ==
  ASSUME NEW c \in Contexts, NEW edge \in Graph, NEW entity, NEW distance \in Nat
  PROVE  Admit(c, edge, entity, distance) \in Contexts
<1>1. Neighbour(edge, entity) \in Entities
  BY NeighbourType
<1>2. <<Neighbour(edge, entity), distance + 1>> \in Entities \X Nat
  BY <1>1
<1>3. /\ c.nodes \in Seq(Entities) /\ c.frontier \in Seq(Entities \X Nat)
      /\ c.connections \in SUBSET Graph /\ c.visited \in SUBSET Entities
      /\ c.reasons \in SUBSET Limits
  BY DEF Contexts
<1>4. Append(c.nodes, Neighbour(edge, entity)) \in Seq(Entities)
  BY <1>1, <1>3, AppendProperties
<1>5. Append(c.frontier, <<Neighbour(edge, entity), distance + 1>>) \in Seq(Entities \X Nat)
  BY <1>2, <1>3, AppendProperties
<1>6. /\ c.connections \cup {edge} \in SUBSET Graph
      /\ c.visited \cup {Neighbour(edge, entity)} \in SUBSET Entities
      /\ c.reasons \cup {"connection_limit"} \in SUBSET Limits
      /\ c.reasons \cup {"node_limit"} \in SUBSET Limits
  BY <1>1, <1>3 DEF Limits
<1> QED BY <1>3, <1>4, <1>5, <1>6 DEF Admit, Contexts

ThoseStep(store, S, iter) ==
  [s \in SUBSET (DOMAIN store) |->
     IF s = {} THEN <<>>
     ELSE IF store[Max(s)] \in S
          THEN Append(iter[s \ {Max(s)}], store[Max(s)]) ELSE iter[s \ {Max(s)}]]

\* The fold as a recursion over sets of positions.
LEMMA ThoseUnfolds ==
  ASSUME NEW store, NEW S
  PROVE  Those(store, S) = (CHOOSE iter : iter = ThoseStep(store, S, iter))[DOMAIN store]
BY DEF Those, FoldLeft, MapThenFoldSet, ThoseStep

\* Selecting edges, one after the other.
ThoseTrace(f, T, store, S) ==
  /\ f \in [0..Len(store) -> Seq(T)] /\ f[0] = <<>>
  /\ \A i \in 1..Len(store) : f[i] = IF store[i] \in S
                                     THEN Append(f[i - 1], store[i]) ELSE f[i - 1]
  /\ Those(store, S) = f[Len(store)]

\* It goes through such a sequence of values.
LEMMA ThoseChain ==
  ASSUME NEW T, NEW store \in Seq(T), NEW S
  PROVE  \E f : ThoseTrace(f, T, store, S)
<1> DEFINE n == Len(store)
           V == Seq(T)
           b == <<>>
           op == [i \in 1..n |-> [q \in V |-> IF store[i] \in S THEN Append(q, store[i]) ELSE q]]
           iter == CHOOSE g : g = ThoseStep(store, S, g)
           f == [i \in 0..n |-> iter[1..i]]
<1>1. n \in Nat /\ DOMAIN store = 1..n
  OBVIOUS
<1>2. op \in [1..n -> [V -> V]] /\ b \in V
  BY <1>1
<1>3. \A i \in 1..n : \A q \in V : op[i][q] = IF store[i] \in S THEN Append(q, store[i]) ELSE q
  OBVIOUS
<1> HIDE DEF n, V, b, op, iter
<1>4. PICK g \in [SUBSET (1..n) -> V] : IsLeftFold(g, n, V, b, op)
  BY ONLY <1>1, <1>2, LeftFoldExists
<1>5. g = ThoseStep(store, S, g)
  <2>1. ASSUME NEW s \in SUBSET (1..n)
        PROVE  g[s] = IF s = {} THEN <<>>
                      ELSE IF store[Max(s)] \in S
                           THEN Append(g[s \ {Max(s)}], store[Max(s)]) ELSE g[s \ {Max(s)}]
    <3>1. CASE s = {}
      BY <1>4, <3>1 DEF b, IsLeftFold
    <3>2. CASE s # {}
      <4>1. Max(s) \in 1..n /\ s \ {Max(s)} \in SUBSET (1..n)
        BY <1>1, <3>2, GreatestOfSome
      <4>2. g[s] = op[Max(s)][g[s \ {Max(s)}]] /\ g[s \ {Max(s)}] \in V
        BY <1>4, <3>2, <4>1 DEF IsLeftFold
      <4> QED BY <1>3, <3>2, <4>1, <4>2
    <3> QED BY <3>1, <3>2
  <2>2. g = [s \in SUBSET (1..n) |-> g[s]]
    OBVIOUS
  <2> QED BY <1>1, <2>1, <2>2 DEF ThoseStep
<1>6. iter = ThoseStep(store, S, iter)
  BY <1>5 DEF iter
<1>7. \A s \in SUBSET (1..n) :
        iter[s] = IF s = {} THEN <<>>
                  ELSE IF store[Max(s)] \in S
                       THEN Append(iter[s \ {Max(s)}], store[Max(s)]) ELSE iter[s \ {Max(s)}]
  <2>1. ASSUME NEW s \in SUBSET (1..n) PROVE iter[s] = ThoseStep(store, S, iter)[s]
    BY <1>6
  <2> QED BY <1>1, <2>1 DEF ThoseStep
<1>8. IsLeftFold(iter, n, V, b, op)
  <2>1. ASSUME NEW s \in SUBSET (1..n), s # {}, iter[s \ {Max(s)}] \in V
        PROVE  iter[s] = op[Max(s)][iter[s \ {Max(s)}]]
    <3>1. Max(s) \in 1..n
      BY <1>1, <2>1, GreatestOfSome
    <3> QED BY <1>3, <1>7, <2>1, <3>1
  <2> QED BY <1>7, <2>1 DEF b, IsLeftFold
<1>9. f = [i \in 0..n |-> iter[1..i]]
  OBVIOUS
<1>10. Those(store, S) = f[n]
  <2>1. Those(store, S) = iter[1..n] /\ n \in 0..n
    BY <1>1, ThoseUnfolds DEF iter
  <2> QED BY <2>1
<1> HIDE DEF f
<1>11. IsChain(f, n, V, b, op)
  BY ONLY <1>1, <1>2, <1>8, <1>9, LeftFoldChain
<1>12. /\ f \in [0..n -> V] /\ f[0] = <<>>
       /\ \A i \in 1..n : f[i] = IF store[i] \in S THEN Append(f[i - 1], store[i]) ELSE f[i - 1]
  <2>1. /\ f \in [0..n -> V] /\ f[0] = b /\ \A i \in 1..n : f[i] = op[i][f[i - 1]]
    BY <1>11 DEF IsChain
  <2>2. \A i \in 1..n : i - 1 \in 0..n
    BY <1>1
  <2> QED BY <1>3, <2>1, <2>2 DEF b
<1> QED BY <1>10, <1>12 DEF n, V, ThoseTrace

EndOfStep(asked, path, iter) ==
  [s \in SUBSET (DOMAIN path) |->
     IF s = {} THEN Source
     ELSE IF path[Max(s)] \in Hops({path[Max(s)]}, asked, iter[s \ {Max(s)}])
          THEN Neighbour(path[Max(s)], iter[s \ {Max(s)}]) ELSE None]

\* The fold as a recursion over sets of positions.
LEMMA EndOfUnfolds ==
  ASSUME NEW asked, NEW path
  PROVE  EndOf(asked, path) = (CHOOSE iter : iter = EndOfStep(asked, path, iter))[DOMAIN path]
BY DEF EndOf, FoldLeft, MapThenFoldSet, EndOfStep

\* Walking along a sequence of connections.
EndOfTrace(f, asked, k, path) ==
  /\ f \in [0..k -> Entities \cup {None}] /\ f[0] = Source
  /\ \A i \in 1..k : f[i] = IF path[i] \in Hops({path[i]}, asked, f[i - 1])
                            THEN Neighbour(path[i], f[i - 1]) ELSE None
  /\ EndOf(asked, path) = f[k]

\* It goes through such a sequence of values.
LEMMA EndOfChain ==
  ASSUME NEW asked, NEW cs \in SUBSET Graph, NEW k \in Nat, NEW path \in [1..k -> cs]
  PROVE  \E f : EndOfTrace(f, asked, k, path)
<1> DEFINE n == k
           V == Entities \cup {None}
           b == Source
           op == [i \in 1..n |-> [q \in V |-> IF path[i] \in Hops({path[i]}, asked, q)
                                              THEN Neighbour(path[i], q) ELSE None]]
           iter == CHOOSE g : g = EndOfStep(asked, path, g)
           f == [i \in 0..n |-> iter[1..i]]
<1>1. n \in Nat /\ DOMAIN path = 1..n
  OBVIOUS
<1>2. op \in [1..n -> [V -> V]] /\ b \in V
  <2>1. Source \in Entities
    BY DEF Entities
  <2>2. \A i \in 1..n : path[i] \in Graph
    OBVIOUS
  <2>3. \A i \in 1..n : \A q : Neighbour(path[i], q) \in Entities
    BY <2>2, NeighbourType
  <2> QED BY <2>1, <2>3
<1>3. \A i \in 1..n : \A q \in V : op[i][q] = IF path[i] \in Hops({path[i]}, asked, q)
                                              THEN Neighbour(path[i], q) ELSE None
  OBVIOUS
<1> HIDE DEF n, V, b, op, iter
<1>4. PICK g \in [SUBSET (1..n) -> V] : IsLeftFold(g, n, V, b, op)
  BY ONLY <1>1, <1>2, LeftFoldExists
<1>5. g = EndOfStep(asked, path, g)
  <2>1. ASSUME NEW s \in SUBSET (1..n)
        PROVE  g[s] = IF s = {} THEN Source
                      ELSE IF path[Max(s)] \in Hops({path[Max(s)]}, asked, g[s \ {Max(s)}])
                           THEN Neighbour(path[Max(s)], g[s \ {Max(s)}]) ELSE None
    <3>1. CASE s = {}
      BY <1>4, <3>1 DEF b, IsLeftFold
    <3>2. CASE s # {}
      <4>1. Max(s) \in 1..n /\ s \ {Max(s)} \in SUBSET (1..n)
        BY <1>1, <3>2, GreatestOfSome
      <4>2. g[s] = op[Max(s)][g[s \ {Max(s)}]] /\ g[s \ {Max(s)}] \in V
        BY <1>4, <3>2, <4>1 DEF IsLeftFold
      <4> QED BY <1>3, <3>2, <4>1, <4>2
    <3> QED BY <3>1, <3>2
  <2>2. g = [s \in SUBSET (1..n) |-> g[s]]
    OBVIOUS
  <2> QED BY <1>1, <2>1, <2>2 DEF EndOfStep
<1>6. iter = EndOfStep(asked, path, iter)
  BY <1>5 DEF iter
<1>7. \A s \in SUBSET (1..n) :
        iter[s] = IF s = {} THEN Source
                  ELSE IF path[Max(s)] \in Hops({path[Max(s)]}, asked, iter[s \ {Max(s)}])
                       THEN Neighbour(path[Max(s)], iter[s \ {Max(s)}]) ELSE None
  <2>1. ASSUME NEW s \in SUBSET (1..n) PROVE iter[s] = EndOfStep(asked, path, iter)[s]
    BY <1>6
  <2> QED BY <1>1, <2>1 DEF EndOfStep
<1>8. IsLeftFold(iter, n, V, b, op)
  <2>1. ASSUME NEW s \in SUBSET (1..n), s # {}, iter[s \ {Max(s)}] \in V
        PROVE  iter[s] = op[Max(s)][iter[s \ {Max(s)}]]
    <3>1. Max(s) \in 1..n
      BY <1>1, <2>1, GreatestOfSome
    <3> QED BY <1>3, <1>7, <2>1, <3>1
  <2> QED BY <1>7, <2>1 DEF b, IsLeftFold
<1>9. f = [i \in 0..n |-> iter[1..i]]
  OBVIOUS
<1>10. EndOf(asked, path) = f[n]
  <2>1. EndOf(asked, path) = iter[1..n] /\ n \in 0..n
    BY <1>1, EndOfUnfolds DEF iter
  <2> QED BY <2>1
<1> HIDE DEF f
<1>11. IsChain(f, n, V, b, op)
  BY ONLY <1>1, <1>2, <1>8, <1>9, LeftFoldChain
<1>12. /\ f \in [0..n -> V] /\ f[0] = Source
       /\ \A i \in 1..n : f[i] = IF path[i] \in Hops({path[i]}, asked, f[i - 1])
                                 THEN Neighbour(path[i], f[i - 1]) ELSE None
  <2>1. /\ f \in [0..n -> V] /\ f[0] = b /\ \A i \in 1..n : f[i] = op[i][f[i - 1]]
    BY <1>11 DEF IsChain
  <2>2. \A i \in 1..n : i - 1 \in 0..n
    BY <1>1
  <2> QED BY <1>3, <2>1, <2>2 DEF b
<1> QED BY <1>10, <1>12 DEF n, V, EndOfTrace

NearStep(store, asked, k, iter) ==
  [s \in SUBSET (DOMAIN [i \in 1..k |-> i]) |->
     IF s = {} THEN {Source}
     ELSE iter[s \ {Max(s)}] \cup Around(store, asked, iter[s \ {Max(s)}])]

\* The fold as a recursion over sets of positions.
LEMMA NearUnfolds ==
  ASSUME NEW store, NEW asked, NEW k
  PROVE  Near(store, asked, k) =
           (CHOOSE iter : iter = NearStep(store, asked, k, iter))[DOMAIN [i \in 1..k |-> i]]
BY DEF Near, Around, FoldLeft, MapThenFoldSet, NearStep

\* Coming nearer, hop by hop.
NearTrace(f, store, asked, k) ==
  /\ f \in [0..k -> SUBSET Entities] /\ f[0] = {Source}
  /\ \A i \in 1..k : f[i] = f[i - 1] \cup Around(store, asked, f[i - 1])
  /\ Near(store, asked, k) = f[k]

\* It goes through such a sequence of values.
LEMMA NearChain ==
  ASSUME NEW asked, NEW store \in Seq(Graph), NEW k \in Nat
  PROVE  \E f : NearTrace(f, store, asked, k)
<1> DEFINE n == k
           V == SUBSET Entities
           b == {Source}
           op == [i \in 1..n |-> [q \in V |-> q \cup Around(store, asked, q)]]
           iter == CHOOSE g : g = NearStep(store, asked, k, g)
           f == [i \in 0..n |-> iter[1..i]]
<1>1. n \in Nat /\ DOMAIN [i \in 1..k |-> i] = 1..n
  OBVIOUS
<1>2. op \in [1..n -> [V -> V]] /\ b \in V
  <2>1. {Source} \in SUBSET Entities
    BY DEF Entities
  <2>2. ASSUME NEW q \in SUBSET Entities PROVE q \cup Around(store, asked, q) \in SUBSET Entities
    BY AroundType
  <2> QED BY <2>1, <2>2
<1>3. \A i \in 1..n : \A q \in V : op[i][q] = q \cup Around(store, asked, q)
  OBVIOUS
<1> HIDE DEF n, V, b, op, iter
<1>4. PICK g \in [SUBSET (1..n) -> V] : IsLeftFold(g, n, V, b, op)
  BY ONLY <1>1, <1>2, LeftFoldExists
<1>5. g = NearStep(store, asked, k, g)
  <2>1. ASSUME NEW s \in SUBSET (1..n)
        PROVE  g[s] = IF s = {} THEN {Source}
                      ELSE g[s \ {Max(s)}] \cup Around(store, asked, g[s \ {Max(s)}])
    <3>1. CASE s = {}
      BY <1>4, <3>1 DEF b, IsLeftFold
    <3>2. CASE s # {}
      <4>1. Max(s) \in 1..n /\ s \ {Max(s)} \in SUBSET (1..n)
        BY <1>1, <3>2, GreatestOfSome
      <4>2. g[s] = op[Max(s)][g[s \ {Max(s)}]] /\ g[s \ {Max(s)}] \in V
        BY <1>4, <3>2, <4>1 DEF IsLeftFold
      <4> QED BY <1>3, <3>2, <4>1, <4>2
    <3> QED BY <3>1, <3>2
  <2>2. g = [s \in SUBSET (1..n) |-> g[s]]
    OBVIOUS
  <2> QED BY <1>1, <2>1, <2>2 DEF NearStep
<1>6. iter = NearStep(store, asked, k, iter)
  BY <1>5 DEF iter
<1>7. \A s \in SUBSET (1..n) :
        iter[s] = IF s = {} THEN {Source}
                  ELSE iter[s \ {Max(s)}] \cup Around(store, asked, iter[s \ {Max(s)}])
  <2>1. ASSUME NEW s \in SUBSET (1..n) PROVE iter[s] = NearStep(store, asked, k, iter)[s]
    BY <1>6
  <2> QED BY <1>1, <2>1 DEF NearStep
<1>8. IsLeftFold(iter, n, V, b, op)
  <2>1. ASSUME NEW s \in SUBSET (1..n), s # {}, iter[s \ {Max(s)}] \in V
        PROVE  iter[s] = op[Max(s)][iter[s \ {Max(s)}]]
    <3>1. Max(s) \in 1..n
      BY <1>1, <2>1, GreatestOfSome
    <3> QED BY <1>3, <1>7, <2>1, <3>1
  <2> QED BY <1>7, <2>1 DEF b, IsLeftFold
<1>9. f = [i \in 0..n |-> iter[1..i]]
  OBVIOUS
<1>10. Near(store, asked, k) = f[n]
  <2>1. Near(store, asked, k) = iter[1..n] /\ n \in 0..n
    BY <1>1, NearUnfolds DEF iter
  <2> QED BY <2>1
<1> HIDE DEF f
<1>11. IsChain(f, n, V, b, op)
  BY ONLY <1>1, <1>2, <1>8, <1>9, LeftFoldChain
<1>12. /\ f \in [0..n -> V] /\ f[0] = {Source}
       /\ \A i \in 1..n : f[i] = f[i - 1] \cup Around(store, asked, f[i - 1])
  <2>1. /\ f \in [0..n -> V] /\ f[0] = b /\ \A i \in 1..n : f[i] = op[i][f[i - 1]]
    BY <1>11 DEF IsChain
  <2>2. \A i \in 1..n : i - 1 \in 0..n
    BY <1>1
  <2> QED BY <1>3, <2>1, <2>2 DEF b
<1> QED BY <1>10, <1>12 DEF n, V, NearTrace

AdmitAllStep(c, some, entity, distance, iter) ==
  [s \in SUBSET (DOMAIN some) |->
     IF s = {} THEN c
     ELSE Admit(iter[s \ {Max(s)}], some[Max(s)], entity, distance)]

\* The fold as a recursion over sets of positions.
LEMMA AdmitAllUnfolds ==
  ASSUME NEW c, NEW some, NEW entity, NEW distance
  PROVE  AdmitAll(c, some, entity, distance) =
           (CHOOSE iter : iter = AdmitAllStep(c, some, entity, distance, iter))[DOMAIN some]
BY DEF AdmitAll, FoldLeft, MapThenFoldSet, AdmitAllStep

\* Admitting edges, one after the other.
AdmitAllTrace(f, c, some, entity, distance) ==
  /\ f \in [0..Len(some) -> Contexts] /\ f[0] = c
  /\ \A i \in 1..Len(some) : f[i] = Admit(f[i - 1], some[i], entity, distance)
  /\ AdmitAll(c, some, entity, distance) = f[Len(some)]

\* It goes through such a sequence of values.
LEMMA AdmitAllChain ==
  ASSUME NEW c \in Contexts, NEW some \in Seq(Graph), NEW entity \in Entities, NEW distance \in Nat
  PROVE  \E f : AdmitAllTrace(f, c, some, entity, distance)
<1> DEFINE n == Len(some)
           V == Contexts
           b == c
           op == [i \in 1..n |-> [q \in V |-> Admit(q, some[i], entity, distance)]]
           iter == CHOOSE g : g = AdmitAllStep(c, some, entity, distance, g)
           f == [i \in 0..n |-> iter[1..i]]
<1>1. n \in Nat /\ DOMAIN some = 1..n
  OBVIOUS
<1>2. op \in [1..n -> [V -> V]] /\ b \in V
  BY <1>1, AdmitType
<1>3. \A i \in 1..n : \A q \in V : op[i][q] = Admit(q, some[i], entity, distance)
  OBVIOUS
<1> HIDE DEF n, V, b, op, iter
<1>4. PICK g \in [SUBSET (1..n) -> V] : IsLeftFold(g, n, V, b, op)
  BY ONLY <1>1, <1>2, LeftFoldExists
<1>5. g = AdmitAllStep(c, some, entity, distance, g)
  <2>1. ASSUME NEW s \in SUBSET (1..n)
        PROVE  g[s] = IF s = {} THEN c
                      ELSE Admit(g[s \ {Max(s)}], some[Max(s)], entity, distance)
    <3>1. CASE s = {}
      BY <1>4, <3>1 DEF b, IsLeftFold
    <3>2. CASE s # {}
      <4>1. Max(s) \in 1..n /\ s \ {Max(s)} \in SUBSET (1..n)
        BY <1>1, <3>2, GreatestOfSome
      <4>2. g[s] = op[Max(s)][g[s \ {Max(s)}]] /\ g[s \ {Max(s)}] \in V
        BY <1>4, <3>2, <4>1 DEF IsLeftFold
      <4> QED BY <1>3, <3>2, <4>1, <4>2
    <3> QED BY <3>1, <3>2
  <2>2. g = [s \in SUBSET (1..n) |-> g[s]]
    OBVIOUS
  <2> QED BY <1>1, <2>1, <2>2 DEF AdmitAllStep
<1>6. iter = AdmitAllStep(c, some, entity, distance, iter)
  BY <1>5 DEF iter
<1>7. \A s \in SUBSET (1..n) :
        iter[s] = IF s = {} THEN c
                  ELSE Admit(iter[s \ {Max(s)}], some[Max(s)], entity, distance)
  <2>1. ASSUME NEW s \in SUBSET (1..n)
        PROVE iter[s] = AdmitAllStep(c, some, entity, distance, iter)[s]
    BY <1>6
  <2> QED BY <1>1, <2>1 DEF AdmitAllStep
<1>8. IsLeftFold(iter, n, V, b, op)
  <2>1. ASSUME NEW s \in SUBSET (1..n), s # {}, iter[s \ {Max(s)}] \in V
        PROVE  iter[s] = op[Max(s)][iter[s \ {Max(s)}]]
    <3>1. Max(s) \in 1..n
      BY <1>1, <2>1, GreatestOfSome
    <3> QED BY <1>3, <1>7, <2>1, <3>1
  <2> QED BY <1>7, <2>1 DEF b, IsLeftFold
<1>9. f = [i \in 0..n |-> iter[1..i]]
  OBVIOUS
<1>10. AdmitAll(c, some, entity, distance) = f[n]
  <2>1. AdmitAll(c, some, entity, distance) = iter[1..n] /\ n \in 0..n
    BY <1>1, AdmitAllUnfolds DEF iter
  <2> QED BY <2>1
<1> HIDE DEF f
<1>11. IsChain(f, n, V, b, op)
  BY ONLY <1>1, <1>2, <1>8, <1>9, LeftFoldChain
<1>12. /\ f \in [0..n -> V] /\ f[0] = c
       /\ \A i \in 1..n : f[i] = Admit(f[i - 1], some[i], entity, distance)
  <2>1. /\ f \in [0..n -> V] /\ f[0] = b /\ \A i \in 1..n : f[i] = op[i][f[i - 1]]
    BY <1>11 DEF IsChain
  <2>2. \A i \in 1..n : i - 1 \in 0..n
    BY <1>1
  <2> QED BY <1>3, <2>1, <2>2 DEF b
<1> QED BY <1>10, <1>12 DEF n, V, AdmitAllTrace

\* The edges that are selected are those.
LEMMA ThoseElements ==
  ASSUME NEW T, NEW store \in Seq(T), NEW S
  PROVE  Those(store, S) \in Seq(T) /\ ToSet(Those(store, S)) = ToSet(store) \cap S
<1> DEFINE n == Len(store)
<1>1. n \in Nat /\ DOMAIN store = 1..n /\ \A i \in 1..n : store[i] \in T
  OBVIOUS
<1>0. PICK f : ThoseTrace(f, T, store, S)
  BY ThoseChain
<1>2. /\ f \in [0..n -> Seq(T)] /\ f[0] = <<>>
      /\ \A i \in 1..n : f[i] = IF store[i] \in S THEN Append(f[i - 1], store[i]) ELSE f[i - 1]
      /\ Those(store, S) = f[n]
  BY <1>0 DEF ThoseTrace
<1> DEFINE Good(i) == ToSet(f[i]) = {store[j] : j \in 1..i} \cap S
           B == {i \in 0..n : ~Good(i)}
<1> HIDE DEF n
<1>3. B = {}
  <2>1. SUFFICES ASSUME B # {} PROVE FALSE
    OBVIOUS
  <2>2. B \in SUBSET Nat
    BY <1>1
  <2>3. PICK i \in B : \A k \in B : i <= k
    BY <2>1, <2>2, LeastElement
  <2>4. i \in 0..n /\ ~Good(i)
    BY <2>3
  <2>5. Good(0)
    <3>1. ToSet(<<>>) = {} /\ {store[j] : j \in 1..0} = {}
      BY DEF ToSet
    <3> QED BY <1>2, <3>1
  <2>6. i \in 1..n /\ i - 1 \in 0..n /\ ~(i <= i - 1)
    <3>1. i # 0
      BY <2>4, <2>5
    <3> QED BY <1>1, <2>4, <3>1
  <2>7. Good(i - 1)
    BY <2>3, <2>6
  <2>8. {store[j] : j \in 1..i} = {store[j] : j \in 1..(i - 1)} \cup {store[i]}
    <3>1. 1..i = (1..(i - 1)) \cup {i}
      BY <1>1, <2>6
    <3> QED BY <3>1
  <2>9. f[i - 1] \in Seq(T) /\ store[i] \in T
    BY <1>1, <1>2, <2>6
  <2>10. ToSet(Append(f[i - 1], store[i])) = ToSet(f[i - 1]) \cup {store[i]}
    BY <2>9, AppendElements
  <2> QED BY <1>2, <2>4, <2>6, <2>7, <2>8, <2>10
<1>4. f[n] \in Seq(T) /\ Good(n)
  <2>1. n \in 0..n
    BY <1>1
  <2>2. Good(n)
    BY <1>3, <2>1
  <2> QED BY <1>2, <2>1, <2>2
<1>5. {store[j] : j \in 1..n} = ToSet(store)
  BY <1>1 DEF ToSet
<1> QED BY <1>2, <1>4, <1>5

\* What is incident with an entity: in the direction that is asked about, its own edges and
\* those that refer to it.
LEMMA IncidentElements ==
  ASSUME NEW store \in Seq(Graph), NEW asked, NEW n
  PROVE  /\ Incident(store, asked, n) \in Seq(Graph)
         /\ ToSet(store) \subseteq Graph
         /\ \A e : e \in ToSet(Incident(store, asked, n)) <=>
                     /\ e \in ToSet(store)
                     /\ \/ asked.direction # "incoming" /\ e.source = n
                        \/ asked.direction # "outgoing" /\ e.target = n
<1> DEFINE out == IF asked.direction # "incoming" THEN Outgoing(store, n) ELSE <<>>
           in == IF asked.direction # "outgoing" THEN Incoming(store, n) ELSE <<>>
<1>1. /\ Outgoing(store, n) \in Seq(Graph)
      /\ ToSet(Outgoing(store, n)) = {e \in ToSet(store) : e.source = n}
  BY ThoseElements DEF Outgoing
<1>2. /\ Incoming(store, n) \in Seq(Graph)
      /\ ToSet(Incoming(store, n)) = {e \in ToSet(store) : e.target = n}
  BY ThoseElements DEF Incoming
<1>3. <<>> \in Seq(Graph) /\ ToSet(<<>>) = {}
  BY ElementsEmpty
<1>4. out \in Seq(Graph) /\ in \in Seq(Graph)
  BY <1>1, <1>2, <1>3
<1>5. /\ out \o in \in Seq(Graph)
      /\ ToSet(out \o in) = ToSet(out) \cup ToSet(in)
  <2> HIDE DEF out, in
  <2> QED BY <1>4, ConcatElements
<1>6. \A e : e \in ToSet(out)
          <=> asked.direction # "incoming" /\ e \in ToSet(store) /\ e.source = n
  BY <1>1, <1>3
<1>7. \A e : e \in ToSet(in)
          <=> asked.direction # "outgoing" /\ e \in ToSet(store) /\ e.target = n
  BY <1>2, <1>3
<1>8. Incident(store, asked, n) = out \o in
  BY DEF Incident
<1>9. ToSet(store) \subseteq Graph
  BY ElementsType
<1> HIDE DEF out, in
<1> QED BY <1>5, <1>6, <1>7, <1>8, <1>9

\* A hop of an entity is an edge of it, and leads to its neighbour.
LEMMA HopsAreIncident ==
  ASSUME NEW store \in Seq(Graph), NEW asked, NEW n, NEW e
  PROVE  e \in Hops(ToSet(store), asked, n) <=>
           e \in ToSet(Incident(store, asked, n)) /\ e.kind # "property"
BY IncidentElements DEF Hops

\* Near Source: a further hop adds the neighbours of all that is near.
LEMMA NearLaws ==
  ASSUME NEW store \in Seq(Graph), NEW asked
  PROVE  /\ Near(store, asked, 0) = {Source}
         /\ \A k \in Nat : Near(store, asked, k) \subseteq Entities
         /\ \A k \in Nat : Near(store, asked, k + 1) =
              Near(store, asked, k) \cup Around(store, asked, Near(store, asked, k))
<1>1. ASSUME NEW k \in Nat PROVE \E f : NearTrace(f, store, asked, k)
  BY NearChain
<1>2. ASSUME NEW k \in Nat
      PROVE  Near(store, asked, k) \subseteq Entities
  <2>1. PICK f : NearTrace(f, store, asked, k)
    BY <1>1
  <2>2. k \in 0..k
    OBVIOUS
  <2> QED BY <2>1, <2>2 DEF NearTrace
<1>3. Near(store, asked, 0) = {Source}
  <2>1. PICK f : NearTrace(f, store, asked, 0)
    BY <1>1
  <2> QED BY <2>1 DEF NearTrace
<1>4. ASSUME NEW k \in Nat
      PROVE  Near(store, asked, k + 1) =
               Near(store, asked, k) \cup Around(store, asked, Near(store, asked, k))
  <2>1. PICK f : NearTrace(f, store, asked, k)
    BY <1>1
  <2>2. PICK g : NearTrace(g, store, asked, k + 1)
    <3>1. k + 1 \in Nat
      OBVIOUS
    <3> QED BY <1>1, <3>1
  <2> DEFINE B == {i \in 0..k : f[i] # g[i]}
  <2>3. B = {}
    <3>1. SUFFICES ASSUME B # {} PROVE FALSE
      OBVIOUS
    <3>2. B \in SUBSET Nat
      OBVIOUS
    <3>3. PICK i \in B : \A j \in B : i <= j
      BY <3>1, <3>2, LeastElement
    <3>4. i \in 0..k /\ f[i] # g[i]
      BY <3>3
    <3>5. i # 0
      BY <2>1, <2>2, <3>4 DEF NearTrace
    <3>6. i \in 1..k /\ i \in 1..(k + 1) /\ i - 1 \in 0..k /\ ~(i <= i - 1)
      BY <3>4, <3>5
    <3>7. f[i - 1] = g[i - 1]
      BY <3>3, <3>6
    <3> QED BY <2>1, <2>2, <3>4, <3>6, <3>7 DEF NearTrace
  <2>4. k \in 0..k /\ k + 1 \in 1..(k + 1) /\ (k + 1) - 1 = k
    OBVIOUS
  <2>5. g[k] = f[k]
    BY <2>3, <2>4
  <2>6. g[k + 1] = g[k] \cup Around(store, asked, g[k])
    BY <2>2, <2>4 DEF NearTrace
  <2> QED BY <2>1, <2>2, <2>5, <2>6 DEF NearTrace
<1> QED BY <1>2, <1>3, <1>4

\* What is near, and what is a hop away from that, is near with a further hop.
LEMMA NearSteps ==
  ASSUME NEW store \in Seq(Graph), NEW asked
  PROVE  \A k \in Nat : /\ Near(store, asked, k) \subseteq Near(store, asked, k + 1)
                        /\ Around(store, asked, Near(store, asked, k)) \subseteq
                             Near(store, asked, k + 1)
<1> SUFFICES ASSUME NEW k \in Nat
             PROVE  /\ Near(store, asked, k) \subseteq Near(store, asked, k + 1)
                    /\ Around(store, asked, Near(store, asked, k)) \subseteq
                         Near(store, asked, k + 1)
  OBVIOUS
<1>1. Near(store, asked, k + 1) =
        Near(store, asked, k) \cup Around(store, asked, Near(store, asked, k))
  BY NearLaws
<1> QED BY <1>1

\* What is near stays near.
LEMMA NearGrows ==
  ASSUME NEW store \in Seq(Graph), NEW asked, NEW k \in Nat, NEW m \in Nat, k <= m
  PROVE  Near(store, asked, k) \subseteq Near(store, asked, m)
<1> DEFINE B == {j \in Nat : k <= j /\ ~(Near(store, asked, k) \subseteq Near(store, asked, j))}
<1>1. SUFFICES ASSUME B # {} PROVE FALSE
  OBVIOUS
<1>2. PICK j \in B : \A i \in B : j <= i
  <2>1. B \in SUBSET Nat
    OBVIOUS
  <2> QED BY <1>1, <2>1, LeastElement
<1>3. j \in Nat /\ k <= j /\ j # k /\ ~(Near(store, asked, k) \subseteq Near(store, asked, j))
  BY <1>2
<1>4. j - 1 \in Nat /\ k <= j - 1 /\ ~(j <= j - 1) /\ (j - 1) + 1 = j
  BY <1>3
<1>5. Near(store, asked, k) \subseteq Near(store, asked, j - 1)
  BY <1>2, <1>4
<1>6. \A i \in Nat : Near(store, asked, i) \subseteq Near(store, asked, i + 1)
  BY NearSteps
<1>7. Near(store, asked, j - 1) \subseteq Near(store, asked, (j - 1) + 1)
  BY <1>4, <1>6
<1> QED BY <1>3, <1>4, <1>5, <1>7

\* What the context of an entity is: nothing but the edges of what is near, and all of them.
LEMMA NeighbourhoodElements ==
  ASSUME NEW store \in Seq(Graph), NEW asked, asked.depth \in Nat
  PROVE  /\ Neighbourhood(store, asked) \subseteq ToSet(store)
         /\ ToSet(store) \subseteq Graph
         /\ \A k \in Nat : \A n \in Near(store, asked, k) : k < asked.depth =>
              ToSet(Incident(store, asked, n)) \subseteq Neighbourhood(store, asked)
         /\ \A e \in Neighbourhood(store, asked) :
              \E k \in Nat : \E n \in Near(store, asked, k) :
                k < asked.depth /\ e \in ToSet(Incident(store, asked, n))
<1> DEFINE Nearby == UNION {Near(store, asked, k) : k \in 0..(asked.depth - 1)}
<1>1. \A n : ToSet(Incident(store, asked, n)) \subseteq ToSet(store)
  BY IncidentElements
<1>2. ToSet(store) \subseteq Graph
  BY ElementsType
<1>3. \A e : e \in Neighbourhood(store, asked) <=>
               \E n \in Nearby : e \in ToSet(Incident(store, asked, n))
  BY DEF Neighbourhood
<1>4. \A n : n \in Nearby <=> \E k \in 0..(asked.depth - 1) : n \in Near(store, asked, k)
  OBVIOUS
<1>5. \A k : k \in 0..(asked.depth - 1) <=> k \in Nat /\ k < asked.depth
  OBVIOUS
<1> HIDE DEF Nearby
<1> QED BY <1>1, <1>2, <1>3, <1>4, <1>5

\* A sequence of edges of a store that leads to Target goes from what is near to what is
\* near, hop by hop.
LEMMA PathsAreNear ==
  ASSUME ContextAssumption, NEW store \in Seq(Graph), NEW asked, NEW k \in Nat,
         NEW p \in [1..k -> ToSet(store)], EndOf(asked, p) = Target
  PROVE  \A i \in 1..k : \E n \in Near(store, asked, i - 1) :
           p[i] \in ToSet(Incident(store, asked, n))
<1>1. ToSet(store) \in SUBSET Graph
  BY ElementsType
<1>2. PICK f : EndOfTrace(f, asked, k, p)
  BY <1>1, EndOfChain
<1>3. /\ f \in [0..k -> Entities \cup {None}] /\ f[0] = Source /\ f[k] = Target
      /\ \A i \in 1..k : f[i] = IF p[i] \in Hops({p[i]}, asked, f[i - 1])
                                THEN Neighbour(p[i], f[i - 1]) ELSE None
  BY <1>2 DEF EndOfTrace
<1>4. ASSUME NEW i \in 1..k PROVE p[i] \notin Hops({p[i]}, asked, None)
  <2>1. p[i] \in Graph
    BY <1>1
  <2> QED BY <2>1 DEF Hops, ContextAssumption
\* After None it stays there.
<1> DEFINE Lost == {i \in 0..k : f[i] = None}
<1>5. \A i \in 0..k : f[i] # None
  <2>1. SUFFICES ASSUME Lost # {} PROVE FALSE
    OBVIOUS
  <2> DEFINE Left == {j \in Nat : j <= k /\ k - j \in Lost}
  <2>2. Left # {}
    <3>1. PICK i \in Lost : TRUE
      BY <2>1
    <3>2. k - i \in Nat /\ k - i <= k /\ k - (k - i) = i
      OBVIOUS
    <3>3. k - i \in Left
      BY <3>1, <3>2
    <3> QED BY <3>3
  <2>3. Left \in SUBSET Nat
    OBVIOUS
  <2>4. PICK j \in Left : \A l \in Left : j <= l
    BY <2>2, <2>3, LeastElement
  <2>5. j \in Nat /\ j <= k /\ f[k - j] = None
    BY <2>4
  <2>6. j # 0
    <3>1. f[k] # None
      BY <1>3 DEF ContextAssumption
    <3> QED BY <2>5, <3>1
  <2>7. k - j + 1 \in 1..k /\ (k - j + 1) - 1 = k - j /\ k - j + 1 = k - (j - 1)
    BY <2>5, <2>6
  <2>8. f[k - j + 1] = None
    BY <1>3, <1>4, <2>5, <2>7
  <2>9. j - 1 \in Left /\ ~(j <= j - 1)
    <3>1. j - 1 \in Nat /\ j - 1 <= k /\ k - (j - 1) \in 0..k /\ ~(j <= j - 1)
      BY <2>5, <2>6
    <3>2. f[k - (j - 1)] = None
      BY <2>7, <2>8
    <3> QED BY <3>1, <3>2
  <2> QED BY <2>4, <2>9
<1>6. ASSUME NEW i \in 1..k
      PROVE  /\ p[i] \in ToSet(Incident(store, asked, f[i - 1])) /\ p[i].kind # "property"
             /\ f[i] = Neighbour(p[i], f[i - 1])
  <2>1. f[i] # None /\ i \in 0..k
    BY <1>5
  <2>2. p[i] \in Hops({p[i]}, asked, f[i - 1]) /\ f[i] = Neighbour(p[i], f[i - 1])
    BY <1>3, <2>1
  <2>3. p[i] \in Hops(ToSet(store), asked, f[i - 1])
    BY <2>2 DEF Hops
  <2> QED BY <2>2, <2>3, HopsAreIncident
<1> DEFINE B == {i \in 0..k : f[i] \notin Near(store, asked, i)}
<1>7. B = {}
  <2>1. SUFFICES ASSUME B # {} PROVE FALSE
    OBVIOUS
  <2>2. PICK i \in B : \A j \in B : i <= j
    <3>1. B \in SUBSET Nat
      OBVIOUS
    <3> QED BY <2>1, <3>1, LeastElement
  <2>3. i \in 0..k /\ f[i] \notin Near(store, asked, i)
    BY <2>2
  <2>4. i # 0
    BY <1>3, <2>3, NearLaws
  <2>5. i \in 1..k /\ i - 1 \in 0..k /\ i - 1 \in Nat /\ ~(i <= i - 1) /\ (i - 1) + 1 = i
    BY <2>3, <2>4
  <2>6. f[i - 1] \in Near(store, asked, i - 1)
    BY <2>2, <2>5
  <2>7. f[i] \in Around(store, asked, Near(store, asked, i - 1))
    <3>1. p[i] \in Hops(ToSet(store), asked, f[i - 1]) /\ f[i] = Neighbour(p[i], f[i - 1])
      BY <1>6, <2>5, HopsAreIncident
    <3> QED BY <2>6, <3>1 DEF Around
  <2>8. \A j \in Nat : Around(store, asked, Near(store, asked, j)) \subseteq
                         Near(store, asked, j + 1)
    BY NearSteps
  <2>9. f[i] \in Near(store, asked, (i - 1) + 1)
    BY <2>5, <2>7, <2>8
  <2> QED BY <2>3, <2>5, <2>9
<1>8. ASSUME NEW i \in 1..k
      PROVE  \E n \in Near(store, asked, i - 1) : p[i] \in ToSet(Incident(store, asked, n))
  <2>1. i - 1 \in 0..k
    OBVIOUS
  <2>2. f[i - 1] \in Near(store, asked, i - 1)
    BY <1>7, <2>1
  <2> QED BY <1>6, <2>2
<1> QED BY <1>8

\* The shortest paths of a store are those of its neighbourhood.
LEMMA ShortestPathsAreNear ==
  ASSUME ContextAssumption, NEW store \in Seq(Graph), NEW asked, asked.depth \in Nat
  PROVE  ShortestPaths(Neighbourhood(store, asked), asked) = ShortestPaths(ToSet(store), asked)
<1> DEFINE cs == Neighbourhood(store, asked)
           S == ToSet(store)
           d == asked.depth
<1>1. ASSUME NEW k \in 0..d PROVE PathsOf(cs, asked, k) = PathsOf(S, asked, k)
  <2>1. cs \subseteq S
    BY NeighbourhoodElements
  <2>2. ASSUME NEW p \in PathsOf(S, asked, k) PROVE p \in [1..k -> cs]
    <3>1. p \in [1..k -> S] /\ EndOf(asked, p) = Target /\ k \in Nat
      BY DEF PathsOf
    <3>2. ASSUME NEW i \in 1..k PROVE p[i] \in cs
      <4>1. PICK n \in Near(store, asked, i - 1) : p[i] \in ToSet(Incident(store, asked, n))
        BY <3>1, PathsAreNear
      <4>2. i - 1 \in Nat /\ i - 1 < d
        OBVIOUS
      <4> QED BY <4>1, <4>2, NeighbourhoodElements
    <3> HIDE DEF cs, S
    <3> QED BY <3>1, <3>2
  <2>3. \A p \in [1..k -> cs] : p \in [1..k -> S]
    <3> HIDE DEF cs, S
    <3> QED BY <2>1
  <2> HIDE DEF cs, S
  <2> QED BY <2>2, <2>3 DEF PathsOf
<1> DEFINE L(x) == {k \in 0..d : PathsOf(x, asked, k) # {}}
<1>2. L(cs) = L(S)
  <2> HIDE DEF cs, S, d
  <2> QED BY <1>1
<1>3. L(S) # {} => Min(L(S)) \in 0..d
  <2>1. L(S) \in SUBSET Nat
    OBVIOUS
  <2>2. L(S) # {} => Min(L(S)) \in L(S)
    <3> HIDE DEF L
    <3> QED BY <2>1, LeastElement
  <2> QED BY <2>2
<1>4. \A x : ShortestPaths(x, asked) = IF L(x) = {} THEN {} ELSE PathsOf(x, asked, Min(L(x)))
  BY DEF ShortestPaths
<1> HIDE DEF cs, S, d, L
<1>5. ShortestPaths(cs, asked) = ShortestPaths(S, asked)
  BY <1>1, <1>2, <1>3, <1>4
<1> QED BY <1>5 DEF cs, S

\* There are finitely many of them.
LEMMA ShortestPathsFinite ==
  ASSUME NEW asked, NEW cs, IsFiniteSet(cs), asked.depth \in Nat
  PROVE  /\ IsFiniteSet(ShortestPaths(cs, asked))
         /\ \A p \in ShortestPaths(cs, asked) : ToSet(p) \subseteq cs
<1> DEFINE L == {k \in 0..asked.depth : PathsOf(cs, asked, k) # {}}
<1>1. ASSUME NEW k \in Nat
      PROVE  /\ IsFiniteSet(PathsOf(cs, asked, k))
             /\ \A p \in PathsOf(cs, asked, k) : ToSet(p) \subseteq cs
  <2> DEFINE F == [1..k -> cs]
             P == (1..k) \X cs
             g == [p \in F |-> {<<i, p[i]>> : i \in 1..k}]
  <2>1. IsFiniteSet(1..k)
    BY FS_Interval
  <2>2. IsFiniteSet(SUBSET P)
    BY <2>1, FS_Product, FS_SUBSET
  <2>3. ASSUME NEW p \in F, NEW q \in F, g[p] = g[q] PROVE p = q
    <3>1. ASSUME NEW i \in 1..k PROVE p[i] = q[i]
      <4>1. <<i, p[i]>> \in g[p]
        OBVIOUS
      <4>2. <<i, p[i]>> \in {<<j, q[j]>> : j \in 1..k}
        BY <2>3, <4>1
      <4>3. PICK j \in 1..k : <<i, p[i]>> = <<j, q[j]>>
        BY <4>2
      <4> QED BY <4>3
    <3> QED BY <3>1
  <2>4. g \in [F -> SUBSET P]
    OBVIOUS
  <2>5. g \in Injection(F, SUBSET P)
    <3> HIDE DEF g, F, P
    <3> QED BY <2>3, <2>4 DEF Injection, IsInjective
  <2>6. IsFiniteSet(F)
    <3> HIDE DEF g, F, P
    <3> QED BY <2>2, <2>5, FS_Injection
  <2>7. PathsOf(cs, asked, k) \in SUBSET F
    BY DEF PathsOf
  <2>8. \A p \in F : ToSet(p) \subseteq cs
    BY DEF ToSet
  <2> HIDE DEF g, F, P
  <2> QED BY <2>6, <2>7, <2>8, FS_Subset
<1>2. L # {} => Min(L) \in Nat
  <2>1. L \in SUBSET Nat
    OBVIOUS
  <2> HIDE DEF L
  <2> QED BY <2>1, LeastElement
<1>3. ShortestPaths(cs, asked) = IF L = {} THEN {} ELSE PathsOf(cs, asked, Min(L))
  BY DEF ShortestPaths
<1> HIDE DEF L
<1> QED BY <1>1, <1>2, <1>3, FS_EmptySet

-----------------------------------------------------------------------------
(* The search                                                              *)

\* A context hangs together: it begins with what was asked about, its connections are in
\* the store, and what they connect is in it.
Coherent(c, store) ==
  /\ c \in Contexts /\ c.connections \subseteq ToSet(store)
  /\ c.nodes # <<>> /\ c.nodes[1] = Source
  /\ \A e \in c.connections : e.source \in ToSet(c.nodes) /\ e.target \in ToSet(c.nodes)

\* What has been visited is in it, what waits to be expanded has been visited.
Visits(c) ==
  /\ Source \in c.visited /\ c.visited \subseteq ToSet(c.nodes)
  /\ \A i \in DOMAIN c.frontier : c.frontier[i][1] \in c.visited

\* No entity nearer than d hops.
Far(store, asked, d, n) == \A k \in Nat : k < d => n \notin Near(store, asked, k)

\* All edges of an entity are there, and what they lead to has been visited.
Done(c, store, asked, n) ==
  \A e \in ToSet(Incident(store, asked, n)) :
    e \in c.connections /\ (e.kind # "property" => Neighbour(e, n) \in c.visited)
Waits(c, n) == \E i \in DOMAIN c.frontier : c.frontier[i][1] = n

\* What the frontier holds is as far away as it says, and hops lead to what has been
\* visited.
Exact(c, store, asked) ==
  /\ \A i \in DOMAIN c.frontier :
       /\ c.frontier[i][1] \in Near(store, asked, c.frontier[i][2])
       /\ Far(store, asked, c.frontier[i][2], c.frontier[i][1])
  /\ \A x \in c.connections :
       x.kind # "property" => x.source \in c.visited /\ x.target \in c.visited
  /\ c.connections \subseteq Neighbourhood(store, asked)

\* The frontier is in the order of distances, which are d or one more.
Levels(c, d) ==
  /\ \A i \in DOMAIN c.frontier : c.frontier[i][2] \in {d, d + 1}
  /\ \A i, j \in DOMAIN c.frontier : i <= j => c.frontier[i][2] <= c.frontier[j][2]

\* While an entity at distance d is expanded.
Expanding(c, store, asked, e, d) ==
  /\ Exact(c, store, asked) /\ Levels(c, d)
  /\ \A n \in c.visited : \/ n = e \/ Done(c, store, asked, n) \/ Waits(c, n)
                          \/ Far(store, asked, asked.depth, n)
  /\ \A k \in Nat : k <= d => Near(store, asked, k) \subseteq c.visited

\* An element more.
LEMMA AppendIndexes ==
  ASSUME NEW S, NEW q \in Seq(S), NEW e \in S
  PROVE  /\ DOMAIN Append(q, e) = DOMAIN q \cup {Len(q) + 1} /\ DOMAIN q = 1..Len(q)
         /\ Append(q, e) \in Seq(S) /\ Len(q) \in Nat
         /\ Append(q, e)[Len(q) + 1] = e
         /\ \A i \in DOMAIN q : Append(q, e)[i] = q[i]
<1>1. /\ Append(q, e) \in Seq(S) /\ Len(Append(q, e)) = Len(q) + 1 /\ Len(q) \in Nat
      /\ \A i \in 1..Len(q) : Append(q, e)[i] = q[i]
      /\ Append(q, e)[Len(q) + 1] = e
  OBVIOUS
<1>2. DOMAIN q = 1..Len(q) /\ DOMAIN Append(q, e) = 1..(Len(q) + 1)
  BY <1>1
<1> QED BY <1>1, <1>2

\* What admitting an edge does.
LEMMA AdmitCases ==
  ASSUME NEW c \in Contexts, NEW edge \in Graph, NEW entity, NEW distance \in Nat,
         NEW d, d = Admit(c, edge, entity, distance),
         NEW neighbour, neighbour = Neighbour(edge, entity)
  PROVE  /\ d \in Contexts
         /\ \/ d = c /\ edge \in c.connections
            \/ /\ d.nodes = c.nodes /\ d.connections = c.connections
               /\ d.frontier = c.frontier /\ d.visited = c.visited /\ d.reasons # {}
            \/ /\ \/ d.nodes = c.nodes /\ neighbour \in ToSet(c.nodes)
                  \/ d.nodes = Append(c.nodes, neighbour)
               /\ d.connections = c.connections \cup {edge} /\ d.reasons = c.reasons
               /\ \/ /\ edge.kind # "property" /\ neighbour \notin c.visited
                     /\ d.visited = c.visited \cup {neighbour}
                     /\ d.frontier = Append(c.frontier, <<neighbour, distance + 1>>)
                  \/ /\ edge.kind = "property" \/ neighbour \in c.visited
                     /\ d.visited = c.visited /\ d.frontier = c.frontier
<1>1. d \in Contexts
  BY AdmitType
<1>2. CASE edge \in c.connections
  BY <1>1, <1>2 DEF Admit
<1>3. CASE edge \notin c.connections /\ Cardinality(c.connections) >= inquiry.maximumConnections
  <2>1. d = [c EXCEPT !.reasons = @ \cup {"connection_limit"}]
    BY <1>3 DEF Admit
  <2> QED BY <1>1, <2>1 DEF Contexts
<1>4. CASE /\ edge \notin c.connections
           /\ ~(Cardinality(c.connections) >= inquiry.maximumConnections)
           /\ neighbour \notin ToSet(c.nodes) /\ Len(c.nodes) >= inquiry.maximumNodes
  <2>1. d = [c EXCEPT !.reasons = @ \cup {"node_limit"}]
    BY <1>4 DEF Admit
  <2> QED BY <1>1, <2>1 DEF Contexts
<1>5. CASE /\ edge \notin c.connections
           /\ ~(Cardinality(c.connections) >= inquiry.maximumConnections)
           /\ ~(neighbour \notin ToSet(c.nodes) /\ Len(c.nodes) >= inquiry.maximumNodes)
  <2> DEFINE known == neighbour \in ToSet(c.nodes)
             expand == edge.kind # "property" /\ neighbour \notin c.visited
  <2>1. d = [c EXCEPT !.nodes = IF known THEN @ ELSE Append(@, neighbour),
                      !.connections = @ \cup {edge},
                      !.visited = IF expand THEN @ \cup {neighbour} ELSE @,
                      !.frontier = IF expand THEN Append(@, <<neighbour, distance + 1>>)
                                   ELSE @]
    BY <1>5 DEF Admit
  <2>2. /\ d.nodes = IF known THEN c.nodes ELSE Append(c.nodes, neighbour)
        /\ d.connections = c.connections \cup {edge} /\ d.reasons = c.reasons
        /\ d.visited = IF expand THEN c.visited \cup {neighbour} ELSE c.visited
        /\ d.frontier = IF expand THEN Append(c.frontier, <<neighbour, distance + 1>>)
                        ELSE c.frontier
    <3> HIDE DEF known, expand
    <3> QED BY <2>1 DEF Contexts
  <2> QED BY <1>1, <2>2
<1> QED BY <1>2, <1>3, <1>4, <1>5

\* Admitting an edge leaves a context coherent, whatever limit it meets.
LEMMA AdmitIsCoherent ==
  ASSUME NEW store \in Seq(Graph), NEW c, Coherent(c, store), Visits(c),
         NEW entity \in c.visited, NEW edge \in ToSet(store),
         edge.source = entity \/ edge.target = entity,
         NEW distance \in Nat, NEW d, d = Admit(c, edge, entity, distance)
  PROVE  /\ Coherent(d, store) /\ Visits(d) /\ entity \in d.visited
         /\ d.reasons = {} => c.reasons = {}
<1> DEFINE neighbour == Neighbour(edge, entity)
<1>1. /\ edge \in Graph /\ edge \in ToSet(store) /\ c \in Contexts
      /\ edge.source = entity \/ edge.target = entity
  BY ElementsType DEF Coherent
<1>2. /\ edge.source \in {entity, neighbour} /\ edge.target \in {entity, neighbour}
      /\ neighbour \in Entities
  BY <1>1, NeighbourType DEF Neighbour
<1> HIDE DEF neighbour
<1>3. /\ d \in Contexts
      /\ \/ d = c /\ edge \in c.connections
         \/ /\ d.nodes = c.nodes /\ d.connections = c.connections
            /\ d.frontier = c.frontier /\ d.visited = c.visited /\ d.reasons # {}
         \/ /\ \/ d.nodes = c.nodes /\ neighbour \in ToSet(c.nodes)
               \/ d.nodes = Append(c.nodes, neighbour)
            /\ d.connections = c.connections \cup {edge} /\ d.reasons = c.reasons
            /\ \/ /\ edge.kind # "property" /\ neighbour \notin c.visited
                  /\ d.visited = c.visited \cup {neighbour}
                  /\ d.frontier = Append(c.frontier, <<neighbour, distance + 1>>)
               \/ /\ edge.kind = "property" \/ neighbour \in c.visited
                  /\ d.visited = c.visited /\ d.frontier = c.frontier
  BY <1>1, AdmitCases DEF neighbour
<1>4. CASE d = c
  BY <1>4
<1>5. CASE /\ d.nodes = c.nodes /\ d.connections = c.connections
           /\ d.frontier = c.frontier /\ d.visited = c.visited /\ d.reasons # {}
  BY <1>3, <1>5 DEF Coherent, Visits
<1>6. CASE /\ \/ d.nodes = c.nodes /\ neighbour \in ToSet(c.nodes)
              \/ d.nodes = Append(c.nodes, neighbour)
           /\ d.connections = c.connections \cup {edge} /\ d.reasons = c.reasons
           /\ \/ /\ edge.kind # "property" /\ neighbour \notin c.visited
                 /\ d.visited = c.visited \cup {neighbour}
                 /\ d.frontier = Append(c.frontier, <<neighbour, distance + 1>>)
              \/ /\ edge.kind = "property" \/ neighbour \in c.visited
                 /\ d.visited = c.visited /\ d.frontier = c.frontier
  <2>1. /\ c.nodes \in Seq(Entities) /\ c.nodes # <<>> /\ c.nodes[1] = Source
        /\ c.frontier \in Seq(Entities \X Nat) /\ c.visited \subseteq ToSet(c.nodes)
    BY <1>1 DEF Contexts, Coherent, Visits
  <2>2. /\ ToSet(d.nodes) = ToSet(c.nodes) \cup {neighbour}
        /\ d.nodes # <<>> /\ d.nodes[1] = Source
    <3>1. CASE d.nodes = c.nodes /\ neighbour \in ToSet(c.nodes)
      BY <2>1, <3>1
    <3>2. CASE d.nodes = Append(c.nodes, neighbour)
      <4>1. 1 \in DOMAIN c.nodes
        BY <2>1
      <4>2. Append(c.nodes, neighbour)[1] = c.nodes[1]
        BY <1>2, <2>1, <4>1, AppendIndexes
      <4> QED BY <1>2, <2>1, <3>2, <4>2, AppendElements
    <3> QED BY <1>6, <3>1, <3>2
  <2>3. d.connections \subseteq ToSet(store) /\ d.visited \subseteq ToSet(d.nodes)
    BY <1>1, <1>6, <2>1, <2>2 DEF Coherent
  <2>4. \A e \in d.connections : e.source \in ToSet(d.nodes) /\ e.target \in ToSet(d.nodes)
    <3>1. entity \in ToSet(d.nodes)
      BY <2>1, <2>2
    <3> QED BY <1>2, <1>6, <2>2, <3>1 DEF Coherent
  <2>5. \A i \in DOMAIN d.frontier : d.frontier[i][1] \in d.visited
    <3>1. CASE d.frontier = c.frontier /\ d.visited = c.visited
      BY <3>1 DEF Visits
    <3>2. CASE /\ d.visited = c.visited \cup {neighbour}
               /\ d.frontier = Append(c.frontier, <<neighbour, distance + 1>>)
      <4>1. <<neighbour, distance + 1>> \in Entities \X Nat
        BY <1>2
      <4>2. /\ DOMAIN d.frontier = DOMAIN c.frontier \cup {Len(c.frontier) + 1}
            /\ d.frontier[Len(c.frontier) + 1] = <<neighbour, distance + 1>>
            /\ \A i \in DOMAIN c.frontier : d.frontier[i] = c.frontier[i]
        BY <2>1, <3>2, <4>1, AppendIndexes
      <4>3. <<neighbour, distance + 1>>[1] = neighbour
        OBVIOUS
      <4> QED BY <3>2, <4>2, <4>3 DEF Visits
    <3> QED BY <1>6, <3>1, <3>2
  <2>6. Source \in d.visited /\ entity \in d.visited
    BY <1>6 DEF Visits
  <2> QED BY <1>3, <1>6, <2>2, <2>3, <2>4, <2>5, <2>6 DEF Coherent, Visits
<1> QED BY <1>3, <1>4, <1>5, <1>6

\* What is done stays done, what waits goes on waiting.
LEMMA GrowingKeeps ==
  ASSUME NEW store, NEW asked, NEW c, NEW d,
         c.connections \subseteq d.connections, c.visited \subseteq d.visited
  PROVE  \A n : Done(c, store, asked, n) => Done(d, store, asked, n)
BY DEF Done

\* Admitting an edge of the entity that is expanded, under the limits.
LEMMA AdmitKeeps ==
  ASSUME NEW store \in Seq(Graph), NEW asked, asked.depth \in Nat,
         NEW c, Coherent(c, store), Visits(c),
         NEW distance \in Nat, distance < asked.depth,
         NEW entity \in c.visited, entity \in Near(store, asked, distance),
         NEW edge \in ToSet(Incident(store, asked, entity)),
         NEW d, d = Admit(c, edge, entity, distance), d.reasons = {},
         Expanding(c, store, asked, entity, distance)
  PROVE  /\ Expanding(d, store, asked, entity, distance)
         /\ c.connections \subseteq d.connections /\ c.visited \subseteq d.visited
         /\ edge \in d.connections
         /\ edge.kind # "property" => Neighbour(edge, entity) \in d.visited
<1> DEFINE neighbour == Neighbour(edge, entity)
<1>1. /\ edge \in Graph /\ edge \in ToSet(store) /\ c \in Contexts
      /\ edge.source = entity \/ edge.target = entity
  BY IncidentElements DEF Coherent
<1>2. /\ edge.source \in {entity, neighbour} /\ edge.target \in {entity, neighbour}
      /\ neighbour \in {edge.source, edge.target} /\ neighbour \in Entities
  BY <1>1, NeighbourType DEF Neighbour
<1>3. edge.kind # "property" => neighbour \in Near(store, asked, distance + 1)
  <2> SUFFICES ASSUME edge.kind # "property" PROVE neighbour \in Near(store, asked, distance + 1)
    OBVIOUS
  <2>1. edge \in Hops(ToSet(store), asked, entity)
    BY HopsAreIncident
  <2>2. neighbour \in Around(store, asked, Near(store, asked, distance))
    BY <2>1 DEF Around
  <2> QED BY <2>2, NearSteps
<1>4. edge \in Neighbourhood(store, asked)
  BY NeighbourhoodElements
<1>5. /\ d \in Contexts
      /\ \/ d = c /\ edge \in c.connections
         \/ /\ d.connections = c.connections \cup {edge}
            /\ \/ /\ edge.kind # "property" /\ neighbour \notin c.visited
                  /\ d.visited = c.visited \cup {neighbour}
                  /\ d.frontier = Append(c.frontier, <<neighbour, distance + 1>>)
               \/ /\ edge.kind = "property" \/ neighbour \in c.visited
                  /\ d.visited = c.visited /\ d.frontier = c.frontier
  BY <1>1, AdmitCases
<1> HIDE DEF neighbour
<1>6. /\ Exact(c, store, asked) /\ Levels(c, distance)
      /\ \A n \in c.visited : \/ n = entity \/ Done(c, store, asked, n) \/ Waits(c, n)
                              \/ Far(store, asked, asked.depth, n)
      /\ \A k \in Nat : k <= distance => Near(store, asked, k) \subseteq c.visited
  BY DEF Expanding
<1>7. CASE d = c /\ edge \in c.connections
  <2>1. edge.kind # "property" => neighbour \in c.visited
    BY <1>2, <1>6, <1>7 DEF Exact
  <2> QED BY <1>7, <2>1 DEF neighbour
<1>8. CASE /\ d.connections = c.connections \cup {edge}
           /\ edge.kind = "property" \/ neighbour \in c.visited
           /\ d.visited = c.visited /\ d.frontier = c.frontier
  <2>1. Exact(d, store, asked)
    BY <1>2, <1>4, <1>6, <1>8 DEF Exact
  <2>2. Levels(d, distance)
    BY <1>6, <1>8 DEF Levels
  <2>3. \A n \in d.visited : \/ n = entity \/ Done(d, store, asked, n) \/ Waits(d, n)
                             \/ Far(store, asked, asked.depth, n)
    <3>1. \A n : Done(c, store, asked, n) => Done(d, store, asked, n)
      BY <1>8, GrowingKeeps
    <3>2. \A n : Waits(c, n) => Waits(d, n)
      BY <1>8 DEF Waits
    <3> QED BY <1>6, <1>8, <3>1, <3>2
  <2> QED BY <1>6, <1>8, <2>1, <2>2, <2>3 DEF Expanding, neighbour
<1>9. CASE /\ d.connections = c.connections \cup {edge}
           /\ edge.kind # "property" /\ neighbour \notin c.visited
           /\ d.visited = c.visited \cup {neighbour}
           /\ d.frontier = Append(c.frontier, <<neighbour, distance + 1>>)
  <2> DEFINE last == Len(c.frontier) + 1
             new == <<neighbour, distance + 1>>
  <2>1. /\ c.frontier \in Seq(Entities \X Nat) /\ new \in Entities \X Nat
        /\ new[1] = neighbour /\ new[2] = distance + 1
    BY <1>1, <1>2 DEF Contexts
  <2>2. /\ DOMAIN d.frontier = DOMAIN c.frontier \cup {last}
        /\ DOMAIN c.frontier = 1..Len(c.frontier) /\ Len(c.frontier) \in Nat
        /\ d.frontier[last] = new
        /\ \A i \in DOMAIN c.frontier : d.frontier[i] = c.frontier[i]
    <3> HIDE DEF new
    <3> QED BY <1>9, <2>1, AppendIndexes DEF new
  <2> HIDE DEF new
  <2>3. Far(store, asked, distance + 1, neighbour)
    BY <1>6, <1>9 DEF Far
  <2>4. Exact(d, store, asked)
    <3>1. ASSUME NEW i \in DOMAIN d.frontier
          PROVE  /\ d.frontier[i][1] \in Near(store, asked, d.frontier[i][2])
                 /\ Far(store, asked, d.frontier[i][2], d.frontier[i][1])
      <4>1. CASE i \in DOMAIN c.frontier
        BY <1>6, <2>2, <4>1 DEF Exact
      <4>2. CASE i = last
        BY <1>3, <1>9, <2>1, <2>2, <2>3, <4>2
      <4> QED BY <2>2, <4>1, <4>2
    <3>2. \A x \in d.connections :
            x.kind # "property" => x.source \in d.visited /\ x.target \in d.visited
      BY <1>2, <1>6, <1>9 DEF Exact
    <3>3. d.connections \subseteq Neighbourhood(store, asked)
      BY <1>4, <1>6, <1>9 DEF Exact
    <3> QED BY <3>1, <3>2, <3>3 DEF Exact
  <2>5. Levels(d, distance)
    <3>1. \A i \in DOMAIN d.frontier : d.frontier[i][2] \in {distance, distance + 1}
      BY <1>6, <2>1, <2>2 DEF Levels
    <3>2. ASSUME NEW i \in DOMAIN d.frontier, NEW j \in DOMAIN d.frontier, i <= j
          PROVE  d.frontier[i][2] <= d.frontier[j][2]
      <4>1. CASE j = last
        <5>1. d.frontier[j][2] = distance + 1
          BY <2>1, <2>2, <4>1
        <5> QED BY <3>1, <5>1
      <4>2. CASE j \in DOMAIN c.frontier
        <5>1. i \in DOMAIN c.frontier
          BY <2>2, <3>2, <4>2
        <5> QED BY <1>6, <2>2, <3>2, <4>2, <5>1 DEF Levels
      <4> QED BY <2>2, <4>1, <4>2
    <3> QED BY <3>1, <3>2 DEF Levels
  <2>6. \A n \in d.visited : \/ n = entity \/ Done(d, store, asked, n) \/ Waits(d, n)
                             \/ Far(store, asked, asked.depth, n)
    <3>1. \A n : Done(c, store, asked, n) => Done(d, store, asked, n)
      <4>1. c.connections \subseteq d.connections /\ c.visited \subseteq d.visited
        BY <1>9
      <4> QED BY <4>1, GrowingKeeps
    <3>2. \A n : Waits(c, n) => Waits(d, n)
      BY <2>2 DEF Waits
    <3>3. Waits(d, neighbour)
      BY <2>1, <2>2 DEF Waits
    <3> QED BY <1>6, <1>9, <3>1, <3>2, <3>3
  <2>7. \A k \in Nat : k <= distance => Near(store, asked, k) \subseteq d.visited
    BY <1>6, <1>9
  <2> QED BY <1>9, <2>4, <2>5, <2>6, <2>7 DEF Expanding, neighbour
<1> QED BY <1>5, <1>7, <1>8, <1>9

\* The first i edges of an entity have been handled.
Handled(c, some, entity, i) ==
  \A j \in 1..i : /\ some[j] \in c.connections
                  /\ some[j].kind # "property" => Neighbour(some[j], entity) \in c.visited

\* Reading some edges of an entity leaves a context coherent.  Under the limits it goes on
\* as the search does, and has them all.
LEMMA AdmitAllKeeps ==
  ASSUME NEW store \in Seq(Graph), NEW asked, asked.depth \in Nat,
         NEW c, Coherent(c, store), Visits(c),
         NEW distance \in Nat, NEW entity \in c.visited,
         NEW n \in 0..Len(Incident(store, asked, entity)),
         NEW d, d = AdmitAll(c, SubSeq(Incident(store, asked, entity), 1, n), entity, distance)
  PROVE  /\ Coherent(d, store) /\ Visits(d)
         /\ d.reasons = {} => c.reasons = {}
         /\ /\ d.reasons = {} /\ distance < asked.depth
            /\ entity \in Near(store, asked, distance)
            /\ Expanding(c, store, asked, entity, distance)
            => /\ Expanding(d, store, asked, entity, distance)
               /\ n = Len(Incident(store, asked, entity)) => Done(d, store, asked, entity)
<1> DEFINE incident == Incident(store, asked, entity)
           some == SubSeq(incident, 1, n)
<1>1. incident \in Seq(Graph) /\ Len(incident) \in Nat /\ n \in Nat /\ n <= Len(incident)
  BY IncidentElements
<1>2. /\ some \in Seq(Graph) /\ Len(some) = n
      /\ \A i \in 1..n : some[i] = incident[i] /\ some[i] \in ToSet(incident)
  <2> HIDE DEF incident
  <2>1. some \in Seq(Graph) /\ Len(some) = n /\ \A i \in 1..n : some[i] = incident[i]
    BY <1>1, SubSeqProperties
  <2>2. \A i \in 1..Len(incident) : incident[i] \in ToSet(incident)
    BY <1>1, ElementsType
  <2> QED BY <1>1, <2>1, <2>2
<1>3. entity \in Entities /\ c \in Contexts
  BY DEF Coherent, Contexts
<1>4. PICK f : AdmitAllTrace(f, c, some, entity, distance)
  <2> HIDE DEF some
  <2> QED BY <1>2, <1>3, AdmitAllChain
<1> HIDE DEF some
<1>5. /\ f \in [0..n -> Contexts] /\ f[0] = c /\ d = f[n]
      /\ \A i \in 1..n : f[i] = Admit(f[i - 1], some[i], entity, distance)
  BY <1>2, <1>4 DEF AdmitAllTrace, some, incident
<1> HIDE DEF incident
<1> DEFINE Going == /\ distance < asked.depth /\ entity \in Near(store, asked, distance)
                    /\ Expanding(c, store, asked, entity, distance)
           Good(i) == /\ Coherent(f[i], store) /\ Visits(f[i]) /\ entity \in f[i].visited
                      /\ f[i].reasons = {} => c.reasons = {}
                      /\ f[i].reasons = {} /\ Going =>
                           /\ Expanding(f[i], store, asked, entity, distance)
                           /\ Handled(f[i], some, entity, i)
           B == {i \in 0..n : ~Good(i)}
<1>6. B = {}
  <2>1. SUFFICES ASSUME B # {} PROVE FALSE
    OBVIOUS
  <2>2. B \in SUBSET Nat
    BY <1>1
  <2>3. PICK i \in B : \A k \in B : i <= k
    <3> HIDE DEF B
    <3> QED BY <2>1, <2>2, LeastElement
  <2>4. i \in 0..n /\ ~Good(i)
    BY <2>3
  <2>5. Good(0)
    BY <1>5 DEF Handled
  <2>6. i \in 1..n /\ i - 1 \in 0..n /\ ~(i <= i - 1)
    <3>1. i # 0
      BY <2>4, <2>5
    <3> QED BY <1>1, <2>4, <3>1
  <2>7. Good(i - 1)
    BY <2>3, <2>6
  <2> DEFINE a == f[i - 1]
             b == f[i]
             edge == some[i]
  <2>8. /\ Coherent(a, store) /\ Visits(a) /\ entity \in a.visited
        /\ a.reasons = {} => c.reasons = {}
        /\ a.reasons = {} /\ Going => /\ Expanding(a, store, asked, entity, distance)
                                      /\ Handled(a, some, entity, i - 1)
    BY <2>7
  <2>9. b = Admit(a, edge, entity, distance) /\ edge \in ToSet(Incident(store, asked, entity))
    BY <1>2, <1>5, <2>6 DEF incident
  <2> HIDE DEF a, b, edge, Going
  <2>10. /\ Coherent(b, store) /\ Visits(b) /\ entity \in b.visited
         /\ b.reasons = {} => a.reasons = {}
    <3>1. /\ Coherent(a, store) /\ Visits(a) /\ entity \in a.visited
          /\ b = Admit(a, edge, entity, distance) /\ edge \in ToSet(store)
          /\ edge.source = entity \/ edge.target = entity
          /\ store \in Seq(Graph) /\ distance \in Nat
      BY <2>8, <2>9, IncidentElements
    <3> QED BY ONLY <3>1, AdmitIsCoherent
  <2>11. ASSUME b.reasons = {}, Going
         PROVE  /\ Expanding(b, store, asked, entity, distance)
                /\ Handled(b, some, entity, i)
    <3>1. Expanding(a, store, asked, entity, distance) /\ Handled(a, some, entity, i - 1)
      BY <2>8, <2>10, <2>11
    <3>2. distance < asked.depth /\ entity \in Near(store, asked, distance)
      BY <2>11 DEF Going
    <3>3. /\ Expanding(b, store, asked, entity, distance)
          /\ a.connections \subseteq b.connections /\ a.visited \subseteq b.visited
          /\ edge \in b.connections
          /\ edge.kind # "property" => Neighbour(edge, entity) \in b.visited
      BY <2>8, <2>9, <2>11, <3>1, <3>2, AdmitKeeps
    <3>4. \A j \in 1..i : j = i \/ j \in 1..(i - 1)
      BY <1>1, <2>6
    <3> QED BY <3>1, <3>3, <3>4 DEF Handled, edge
  <2>12. Good(i)
    BY <2>8, <2>10, <2>11 DEF b, Going
  <2> QED BY <2>4, <2>12
<1>7. Good(n)
  <2>1. n \in 0..n
    BY <1>1
  <2> QED BY <1>6, <2>1
<1>8. ASSUME Handled(d, some, entity, n), n = Len(incident)
      PROVE  Done(d, store, asked, entity)
  <2>1. SUFFICES ASSUME NEW e \in ToSet(incident)
                 PROVE  e \in d.connections /\ (e.kind # "property" => Neighbour(e, entity) \in d.visited)
    BY DEF Done, incident
  <2>2. PICK j \in 1..n : e = incident[j]
    <3>1. DOMAIN incident = 1..n
      BY <1>1, <1>8
    <3> QED BY <3>1 DEF ToSet
  <2> QED BY <1>2, <1>8, <2>2 DEF Handled
<1> QED BY <1>5, <1>7, <1>8 DEF incident

\* While a search is under its limits, between two expansions: an entity that has been
\* visited has all its edges, or waits, or is too far away to be expanded.
Searching(c, store, asked) ==
  /\ Exact(c, store, asked)
  /\ \A i \in DOMAIN c.frontier : c.frontier[i][2] <= asked.depth
  /\ \A i, j \in DOMAIN c.frontier :
       /\ c.frontier[j][2] <= c.frontier[i][2] + 1
       /\ i <= j => c.frontier[i][2] <= c.frontier[j][2]
  /\ \A n \in c.visited : \/ Done(c, store, asked, n) \/ Waits(c, n)
                          \/ Far(store, asked, asked.depth, n)

\* When nothing nearer than m hops waits, all within m hops has been visited, and what is
\* nearer has all its edges.
LEMMA ReachOfSearch ==
  ASSUME NEW store \in Seq(Graph), NEW asked, asked.depth \in Nat,
         NEW c \in Contexts, Source \in c.visited, Searching(c, store, asked),
         NEW m \in Nat, m <= asked.depth,
         \A i \in DOMAIN c.frontier : m <= c.frontier[i][2]
  PROVE  /\ \A k \in Nat : k <= m => Near(store, asked, k) \subseteq c.visited
         /\ \A k \in Nat : \A n \in Near(store, asked, k) : k < m => Done(c, store, asked, n)
<1>1. c.frontier \in Seq(Entities \X Nat) /\ \A i \in DOMAIN c.frontier : c.frontier[i][2] \in Nat
  BY DEF Contexts
<1>2. ASSUME NEW k \in Nat, k < m, Near(store, asked, k) \subseteq c.visited,
             NEW n \in Near(store, asked, k)
      PROVE  Done(c, store, asked, n)
  <2>1. ~Far(store, asked, asked.depth, n)
    BY <1>2 DEF Far
  <2>2. ~Waits(c, n)
    <3>1. SUFFICES ASSUME NEW i \in DOMAIN c.frontier, c.frontier[i][1] = n PROVE FALSE
      BY DEF Waits
    <3>2. Far(store, asked, c.frontier[i][2], n)
      BY <3>1 DEF Searching, Exact
    <3>3. k < c.frontier[i][2]
      BY <1>1, <1>2
    <3> QED BY <1>2, <3>2, <3>3 DEF Far
  <2>3. n \in c.visited
    BY <1>2
  <2> QED BY <2>1, <2>2, <2>3 DEF Searching
<1> DEFINE Bad == {k \in 0..m : ~(Near(store, asked, k) \subseteq c.visited)}
<1>3. Bad = {}
  <2>1. SUFFICES ASSUME Bad # {} PROVE FALSE
    OBVIOUS
  <2>2. Bad \in SUBSET Nat
    OBVIOUS
  <2>3. PICK k \in Bad : \A j \in Bad : k <= j
    <3> HIDE DEF Bad
    <3> QED BY <2>1, <2>2, LeastElement
  <2>4. k \in Nat /\ k <= m /\ ~(Near(store, asked, k) \subseteq c.visited)
    BY <2>3
  <2>5. k # 0
    <3>1. Near(store, asked, 0) = {Source}
      BY NearLaws
    <3> QED BY <2>4, <3>1
  <2> DEFINE j == k - 1
  <2>6. j \in Nat /\ j < m /\ k = j + 1 /\ j \in 0..m /\ ~(k <= j)
    BY <2>4, <2>5
  <2>7. Near(store, asked, j) \subseteq c.visited
    BY <2>3, <2>6
  <2> HIDE DEF j, Bad
  <2>8. Near(store, asked, k) =
          Near(store, asked, j) \cup Around(store, asked, Near(store, asked, j))
    BY <2>6, NearLaws
  <2>9. Around(store, asked, Near(store, asked, j)) \subseteq c.visited
    <3>1. SUFFICES ASSUME NEW n \in Near(store, asked, j), NEW e \in Hops(ToSet(store), asked, n)
                   PROVE  Neighbour(e, n) \in c.visited
      BY DEF Around
    <3>2. Done(c, store, asked, n)
      BY <1>2, <2>6, <2>7
    <3>3. e \in ToSet(Incident(store, asked, n)) /\ e.kind # "property"
      BY HopsAreIncident
    <3> QED BY <3>2, <3>3 DEF Done
  <2> QED BY <2>4, <2>7, <2>8, <2>9
<1>4. ASSUME NEW k \in Nat, k <= m PROVE Near(store, asked, k) \subseteq c.visited
  BY <1>3, <1>4
<1>5. ASSUME NEW k \in Nat, NEW n \in Near(store, asked, k), k < m PROVE Done(c, store, asked, n)
  BY <1>2, <1>4, <1>5
<1> QED BY <1>4, <1>5

\* A search that has come to its end has the whole neighbourhood.
LEMMA SearchIsComplete ==
  ASSUME NEW store \in Seq(Graph), NEW asked, asked.depth \in Nat,
         NEW c \in Contexts, Source \in c.visited, Searching(c, store, asked),
         c.frontier = <<>>
  PROVE  c.connections = Neighbourhood(store, asked)
<1>1. DOMAIN c.frontier = {}
  OBVIOUS
<1>2. \A k \in Nat : \A n \in Near(store, asked, k) :
        k < asked.depth => Done(c, store, asked, n)
  BY <1>1, ReachOfSearch
<1>3. ASSUME NEW e \in Neighbourhood(store, asked) PROVE e \in c.connections
  <2>1. PICK k \in Nat : \E n \in Near(store, asked, k) :
               k < asked.depth /\ e \in ToSet(Incident(store, asked, n))
    BY <1>3, NeighbourhoodElements
  <2>2. PICK n \in Near(store, asked, k) :
               k < asked.depth /\ e \in ToSet(Incident(store, asked, n))
    BY <2>1
  <2> QED BY <1>2, <2>2 DEF Done
<1> QED BY <1>3 DEF Searching, Exact

\* The first of the frontier is taken from it.
Dequeued(rest, c) == rest = [c EXCEPT !.frontier = Tail(@)]

\* What is left of the frontier, position by position.
LEMMA FrontierTail ==
  ASSUME NEW c \in Contexts, c.frontier # <<>>, NEW rest, Dequeued(rest, c)
  PROVE  /\ rest \in Contexts /\ rest.nodes = c.nodes /\ rest.connections = c.connections
         /\ rest.visited = c.visited /\ rest.reasons = c.reasons
         /\ 1 \in DOMAIN c.frontier /\ Head(c.frontier) = c.frontier[1]
         /\ \A i \in DOMAIN c.frontier : c.frontier[i] \in Entities \X Nat
         /\ DOMAIN c.frontier \subseteq Nat /\ DOMAIN rest.frontier \subseteq Nat
         /\ \A i \in DOMAIN rest.frontier :
              i + 1 \in DOMAIN c.frontier /\ rest.frontier[i] = c.frontier[i + 1]
         /\ \A i \in DOMAIN c.frontier :
              i = 1 \/ (i - 1 \in DOMAIN rest.frontier /\ rest.frontier[i - 1] = c.frontier[i])
<1>1. c.frontier \in Seq(Entities \X Nat)
  BY DEF Contexts
<1>2. /\ rest.frontier = Tail(c.frontier) /\ rest.nodes = c.nodes
      /\ rest.connections = c.connections /\ rest.visited = c.visited
      /\ rest.reasons = c.reasons
      /\ rest = [nodes |-> c.nodes, connections |-> c.connections,
                 frontier |-> Tail(c.frontier), visited |-> c.visited, reasons |-> c.reasons]
  BY DEF Contexts, Dequeued
<1>3. /\ Tail(c.frontier) \in Seq(Entities \X Nat) /\ Len(Tail(c.frontier)) = Len(c.frontier) - 1
      /\ Head(c.frontier) = c.frontier[1] /\ Len(c.frontier) \in Nat \ {0}
      /\ \A i \in 1..(Len(c.frontier) - 1) : Tail(c.frontier)[i] = c.frontier[i + 1]
      /\ DOMAIN c.frontier = 1..Len(c.frontier)
      /\ DOMAIN Tail(c.frontier) = 1..(Len(c.frontier) - 1)
  BY <1>1
<1>4. rest \in Contexts
  BY <1>2, <1>3 DEF Contexts
<1>5. \A i \in DOMAIN c.frontier : c.frontier[i] \in Entities \X Nat
  BY <1>1
<1>6. \A i \in 1..Len(c.frontier) : i = 1 \/ (i - 1 \in 1..(Len(c.frontier) - 1) /\ i = (i - 1) + 1)
  BY <1>3
<1> QED BY <1>2, <1>3, <1>4, <1>5, <1>6

\* Taking the first from the frontier leaves a context coherent, and everything else waiting.
LEMMA TailKeeps ==
  ASSUME NEW store \in Seq(Graph), NEW asked, NEW c, Coherent(c, store), Visits(c),
         c.frontier # <<>>, NEW rest, Dequeued(rest, c)
  PROVE  /\ Coherent(rest, store) /\ Visits(rest) /\ rest.reasons = c.reasons
         /\ Head(c.frontier)[1] \in rest.visited /\ Head(c.frontier)[2] \in Nat
         /\ \A n : Waits(c, n) => n = Head(c.frontier)[1] \/ Waits(rest, n)
         /\ \A n : Done(c, store, asked, n) => Done(rest, store, asked, n)
         /\ Exact(c, store, asked) => Exact(rest, store, asked)
<1>1. c \in Contexts
  BY DEF Coherent
<1>2. /\ rest \in Contexts /\ rest.nodes = c.nodes /\ rest.connections = c.connections
      /\ rest.visited = c.visited /\ rest.reasons = c.reasons
      /\ 1 \in DOMAIN c.frontier /\ Head(c.frontier) = c.frontier[1]
      /\ \A i \in DOMAIN c.frontier : c.frontier[i] \in Entities \X Nat
      /\ \A i \in DOMAIN rest.frontier :
           i + 1 \in DOMAIN c.frontier /\ rest.frontier[i] = c.frontier[i + 1]
      /\ \A i \in DOMAIN c.frontier :
           i = 1 \/ (i - 1 \in DOMAIN rest.frontier /\ rest.frontier[i - 1] = c.frontier[i])
  BY <1>1, FrontierTail
<1>3. Coherent(rest, store) /\ Visits(rest)
  BY <1>2 DEF Coherent, Visits
<1>4. Head(c.frontier)[1] \in rest.visited /\ Head(c.frontier)[2] \in Nat
  BY <1>2 DEF Visits
<1>5. ASSUME NEW n, Waits(c, n) PROVE n = Head(c.frontier)[1] \/ Waits(rest, n)
  BY <1>2, <1>5 DEF Waits
<1>6. ASSUME NEW n, Done(c, store, asked, n) PROVE Done(rest, store, asked, n)
  BY <1>2, <1>6 DEF Done
<1>7. ASSUME Exact(c, store, asked) PROVE Exact(rest, store, asked)
  BY <1>2, <1>7 DEF Exact
<1> QED BY <1>2, <1>3, <1>4, <1>5, <1>6, <1>7

\* What is as far away as the depth is not expanded.
LEMMA DropKeeps ==
  ASSUME NEW store \in Seq(Graph), NEW asked, asked.depth \in Nat,
         NEW c, Coherent(c, store), Visits(c), c.frontier # <<>>,
         NEW rest, Dequeued(rest, c),
         Searching(c, store, asked), Head(c.frontier)[2] >= asked.depth
  PROVE  Searching(rest, store, asked)
<1>1. c \in Contexts
  BY DEF Coherent
<1>2. /\ rest.visited = c.visited
      /\ 1 \in DOMAIN c.frontier /\ Head(c.frontier) = c.frontier[1]
      /\ \A i \in DOMAIN c.frontier : c.frontier[i] \in Entities \X Nat
      /\ DOMAIN rest.frontier \subseteq Nat
      /\ \A i \in DOMAIN rest.frontier :
           i + 1 \in DOMAIN c.frontier /\ rest.frontier[i] = c.frontier[i + 1]
  BY <1>1, FrontierTail
<1>3. /\ \A n : Waits(c, n) => n = Head(c.frontier)[1] \/ Waits(rest, n)
      /\ \A n : Done(c, store, asked, n) => Done(rest, store, asked, n)
      /\ Exact(c, store, asked) => Exact(rest, store, asked)
  BY TailKeeps
<1>4. Far(store, asked, asked.depth, Head(c.frontier)[1])
  <2>1. Far(store, asked, c.frontier[1][2], c.frontier[1][1])
    BY <1>2 DEF Searching, Exact
  <2>2. c.frontier[1][2] = asked.depth
    BY <1>2 DEF Searching
  <2> QED BY <1>2, <2>1, <2>2
<1>5. /\ \A i \in DOMAIN rest.frontier : rest.frontier[i][2] <= asked.depth
      /\ \A i, j \in DOMAIN rest.frontier :
           /\ rest.frontier[j][2] <= rest.frontier[i][2] + 1
           /\ i <= j => rest.frontier[i][2] <= rest.frontier[j][2]
  <2>1. \A i \in DOMAIN rest.frontier : rest.frontier[i][2] <= asked.depth
    BY <1>2 DEF Searching
  <2>2. ASSUME NEW i \in DOMAIN rest.frontier, NEW j \in DOMAIN rest.frontier
        PROVE  /\ rest.frontier[j][2] <= rest.frontier[i][2] + 1
               /\ i <= j => rest.frontier[i][2] <= rest.frontier[j][2]
    <3>1. /\ i + 1 \in DOMAIN c.frontier /\ rest.frontier[i] = c.frontier[i + 1]
          /\ j + 1 \in DOMAIN c.frontier /\ rest.frontier[j] = c.frontier[j + 1]
          /\ i <= j => i + 1 <= j + 1
      BY <1>2
    <3> QED BY <3>1 DEF Searching
  <2> QED BY <2>1, <2>2
<1>6. \A n \in rest.visited : \/ Done(rest, store, asked, n) \/ Waits(rest, n)
                              \/ Far(store, asked, asked.depth, n)
  BY <1>2, <1>3, <1>4 DEF Searching
<1> QED BY <1>3, <1>5, <1>6 DEF Searching

\* The first of the frontier is expanded.
LEMMA ExpansionStarts ==
  ASSUME NEW store \in Seq(Graph), NEW asked, asked.depth \in Nat,
         NEW c, Coherent(c, store), Visits(c), c.frontier # <<>>,
         NEW rest, Dequeued(rest, c),
         NEW entity, entity = Head(c.frontier)[1],
         NEW distance, distance = Head(c.frontier)[2],
         Searching(c, store, asked), distance < asked.depth
  PROVE  /\ Expanding(rest, store, asked, entity, distance)
         /\ entity \in Near(store, asked, distance)
<1>1. c \in Contexts /\ Source \in c.visited
  BY DEF Coherent, Visits
<1>2. /\ rest.visited = c.visited
      /\ 1 \in DOMAIN c.frontier /\ Head(c.frontier) = c.frontier[1]
      /\ \A i \in DOMAIN c.frontier : c.frontier[i] \in Entities \X Nat
      /\ DOMAIN c.frontier \subseteq Nat /\ DOMAIN rest.frontier \subseteq Nat
      /\ \A i \in DOMAIN rest.frontier :
           i + 1 \in DOMAIN c.frontier /\ rest.frontier[i] = c.frontier[i + 1]
  BY <1>1, FrontierTail
<1>3. /\ \A n : Waits(c, n) => n = entity \/ Waits(rest, n)
      /\ \A n : Done(c, store, asked, n) => Done(rest, store, asked, n)
      /\ Exact(c, store, asked) => Exact(rest, store, asked)
  BY TailKeeps
<1>4. distance \in Nat /\ \A i \in DOMAIN c.frontier : i >= 1 /\ c.frontier[i][2] \in Nat
  BY <1>1, <1>2 DEF Contexts
<1>5. \A i \in DOMAIN c.frontier :
        distance <= c.frontier[i][2] /\ c.frontier[i][2] <= distance + 1
  BY <1>2, <1>4 DEF Searching
<1>6. entity \in Near(store, asked, distance)
  BY <1>2 DEF Searching, Exact
<1>7. \A k \in Nat : k <= distance => Near(store, asked, k) \subseteq rest.visited
  <2>1. distance \in Nat /\ distance <= asked.depth
    BY <1>4
  <2>2. \A i \in DOMAIN c.frontier : distance <= c.frontier[i][2]
    BY <1>5
  <2>3. \A k \in Nat : k <= distance => Near(store, asked, k) \subseteq c.visited
    BY <1>1, <2>1, <2>2, ReachOfSearch
  <2> QED BY <1>2, <2>3
<1>8. Levels(rest, distance)
  <2>1. \A i \in DOMAIN rest.frontier : rest.frontier[i][2] \in {distance, distance + 1}
    BY <1>2, <1>4, <1>5
  <2>2. ASSUME NEW i \in DOMAIN rest.frontier, NEW j \in DOMAIN rest.frontier, i <= j
        PROVE  rest.frontier[i][2] <= rest.frontier[j][2]
    <3>1. /\ i + 1 \in DOMAIN c.frontier /\ rest.frontier[i] = c.frontier[i + 1]
          /\ j + 1 \in DOMAIN c.frontier /\ rest.frontier[j] = c.frontier[j + 1]
          /\ i + 1 <= j + 1
      BY <1>2, <2>2
    <3> QED BY <3>1 DEF Searching
  <2> QED BY <2>1, <2>2 DEF Levels
<1>9. \A n \in rest.visited : \/ n = entity \/ Done(rest, store, asked, n) \/ Waits(rest, n)
                              \/ Far(store, asked, asked.depth, n)
  BY <1>2, <1>3 DEF Searching
<1>10. Exact(rest, store, asked)
  BY <1>3 DEF Searching
<1> QED BY <1>6, <1>7, <1>8, <1>9, <1>10 DEF Expanding

\* The search goes on when the entity has been expanded.
LEMMA ExpansionEnds ==
  ASSUME NEW store, NEW asked, asked.depth \in Nat, NEW c \in Contexts,
         NEW entity, NEW distance \in Nat, distance < asked.depth,
         Expanding(c, store, asked, entity, distance), Done(c, store, asked, entity)
  PROVE  Searching(c, store, asked)
<1>1. \A i \in DOMAIN c.frontier : c.frontier[i][2] <= asked.depth
  BY DEF Expanding, Levels
<1>2. \A i, j \in DOMAIN c.frontier :
        /\ c.frontier[j][2] <= c.frontier[i][2] + 1
        /\ i <= j => c.frontier[i][2] <= c.frontier[j][2]
  BY DEF Expanding, Levels
<1>3. \A n \in c.visited : \/ Done(c, store, asked, n) \/ Waits(c, n)
                           \/ Far(store, asked, asked.depth, n)
  BY DEF Expanding
<1> QED BY <1>1, <1>2, <1>3 DEF Searching, Expanding

\* Reading edges of an entity and then running out of candidates.
Interrupted(d, c) == d = [c EXCEPT !.reasons = @ \cup {"candidate_limit"}]

\* The context is coherent when the candidates run out, and says that they did.
LEMMA InterruptedKeeps ==
  ASSUME NEW store, NEW c, Coherent(c, store), Visits(c), NEW d, Interrupted(d, c)
  PROVE  Coherent(d, store) /\ Visits(d) /\ d.reasons # {}
<1>1. c \in Contexts
  BY DEF Coherent
<1>2. /\ d.nodes = c.nodes /\ d.connections = c.connections /\ d.visited = c.visited
      /\ d.frontier = c.frontier /\ d.reasons = c.reasons \cup {"candidate_limit"}
      /\ d \in Contexts
  BY <1>1 DEF Contexts, Limits, Interrupted
<1> QED BY <1>2 DEF Coherent, Visits

\* An expansion: the search goes on, or the context says why it has been cut short.
Expanded(d, c, store, asked) ==
  LET entity == Head(c.frontier)[1]
      distance == Head(c.frontier)[2]
      incident == Incident(store, asked, entity)
  IN \E rest :
       /\ Dequeued(rest, c)
       /\ \/ distance >= asked.depth /\ d = rest
          \/ /\ ~(distance >= asked.depth)
             /\ d = AdmitAll(rest, SubSeq(incident, 1, Len(incident)), entity, distance)
          \/ \E n \in 0..Len(incident) :
               Interrupted(d, AdmitAll(rest, SubSeq(incident, 1, n), entity, distance))

\* An expansion keeps what is known of a search.
LEMMA ExpandedKeeps ==
  ASSUME NEW store \in Seq(Graph), NEW asked, asked.depth \in Nat,
         NEW c, Coherent(c, store), Visits(c), c.frontier # <<>>,
         c.reasons = {} => Searching(c, store, asked),
         NEW d, Expanded(d, c, store, asked)
  PROVE  Coherent(d, store) /\ Visits(d) /\ (d.reasons = {} => Searching(d, store, asked))
<1> DEFINE entity == Head(c.frontier)[1]
           distance == Head(c.frontier)[2]
           incident == Incident(store, asked, entity)
<1>1. PICK rest :
        /\ Dequeued(rest, c)
        /\ \/ distance >= asked.depth /\ d = rest
           \/ /\ ~(distance >= asked.depth)
              /\ d = AdmitAll(rest, SubSeq(incident, 1, Len(incident)), entity, distance)
           \/ \E n \in 0..Len(incident) :
                Interrupted(d, AdmitAll(rest, SubSeq(incident, 1, n), entity, distance))
  BY DEF Expanded
<1>2. /\ Coherent(rest, store) /\ Visits(rest) /\ rest.reasons = c.reasons
      /\ entity \in rest.visited /\ distance \in Nat
  BY <1>1, TailKeeps
<1>3. Len(incident) \in Nat
  BY IncidentElements
<1>4. ASSUME NEW n \in 0..Len(incident), NEW read,
             read = AdmitAll(rest, SubSeq(incident, 1, n), entity, distance)
      PROVE  /\ Coherent(read, store) /\ Visits(read)
             /\ read.reasons = {} => rest.reasons = {}
             /\ /\ read.reasons = {} /\ distance < asked.depth
                /\ entity \in Near(store, asked, distance)
                /\ Expanding(rest, store, asked, entity, distance)
                => /\ Expanding(read, store, asked, entity, distance)
                   /\ n = Len(incident) => Done(read, store, asked, entity)
  <2> HIDE DEF entity, distance
  <2> QED BY <1>2, <1>4, AdmitAllKeeps
<1>5. CASE distance >= asked.depth /\ d = rest
  <2>1. d.reasons = {} => Searching(d, store, asked)
    BY <1>1, <1>2, <1>5, DropKeeps
  <2> QED BY <1>2, <1>5, <2>1
<1>6. CASE /\ ~(distance >= asked.depth)
           /\ d = AdmitAll(rest, SubSeq(incident, 1, Len(incident)), entity, distance)
  <2>1. Len(incident) \in 0..Len(incident) /\ distance < asked.depth
    BY <1>2, <1>3, <1>6
  <2>2. /\ Coherent(d, store) /\ Visits(d) /\ (d.reasons = {} => rest.reasons = {})
        /\ /\ d.reasons = {} /\ distance < asked.depth
           /\ entity \in Near(store, asked, distance)
           /\ Expanding(rest, store, asked, entity, distance)
           => /\ Expanding(d, store, asked, entity, distance)
              /\ Done(d, store, asked, entity)
    BY <1>4, <1>6, <2>1
  <2>3. ASSUME d.reasons = {} PROVE Searching(d, store, asked)
    <3>1. Searching(c, store, asked)
      BY <1>2, <2>2, <2>3
    <3>2. Expanding(rest, store, asked, entity, distance) /\ entity \in Near(store, asked, distance)
      BY <1>1, <2>1, <3>1, ExpansionStarts
    <3>3. Expanding(d, store, asked, entity, distance) /\ Done(d, store, asked, entity)
      BY <2>1, <2>2, <2>3, <3>2
    <3>4. d \in Contexts
      BY <2>2 DEF Coherent
    <3> HIDE DEF entity, distance
    <3> QED BY <1>2, <2>1, <3>3, <3>4, ExpansionEnds
  <2> QED BY <2>2, <2>3
<1>7. CASE \E n \in 0..Len(incident) :
             Interrupted(d, AdmitAll(rest, SubSeq(incident, 1, n), entity, distance))
  <2>1. PICK n \in 0..Len(incident) :
             Interrupted(d, AdmitAll(rest, SubSeq(incident, 1, n), entity, distance))
    BY <1>7
  <2> DEFINE read == AdmitAll(rest, SubSeq(incident, 1, n), entity, distance)
  <2>2. Coherent(read, store) /\ Visits(read)
    BY <1>4
  <2> HIDE DEF read
  <2>3. Interrupted(d, read)
    BY <2>1 DEF read
  <2> QED BY <2>2, <2>3, InterruptedKeeps
<1> QED BY <1>1, <1>5, <1>6, <1>7

\* The lesser of two numbers.
LEMMA LesserOfTwo ==
  ASSUME NEW a \in Nat, NEW b \in Nat
  PROVE  /\ Min({a, b}) \in {a, b} /\ Min({a, b}) <= a /\ Min({a, b}) <= b
BY LeastElement

\* So many of the paths as there may be.
LEMMA SomeOfThePaths ==
  ASSUME ContextAssumption, NEW all, IsFiniteSet(all), NEW some \in SUBSET all,
         Cardinality(some) = Min({Cardinality(all), MaximumPaths})
  PROVE  /\ some = {} => all = {}
         /\ ~(Cardinality(all) > MaximumPaths) => some = all
<1>1. /\ Cardinality(all) \in Nat /\ MaximumPaths \in Nat \ {0}
      /\ IsFiniteSet(some) /\ Cardinality(some) \in Nat
  BY FS_CardinalityType, FS_Subset DEF ContextAssumption
<1>2. Min({Cardinality(all), MaximumPaths}) \in {Cardinality(all), MaximumPaths}
      /\ Min({Cardinality(all), MaximumPaths}) <= Cardinality(all)
      /\ Min({Cardinality(all), MaximumPaths}) <= MaximumPaths
  BY <1>1, LesserOfTwo
<1>3. some = {} => Cardinality(some) = 0
  BY FS_EmptySet
<1>4. Cardinality(all) = 0 => all = {}
  BY FS_EmptySet
<1>5. Cardinality(all) = Cardinality(some) => some = all
  BY FS_Subset
<1> QED BY <1>1, <1>2, <1>3, <1>4, <1>5

\* The connection search: the paths are of the context, and what is said of them is true of
\* the store.
PathsAreTrue ==
  /\ paths = [paths |-> paths.paths, omitted |-> paths.omitted, status |-> paths.status,
              established |-> paths.established]
  /\ \A p \in paths.paths : ToSet(p) \subseteq context.connections
  /\ paths.status = "no_path_within_depth" => ShortestPaths(ToSet(edges), inquiry) = {}
  /\ paths.established =>
       /\ paths.paths \subseteq ShortestPaths(ToSet(edges), inquiry)
       /\ ~paths.omitted => paths.paths = ShortestPaths(ToSet(edges), inquiry)

\* What has been dropped is said to be missing.
DropsAreNamed ==
  /\ fit = [statements |-> fit.statements, details |-> fit.details, reasons |-> fit.reasons,
            stage |-> fit.stage]
  /\ fit.statements # {} => "expression_detail_byte_limit" \in fit.reasons
  /\ fit.details # {} => "neighbour_detail_byte_limit" \in fit.reasons
  /\ Querying => fit.reasons = {}

\* The whole neighbourhood, unless a reason is given.
Complete == ~Truncated => context.connections = Neighbourhood(edges, inquiry)

ContextInv ==
  /\ edges \in Seq(Graph)
  /\ inquiry = None => context = None /\ Querying
  /\ inquiry # None =>
       /\ inquiry \in Requests /\ Coherent(context, edges)
       /\ Querying => /\ Visits(context)
                      /\ context.reasons = {} => Searching(context, edges, inquiry)
       /\ ~Querying => PathsAreTrue /\ Complete
  /\ DropsAreNamed

\* The parts of a request.
LEMMA RequestParts ==
  ASSUME ContextAssumption, inquiry \in Requests
  PROVE  inquiry.depth \in Nat /\ inquiry # None
BY DEF ContextAssumption, Requests

\* A search begins.
LEMMA SearchBegins ==
  ASSUME NEW store \in Seq(Graph), NEW asked, asked.depth \in Nat, NEW c,
         c = [nodes |-> <<Source>>, connections |-> {}, frontier |-> <<<<Source, 0>>>>,
              visited |-> {Source}, reasons |-> {}]
  PROVE  Coherent(c, store) /\ Visits(c) /\ Searching(c, store, asked)
<1>1. /\ c.nodes = <<Source>> /\ c.connections = {} /\ c.frontier = <<<<Source, 0>>>>
      /\ c.visited = {Source} /\ c.reasons = {}
      /\ DOMAIN c.frontier = {1} /\ c.frontier[1][1] = Source /\ c.frontier[1][2] = 0
      /\ DOMAIN c.nodes = {1} /\ c.nodes[1] = Source /\ c.nodes # <<>>
  OBVIOUS
<1>2. Source \in Entities /\ <<Source, 0>> \in Entities \X Nat
  BY DEF Entities
<1>3. c.nodes \in Seq(Entities) /\ c.frontier \in Seq(Entities \X Nat)
  BY <1>1, <1>2
<1>4. c \in Contexts
  BY <1>1, <1>2, <1>3 DEF Contexts
<1>5. ToSet(c.nodes) = {Source}
  BY <1>1 DEF ToSet
<1>6. Coherent(c, store) /\ Visits(c)
  BY <1>1, <1>4, <1>5 DEF Coherent, Visits
<1>7. Source \in Near(store, asked, 0) /\ Far(store, asked, 0, Source)
  BY NearLaws DEF Far
<1>8. Exact(c, store, asked)
  BY <1>1, <1>7 DEF Exact
<1>9. \A n \in c.visited : Waits(c, n)
  BY <1>1 DEF Waits
<1>10. /\ \A i \in DOMAIN c.frontier : c.frontier[i][2] <= asked.depth
       /\ \A i, j \in DOMAIN c.frontier :
            /\ c.frontier[j][2] <= c.frontier[i][2] + 1
            /\ i <= j => c.frontier[i][2] <= c.frontier[j][2]
  <2>1. 0 <= asked.depth /\ 0 <= 0 + 1 /\ 0 <= 0
    OBVIOUS
  <2> QED BY ONLY <1>1, <2>1
<1> QED BY ONLY <1>6, <1>8, <1>9, <1>10 DEF Searching

\* Nothing has been asked.
LEMMA ContextInitially == ContextInit => ContextInv
BY DEF ContextInit, ContextInv, DropsAreNamed, Querying

\* A request is made.
LEMMA InquireKeepsContextInv == ContextAssumption /\ ContextInv /\ Inquire => ContextInv'
<1> SUFFICES ASSUME ContextAssumption, ContextInv, Inquire PROVE ContextInv'
  OBVIOUS
<1>1. edges' \in Seq(Graph)
  BY DEF Inquire, ContextAssumption
<1>2. inquiry' \in Requests /\ inquiry'.depth \in Nat /\ inquiry' # None
  BY DEF Inquire, Requests, ContextAssumption
<1>3. Coherent(context', edges') /\ Visits(context') /\ Searching(context', edges', inquiry')
  BY <1>1, <1>2, SearchBegins DEF Inquire
<1>4. Querying' /\ DropsAreNamed'
  BY DEF Inquire, ContextInv, DropsAreNamed, Querying
<1> QED BY <1>1, <1>2, <1>3, <1>4 DEF ContextInv

\* An entity is expanded.
LEMMA ExpandKeepsContextInv == ContextAssumption /\ ContextInv /\ Expand => ContextInv'
<1> SUFFICES ASSUME ContextAssumption, ContextInv, Expand PROVE ContextInv'
  OBVIOUS
<1>1. /\ Querying /\ context # None /\ context.frontier # <<>>
      /\ UNCHANGED <<edges, inquiry, paths, fit>>
  BY DEF Expand
<1>2. /\ inquiry # None /\ inquiry \in Requests /\ edges \in Seq(Graph)
      /\ Coherent(context, edges) /\ Visits(context)
      /\ context.reasons = {} => Searching(context, edges, inquiry)
      /\ DropsAreNamed
  BY <1>1 DEF ContextInv
<1>3. inquiry.depth \in Nat
  BY <1>2, RequestParts
<1>4. Expanded(context', context, edges, inquiry)
  <2> DEFINE entity == Head(context.frontier)[1]
             distance == Head(context.frontier)[2]
             incident == Incident(edges, inquiry, entity)
             rest == [context EXCEPT !.frontier = Tail(@)]
             Read(n) == AdmitAll(rest, SubSeq(incident, 1, n), entity, distance)
  <2>1. IF distance >= inquiry.depth THEN context' = rest
        ELSE \/ context' = Read(Len(incident))
             \/ \E n \in 0..Len(incident) :
                  context' = [Read(n) EXCEPT !.reasons = @ \cup {"candidate_limit"}]
    BY DEF Expand
  <2>2. Dequeued(rest, context)
    BY DEF Dequeued
  <2> HIDE DEF rest
  <2>3. \/ distance >= inquiry.depth /\ context' = rest
        \/ /\ ~(distance >= inquiry.depth)
           /\ context' = AdmitAll(rest, SubSeq(incident, 1, Len(incident)), entity, distance)
        \/ \E n \in 0..Len(incident) :
             Interrupted(context', AdmitAll(rest, SubSeq(incident, 1, n), entity, distance))
    BY <2>1 DEF Interrupted
  <2> QED BY <2>2, <2>3 DEF Expanded
<1>5. /\ Coherent(context', edges) /\ Visits(context')
      /\ context'.reasons = {} => Searching(context', edges, inquiry)
  BY <1>1, <1>2, <1>3, <1>4, ExpandedKeeps
<1>6. Querying' /\ DropsAreNamed'
  BY <1>1, <1>2 DEF DropsAreNamed, Querying
<1> QED BY <1>1, <1>2, <1>5, <1>6 DEF ContextInv

\* The projection has come to its end or been given up, and paths are looked for in it.
LEMMA ConnectKeepsContextInv == ContextAssumption /\ ContextInv /\ Connect => ContextInv'
<1> SUFFICES ASSUME ContextAssumption, ContextInv, Connect PROVE ContextInv'
  OBVIOUS
<1>1. /\ Querying /\ context # None /\ (context.frontier = <<>> \/ Stopped)
      /\ fit' = [fit EXCEPT !.stage = "fitting"]
      /\ UNCHANGED <<edges, inquiry, context>>
  BY DEF Connect
<1>2. /\ inquiry # None /\ inquiry \in Requests /\ edges \in Seq(Graph)
      /\ Coherent(context, edges) /\ Visits(context)
      /\ context.reasons = {} => Searching(context, edges, inquiry)
      /\ DropsAreNamed
  BY <1>1 DEF ContextInv
<1>3. inquiry.depth \in Nat
  BY <1>2, RequestParts
<1>4. /\ fit'.statements = fit.statements /\ fit'.details = fit.details
      /\ fit'.reasons = fit.reasons /\ fit'.stage = "fitting" /\ fit.reasons = {}
      /\ fit' = [statements |-> fit.statements, details |-> fit.details,
                 reasons |-> fit.reasons, stage |-> "fitting"]
  BY <1>1, <1>2 DEF DropsAreNamed
<1>5. ~Querying' /\ DropsAreNamed'
  BY <1>2, <1>4 DEF DropsAreNamed, Querying
<1> DEFINE all == ShortestPaths(context.connections, inquiry)
<1>6. PICK some \in SUBSET all :
        /\ Cardinality(some) = Min({Cardinality(all), MaximumPaths})
        /\ paths' = [paths |-> some, omitted |-> Cardinality(all) > MaximumPaths,
                     status |-> Status(some),
                     established |-> context.reasons = {} /\ some # {}]
  BY DEF Connect
<1>7. IsFiniteSet(all) /\ \A p \in all : ToSet(p) \subseteq context.connections
  <2>1. IsFiniteSet(ToSet(edges))
    BY <1>2, ElementsFinite
  <2>2. IsFiniteSet(context.connections)
    BY <1>2, <2>1, FS_Subset DEF Coherent
  <2> QED BY <1>3, <2>2, ShortestPathsFinite
<1>8. (some = {} => all = {}) /\ (~(Cardinality(all) > MaximumPaths) => some = all)
  <2> HIDE DEF all
  <2> QED BY <1>6, <1>7, SomeOfThePaths
<1>9. ASSUME context.reasons = {}
      PROVE  /\ context.connections = Neighbourhood(edges, inquiry)
             /\ all = ShortestPaths(ToSet(edges), inquiry)
  <2>1. context.frontier = <<>>
    BY <1>1, <1>9 DEF Stopped
  <2>2. context \in Contexts /\ Source \in context.visited
    BY <1>2 DEF Coherent, Visits
  <2>3. context.connections = Neighbourhood(edges, inquiry)
    BY <1>2, <1>3, <1>9, <2>1, <2>2, SearchIsComplete
  <2> QED BY <1>2, <1>3, <2>3, ShortestPathsAreNear
<1> HIDE DEF all
<1>10. /\ paths'.paths = some /\ (paths'.omitted <=> Cardinality(all) > MaximumPaths)
       /\ paths'.status = Status(some)
       /\ (paths'.established <=> context.reasons = {} /\ some # {})
       /\ paths' = [paths |-> paths'.paths, omitted |-> paths'.omitted,
                    status |-> paths'.status, established |-> paths'.established]
  BY <1>6
<1>11. paths'.status = "no_path_within_depth" => context.reasons = {} /\ some = {}
  BY <1>10 DEF Status
<1>12. PathsAreTrue'
  <2>1. \A p \in paths'.paths : ToSet(p) \subseteq context'.connections
    BY <1>1, <1>6, <1>7, <1>10
  <2>2. paths'.status = "no_path_within_depth" => ShortestPaths(ToSet(edges), inquiry) = {}
    BY <1>8, <1>9, <1>11
  <2>3. paths'.established =>
          /\ paths'.paths \subseteq ShortestPaths(ToSet(edges), inquiry)
          /\ ~paths'.omitted => paths'.paths = ShortestPaths(ToSet(edges), inquiry)
    BY <1>6, <1>8, <1>9, <1>10
  <2> QED BY <1>1, <1>10, <2>1, <2>2, <2>3 DEF PathsAreTrue
<1>13. Complete'
  BY <1>1, <1>9 DEF Complete, Truncated
<1> QED BY <1>1, <1>2, <1>5, <1>12, <1>13 DEF ContextInv

\* What is known of an answer while it is fitted.
LEMMA WhileFitted ==
  ASSUME ContextInv, BeingFitted
  PROVE  /\ inquiry # None /\ inquiry \in Requests /\ edges \in Seq(Graph)
         /\ Coherent(context, edges) /\ PathsAreTrue /\ Complete /\ DropsAreNamed
<1>1. ~Querying
  BY DEF BeingFitted, Querying
<1> QED BY <1>1 DEF ContextInv

\* A step of the fitting that drops details, or none, and says so.
LEMMA FittingKeeps ==
  ASSUME ContextInv, BeingFitted, fit'.stage # "querying", fit.reasons \subseteq fit'.reasons,
         fit' = [statements |-> fit'.statements, details |-> fit'.details,
                 reasons |-> fit'.reasons, stage |-> fit'.stage],
         fit'.statements # {} => "expression_detail_byte_limit" \in fit'.reasons,
         fit'.details # {} => "neighbour_detail_byte_limit" \in fit'.reasons,
         UNCHANGED <<edges, inquiry, context, paths>>
  PROVE  ContextInv'
<1>1. /\ inquiry # None /\ inquiry \in Requests /\ edges \in Seq(Graph)
      /\ Coherent(context, edges) /\ PathsAreTrue /\ Complete
  BY WhileFitted
<1>2. ~Querying' /\ DropsAreNamed'
  BY DEF DropsAreNamed, Querying
<1>3. PathsAreTrue'
  BY <1>1 DEF PathsAreTrue
<1>4. Complete'
  BY <1>1 DEF Complete, Truncated
<1> QED BY <1>1, <1>2, <1>3, <1>4 DEF ContextInv

\* An answer is delivered, or refused for its size.
LEMMA DeliverKeepsContextInv ==
  ContextInv /\ (Deliver \/ SizeExceeded) => ContextInv'
<1> SUFFICES ASSUME ContextInv, Deliver \/ SizeExceeded PROVE ContextInv'
  OBVIOUS
<1>1. PICK outcome \in {"delivered", "refused"} :
        /\ BeingFitted /\ fit' = [fit EXCEPT !.stage = outcome]
        /\ UNCHANGED <<edges, inquiry, context, paths>>
  BY DEF Deliver, SizeExceeded
<1>2. DropsAreNamed
  BY <1>1, WhileFitted
<1>3. /\ fit'.statements = fit.statements /\ fit'.details = fit.details
      /\ fit'.reasons = fit.reasons /\ fit'.stage # "querying"
      /\ fit' = [statements |-> fit'.statements, details |-> fit'.details,
                 reasons |-> fit'.reasons, stage |-> fit'.stage]
  BY <1>1, <1>2 DEF DropsAreNamed
<1>4. /\ fit'.statements # {} => "expression_detail_byte_limit" \in fit'.reasons
      /\ fit'.details # {} => "neighbour_detail_byte_limit" \in fit'.reasons
  BY <1>2, <1>3 DEF DropsAreNamed
<1> QED BY <1>1, <1>3, <1>4, FittingKeeps

\* Details are dropped, and the answer says so.
LEMMA OmitKeepsContextInv ==
  ContextInv /\ (OmitStatements \/ OmitDetails) => ContextInv'
<1> SUFFICES ASSUME ContextInv, OmitStatements \/ OmitDetails PROVE ContextInv'
  OBVIOUS
<1>1. CASE OmitStatements
  <2>1. /\ BeingFitted /\ UNCHANGED <<edges, inquiry, context, paths>>
        /\ \E x : fit' = [fit EXCEPT !.statements = @ \cup {x},
                                     !.reasons = @ \cup {"expression_detail_byte_limit"}]
    BY <1>1 DEF OmitStatements
  <2>2. DropsAreNamed
    BY <2>1, WhileFitted
  <2>3. PICK x : fit' = [fit EXCEPT !.statements = @ \cup {x},
                                    !.reasons = @ \cup {"expression_detail_byte_limit"}]
    BY <2>1
  <2>4. /\ fit'.statements = fit.statements \cup {x} /\ fit'.details = fit.details
        /\ fit'.reasons = fit.reasons \cup {"expression_detail_byte_limit"}
        /\ fit'.stage = fit.stage
        /\ fit' = [statements |-> fit'.statements, details |-> fit'.details,
                   reasons |-> fit'.reasons, stage |-> fit'.stage]
    BY <2>2, <2>3 DEF DropsAreNamed
  <2>5. /\ fit'.stage # "querying"
        /\ fit'.statements # {} => "expression_detail_byte_limit" \in fit'.reasons
        /\ fit'.details # {} => "neighbour_detail_byte_limit" \in fit'.reasons
    BY <2>1, <2>2, <2>4 DEF DropsAreNamed, BeingFitted
  <2> QED BY <2>1, <2>4, <2>5, FittingKeeps
<1>2. CASE OmitDetails
  <2>1. /\ BeingFitted /\ UNCHANGED <<edges, inquiry, context, paths>>
        /\ \E x : fit' = [fit EXCEPT !.details = @ \cup {x},
                                     !.reasons = @ \cup {"neighbour_detail_byte_limit"}]
    BY <1>2 DEF OmitDetails
  <2>2. DropsAreNamed
    BY <2>1, WhileFitted
  <2>3. PICK x : fit' = [fit EXCEPT !.details = @ \cup {x},
                                    !.reasons = @ \cup {"neighbour_detail_byte_limit"}]
    BY <2>1
  <2>4. /\ fit'.statements = fit.statements /\ fit'.details = fit.details \cup {x}
        /\ fit'.reasons = fit.reasons \cup {"neighbour_detail_byte_limit"}
        /\ fit'.stage = fit.stage
        /\ fit' = [statements |-> fit'.statements, details |-> fit'.details,
                   reasons |-> fit'.reasons, stage |-> fit'.stage]
    BY <2>2, <2>3 DEF DropsAreNamed
  <2>5. /\ fit'.stage # "querying"
        /\ fit'.statements # {} => "expression_detail_byte_limit" \in fit'.reasons
        /\ fit'.details # {} => "neighbour_detail_byte_limit" \in fit'.reasons
    BY <2>1, <2>2, <2>4 DEF DropsAreNamed, BeingFitted
  <2> QED BY <2>1, <2>4, <2>5, FittingKeeps
<1> QED BY <1>1, <1>2

\* All but the last.
LEMMA FrontElements ==
  ASSUME NEW S, NEW q \in Seq(S), Len(q) > 1
  PROVE  /\ Front(q) \in Seq(S) /\ Front(q) # <<>> /\ Front(q)[1] = q[1]
         /\ ToSet(q) \ {Last(q)} \subseteq ToSet(Front(q))
<1>1. /\ Front(q) \in Seq(S) /\ Len(Front(q)) = Len(q) - 1 /\ Len(q) \in Nat
      /\ \A i \in 1..(Len(q) - 1) : Front(q)[i] = q[i]
  BY DEF Front
<1>2. DOMAIN q = 1..Len(q) /\ DOMAIN Front(q) = 1..(Len(q) - 1)
  BY <1>1
<1>3. ASSUME NEW i \in 1..Len(q), q[i] # Last(q) PROVE q[i] \in ToSet(Front(q))
  <2>1. i \in 1..(Len(q) - 1)
    BY <1>1, <1>3 DEF Last
  <2> QED BY <1>1, <1>2, <2>1 DEF ToSet
<1>4. ToSet(q) \ {Last(q)} \subseteq ToSet(Front(q))
  BY <1>2, <1>3 DEF ToSet
<1> QED BY <1>1, <1>4

\* The last entity goes, with its connections and the paths that use them.
LEMMA RemoveNodeKeepsContextInv == ContextInv /\ RemoveNode => ContextInv'
<1> SUFFICES ASSUME ContextInv, RemoveNode PROVE ContextInv'
  OBVIOUS
<1> DEFINE removed == Last(context.nodes)
           kept == {e \in context.connections : removed \notin {e.source, e.target}}
<1>1. /\ BeingFitted /\ Len(context.nodes) > 1
      /\ context' = [context EXCEPT !.nodes = Front(@), !.connections = kept]
      /\ paths' = [paths EXCEPT !.paths = {p \in @ : ToSet(p) \subseteq kept},
                                !.status = "search_incomplete", !.established = FALSE]
      /\ fit' = [fit EXCEPT !.reasons = @ \cup {"byte_limit"}]
      /\ UNCHANGED <<edges, inquiry>>
  BY DEF RemoveNode
<1>2. /\ inquiry # None /\ inquiry \in Requests /\ edges \in Seq(Graph)
      /\ Coherent(context, edges) /\ PathsAreTrue /\ DropsAreNamed
  BY <1>1, WhileFitted
<1>3. /\ context \in Contexts /\ context.nodes \in Seq(Entities)
      /\ context.connections \subseteq Graph /\ context.connections \subseteq ToSet(edges)
  BY <1>2 DEF Coherent, Contexts
<1>4. /\ kept \subseteq context.connections
      /\ \A e \in kept : e.source # removed /\ e.target # removed
  OBVIOUS
<1> HIDE DEF kept, removed
<1>5. /\ context'.nodes = Front(context.nodes) /\ context'.connections = kept
      /\ context'.frontier = context.frontier /\ context'.visited = context.visited
      /\ context'.reasons = context.reasons
      /\ context' = [nodes |-> Front(context.nodes), connections |-> kept,
                     frontier |-> context.frontier, visited |-> context.visited,
                     reasons |-> context.reasons]
  BY <1>1, <1>3 DEF Contexts
<1>6. /\ Front(context.nodes) \in Seq(Entities) /\ Front(context.nodes) # <<>>
      /\ Front(context.nodes)[1] = context.nodes[1]
      /\ ToSet(context.nodes) \ {removed} \subseteq ToSet(Front(context.nodes))
  BY <1>1, <1>3, FrontElements DEF removed
<1>7. context' \in Contexts
  BY <1>3, <1>4, <1>5, <1>6 DEF Contexts
<1>8. Coherent(context', edges)
  <2>1. \A e \in kept : e.source \in ToSet(context'.nodes) /\ e.target \in ToSet(context'.nodes)
    BY <1>2, <1>4, <1>5, <1>6 DEF Coherent
  <2>2. context'.nodes # <<>> /\ context'.nodes[1] = Source
    BY <1>2, <1>5, <1>6 DEF Coherent
  <2> QED BY <1>3, <1>4, <1>5, <1>7, <2>1, <2>2 DEF Coherent
<1>9. /\ fit'.statements = fit.statements /\ fit'.details = fit.details
      /\ fit'.reasons = fit.reasons \cup {"byte_limit"} /\ fit'.stage = fit.stage
      /\ fit' = [statements |-> fit'.statements, details |-> fit'.details,
                 reasons |-> fit'.reasons, stage |-> fit'.stage]
  BY <1>1, <1>2 DEF DropsAreNamed
<1>10. ~Querying' /\ DropsAreNamed'
  BY <1>1, <1>2, <1>9 DEF DropsAreNamed, Querying, BeingFitted
<1>11. PathsAreTrue'
  <2>1. /\ paths'.paths = {p \in paths.paths : ToSet(p) \subseteq kept}
        /\ paths'.status = "search_incomplete" /\ ~paths'.established
        /\ paths' = [paths |-> paths'.paths, omitted |-> paths'.omitted,
                     status |-> paths'.status, established |-> paths'.established]
    BY <1>1, <1>2 DEF PathsAreTrue
  <2> QED BY <1>5, <2>1 DEF PathsAreTrue
<1>12. Complete'
  BY <1>9 DEF Complete, Truncated
<1> QED BY <1>1, <1>2, <1>8, <1>10, <1>11, <1>12 DEF ContextInv

\* Nothing happens.
LEMMA ContextStutters == ContextInv /\ UNCHANGED contextVars => ContextInv'
<1> SUFFICES ASSUME ContextInv, UNCHANGED contextVars PROVE ContextInv'
  OBVIOUS
<1>1. /\ edges' = edges /\ inquiry' = inquiry /\ context' = context /\ paths' = paths
      /\ fit' = fit
  BY DEF contextVars
<1> QED BY <1>1 DEF ContextInv, DropsAreNamed, PathsAreTrue, Complete, Querying, Truncated

\* What is delivered under the invariant is honest.
LEMMA ContextInvIsHonest == ContextInv => AnswersAreHonest
<1> SUFFICES ASSUME ContextInv, Delivered PROVE AnswersAreHonest
  BY DEF AnswersAreHonest
<1>1. ~Querying
  BY DEF Delivered, Querying
<1>2. Coherent(context, edges) /\ PathsAreTrue /\ Complete /\ DropsAreNamed
  BY <1>1 DEF ContextInv
<1>3. context.nodes \in Seq(Entities) /\ context.nodes # <<>> /\ context.nodes[1] = Source
  BY <1>2 DEF Coherent, Contexts
<1>4. Source \in Nodes
  <2>1. 1 \in 1..Len(context.nodes)
    BY <1>3
  <2> QED BY <1>3, <2>1, ElementsType DEF Nodes
<1>5. \A e \in context.connections : {e.source, e.target} \subseteq Nodes
  BY <1>2 DEF Coherent, Nodes
<1> QED BY <1>2, <1>4, <1>5 DEF AnswersAreHonest, PathsAreTrue, Complete, DropsAreNamed

\* Whatever limit cut the search and whatever was dropped for size, an answer hangs
\* together, is true of the store and says what it lacks.
THEOREM ContextAnswers == ContextSpec => []AnswersAreHonest
<1>1. ContextInit => ContextInv
  BY ContextInitially
<1>2. ContextInv /\ [ContextNext]_contextVars => ContextInv'
  BY ContextAssumption, InquireKeepsContextInv, ExpandKeepsContextInv,
     ConnectKeepsContextInv, DeliverKeepsContextInv, OmitKeepsContextInv,
     RemoveNodeKeepsContextInv, ContextStutters DEF ContextNext
<1>3. ContextInv => AnswersAreHonest
  BY ContextInvIsHonest
<1> QED BY <1>1, <1>2, <1>3, PTL DEF ContextSpec

-----------------------------------------------------------------------------
(* The ranks of a search.  Texts, and the keys that are made of them, are   *)
(* strictly and totally ordered, so that the best candidate and the label   *)
(* of an entity depend on which candidates there are and not on where they  *)
(* are; the ranking is the one enumeration of the entities that are found   *)
(* in the order of their keys, and the basis comes first in a key.          *)

\* Texts in binary order: a text ends before one that it is a prefix of goes on.
Letters(s) == [n \in Nat |-> IF n + 1 \in 1..Len(s) THEN s[n + 1] + 1 ELSE 0]
Less == {p \in Nat \X Nat : p[1] < p[2]}
TextOrder == {p \in Seq(Nat) \X Seq(Nat) : TextBefore(p[1], p[2])}

\* The binary order of texts is that of their letters, where an end comes before any letter.
LEMMA TextBeforeLetters ==
  ASSUME NEW s \in Seq(Nat), NEW t \in Seq(Nat)
  PROVE  /\ Letters(s) \in [Nat -> Nat]
         /\ Letters(s) = Letters(t) => s = t
         /\ TextBefore(s, t) <=> FirstDifference(Less, Nat, Letters(s), Letters(t))
<1>11. PICK p, q \in Nat : p = Len(s) /\ q = Len(t)
  OBVIOUS
<1>1. /\ DOMAIN s = 1..p /\ DOMAIN t = 1..q
      /\ \A i \in 1..p : s[i] \in Nat
      /\ \A i \in 1..q : t[i] \in Nat
  BY <1>11
<1> DEFINE f == Letters(s)
           g == Letters(t)
<1>2. /\ f \in [Nat -> Nat] /\ g \in [Nat -> Nat]
      /\ \A i \in 1..p : f[i - 1] = s[i] + 1
      /\ \A i \in 1..q : g[i - 1] = t[i] + 1
      /\ \A i \in Nat : i >= p => f[i] = 0
      /\ \A i \in Nat : i >= q => g[i] = 0
  BY <1>1, <1>11 DEF Letters
<1>9. \A i \in 1..p : i - 1 \in Nat
  BY <1>1
<1>10. \A i \in 1..q : i - 1 \in Nat
  BY <1>1
<1> HIDE DEF f, g
<1>3. ASSUME f = g PROVE s = t
  <2>1. ~(p < q)
    <3>1. SUFFICES ASSUME p < q PROVE FALSE
      OBVIOUS
    <3>2. q \in 1..q /\ q - 1 \in Nat /\ q - 1 >= p
      BY <1>1, <3>1
    <3>3. g[q - 1] = t[q] + 1 /\ f[q - 1] = 0 /\ t[q] \in Nat
      BY <1>1, <1>2, <3>2
    <3> QED BY <1>3, <3>3
  <2>2. ~(q < p)
    <3>1. SUFFICES ASSUME q < p PROVE FALSE
      OBVIOUS
    <3>2. p \in 1..p /\ p - 1 \in Nat /\ p - 1 >= q
      BY <1>1, <3>1
    <3>3. f[p - 1] = s[p] + 1 /\ g[p - 1] = 0 /\ s[p] \in Nat
      BY <1>1, <1>2, <3>2
    <3> QED BY <1>3, <3>3
  <2>3. p = q
    BY <1>1, <2>1, <2>2
  <2>5. Len(s) = Len(t)
    BY <1>11, <2>3
  <2>4. \A i \in 1..p : s[i] = t[i]
    <3> TAKE i \in 1..p
    <3>1. f[i - 1] = s[i] + 1 /\ g[i - 1] = t[i] + 1 /\ s[i] \in Nat /\ t[i] \in Nat
      BY <1>1, <1>2, <2>3
    <3> QED BY <1>3, <3>1
  <2> QED BY <1>11, <2>5, <2>4
<1>4. ASSUME NEW n \in DOMAIN s \cap DOMAIN t, s[n] < t[n], \A m \in 1..(n - 1) : s[m] = t[m]
      PROVE  FirstDifference(Less, Nat, f, g)
  <2>1. n \in Nat /\ n - 1 \in Nat /\ n \in 1..p /\ n \in 1..q
    BY <1>1
  <2>4. f[n - 1] = s[n] + 1 /\ g[n - 1] = t[n] + 1 /\ s[n] \in Nat /\ t[n] \in Nat
    BY <1>1, <1>2, <2>1
  <2>2. <<f[n - 1], g[n - 1]>> \in Less
    BY <1>4, <2>4 DEF Less
  <2>3. ASSUME NEW m \in Nat, m < n - 1 PROVE f[m] = g[m]
    <3>1. m + 1 \in 1..(n - 1) /\ m + 1 \in 1..p /\ m + 1 \in 1..q /\ (m + 1) - 1 = m
      BY <1>1, <2>1, <2>3
    <3>2. f[m] = s[m + 1] + 1 /\ g[m] = t[m + 1] + 1
      BY <1>2, <3>1
    <3> QED BY <1>4, <3>1, <3>2
  <2> QED BY <2>1, <2>2, <2>3 DEF FirstDifference
<1>5. ASSUME IsStrictPrefix(s, t)
      PROVE  FirstDifference(Less, Nat, f, g)
  <2>1. p <= q /\ \A i \in 1..p : s[i] = t[i]
    BY <1>5, <1>11, PrefixPoints DEF IsStrictPrefix
  <2>2. p < q
    <3>1. p # q
      BY <1>5, <1>11, <2>1 DEF IsStrictPrefix
    <3> QED BY <1>1, <2>1, <3>1
  <2>3. <<f[p], g[p]>> \in Less
    <3>1. f[p] = 0
      BY <1>1, <1>2
    <3>2. p + 1 \in 1..q /\ (p + 1) - 1 = p
      BY <1>1, <2>2
    <3>3. g[p] = t[p + 1] + 1 /\ t[p + 1] \in Nat
      BY <1>1, <1>2, <3>2
    <3> QED BY <3>1, <3>3 DEF Less
  <2>4. ASSUME NEW m \in Nat, m < p PROVE f[m] = g[m]
    <3>1. m + 1 \in 1..p /\ m + 1 \in 1..q /\ (m + 1) - 1 = m
      BY <1>1, <2>2, <2>4
    <3>2. f[m] = s[m + 1] + 1 /\ g[m] = t[m + 1] + 1
      BY <1>2, <3>1
    <3> QED BY <2>1, <3>1, <3>2
  <2> QED BY <1>1, <2>3, <2>4 DEF FirstDifference
<1>6. ASSUME FirstDifference(Less, Nat, f, g)
      PROVE  TextBefore(s, t)
  <2>1. PICK n \in Nat : <<f[n], g[n]>> \in Less /\ \A m \in Nat : m < n => f[m] = g[m]
    BY <1>6 DEF FirstDifference
  <2>2. f[n] < g[n] /\ f[n] \in Nat /\ g[n] \in Nat
    BY <2>1 DEF Less
  <2>3. n + 1 \in 1..q
    <3>1. ~(n >= q)
      BY <1>2, <2>2
    <3> QED BY <1>1, <3>1
  <2>4. \A m \in 1..n : m \in 1..p /\ m \in 1..q /\ s[m] = t[m]
    <3> TAKE m \in 1..n
    <3>1. m - 1 \in Nat /\ m - 1 < n /\ m \in 1..q
      BY <1>1, <2>3
    <3>2. g[m - 1] = t[m] + 1 /\ t[m] \in Nat /\ f[m - 1] = g[m - 1]
      BY <1>1, <1>2, <2>1, <3>1
    <3>6. m - 1 >= p => f[m - 1] = 0
      BY <1>2, <3>1
    <3>3. ~(m - 1 >= p)
      BY <3>2, <3>6
    <3>4. m \in 1..p
      BY <1>1, <3>1, <3>3
    <3>5. f[m - 1] = s[m] + 1 /\ s[m] \in Nat
      BY <1>1, <1>2, <3>4
    <3> QED BY <3>1, <3>2, <3>4, <3>5
  <2>5. CASE n + 1 \in 1..p
    <3>4. (n + 1) - 1 = n
      OBVIOUS
    <3>1. f[n] = s[n + 1] + 1 /\ g[n] = t[n + 1] + 1
      BY <1>2, <2>3, <2>5, <3>4
    <3>2. s[n + 1] < t[n + 1]
      BY <1>1, <2>2, <2>3, <2>5, <3>1
    <3>3. \A m \in 1..((n + 1) - 1) : s[m] = t[m]
      BY <2>4
    <3> QED BY <1>1, <2>3, <2>5, <3>2, <3>3 DEF TextBefore
  <2>6. CASE n + 1 \notin 1..p
    <3>1. p = n
      <4>1. p <= n
        BY <1>1, <2>6
      <4>2. n # 0 => n \in 1..p
        BY <2>4
      <4> QED BY <1>1, <4>1, <4>2
    <3>2. IsPrefix(s, t)
      BY <1>1, <1>11, <2>3, <2>4, <3>1, PrefixPoints
    <3>3. s # t
      BY <1>1, <1>11, <2>3, <3>1
    <3> QED BY <3>2, <3>3 DEF IsStrictPrefix, TextBefore
  <2> QED BY <2>5, <2>6
<1>7. TextBefore(s, t) <=> FirstDifference(Less, Nat, f, g)
  BY <1>4, <1>5, <1>6 DEF TextBefore
<1> QED BY <1>2, <1>3, <1>7 DEF f, g

\* Of two different texts, one comes before the other.
LEMMA TextOrderIsStrict == IsStrictOrder(TextOrder, Seq(Nat))
<1>1. IsStrictOrder(Less, Nat)
  BY DEF IsStrictOrder, Less
<1>2. IsStrictOrder(FunctionOrder(Less, Nat, Nat), [Nat -> Nat])
  BY ONLY <1>1, FunctionOrderIsStrict
<1> DEFINE R == FunctionOrder(Less, Nat, Nat)
<1>3. \A s \in Seq(Nat) : Letters(s) \in [Nat -> Nat]
  BY TextBeforeLetters
<1>4. \A s, t \in Seq(Nat) : <<s, t>> \in TextOrder <=> <<Letters(s), Letters(t)>> \in R
  BY <1>3, TextBeforeLetters DEF TextOrder, FunctionOrder
<1>5. \A s, t \in Seq(Nat) : Letters(s) = Letters(t) => s = t
  BY TextBeforeLetters
<1> HIDE DEF R
<1>6. IsStrictOrder(R, [Nat -> Nat])
  BY <1>2 DEF R
<1> QED BY <1>3, <1>4, <1>5, <1>6 DEF IsStrictOrder

\* Keys of some length.
KeyOrder(n) == FunctionOrder(TextOrder, 1..n, Seq(Nat))

\* Of two different keys, one comes before the other.
LEMMA KeyOrderIsStrict ==
  ASSUME NEW n \in Nat
  PROVE  IsStrictOrder(KeyOrder(n), [1..n -> Seq(Nat)])
<1>1. 1..n \in SUBSET Nat
  OBVIOUS
<1> QED BY ONLY <1>1, TextOrderIsStrict, FunctionOrderIsStrict DEF KeyOrder

\* How keys are compared, as an order.
LEMMA KeyBeforeIsOrder ==
  ASSUME NEW n \in Nat, NEW k \in [1..n -> Seq(Nat)], NEW l \in [1..n -> Seq(Nat)]
  PROVE  KeyBefore(k, l) <=> <<k, l>> \in KeyOrder(n)
<1>1. DOMAIN k = 1..n
  OBVIOUS
<1>2. \A j \in 1..n : k[j] \in Seq(Nat) /\ l[j] \in Seq(Nat)
  OBVIOUS
<1>3. \A j \in 1..n : TextBefore(k[j], l[j]) <=> <<k[j], l[j]>> \in TextOrder
  BY <1>2 DEF TextOrder
<1>4. \A j \in 1..n : (\A m \in 1..(j - 1) : k[m] = l[m]) <=> (\A m \in 1..n : m < j => k[m] = l[m])
  OBVIOUS
<1>5. KeyBefore(k, l) <=> FirstDifference(TextOrder, 1..n, k, l)
  BY <1>1, <1>3, <1>4 DEF KeyBefore, FirstDifference
<1> QED BY <1>5 DEF KeyOrder, FunctionOrder

\* The keys of a length.
KeysOf(n) == [1..n -> Seq(Nat)]

\* The order of keys, spelled out.
LEMMA KeyBeforeIsStrict ==
  ASSUME NEW n \in Nat
  PROVE  /\ \A k \in KeysOf(n) : ~KeyBefore(k, k)
         /\ \A k, l, m \in KeysOf(n) : KeyBefore(k, l) /\ KeyBefore(l, m) => KeyBefore(k, m)
         /\ \A k, l \in KeysOf(n) : k = l \/ KeyBefore(k, l) \/ KeyBefore(l, k)
<1>1. \A k, l \in KeysOf(n) : KeyBefore(k, l) <=> <<k, l>> \in KeyOrder(n)
  BY KeyBeforeIsOrder DEF KeysOf
<1>2. IsStrictOrder(KeyOrder(n), KeysOf(n))
  BY KeyOrderIsStrict DEF KeysOf
<1> QED BY <1>1, <1>2 DEF IsStrictOrder

\* The first of the least of some keys.
LEMMA LeastOfKeys ==
  ASSUME NEW n \in Nat, NEW D \in SUBSET Nat, IsFiniteSet(D), D # {},
         NEW keys \in [D -> KeysOf(n)]
  PROVE  /\ Least(keys) \in D
         /\ \A m \in D : ~KeyBefore(keys[m], keys[Least(keys)])
<1> DEFINE C == {T \in SUBSET D : T = {} \/ \E m \in T : \A y \in T : ~KeyBefore(keys[y], keys[m])}
<1>1. {} \in C
  OBVIOUS
<1>2. ASSUME NEW T \in SUBSET D, NEW x \in D \ T, T \in C PROVE T \cup {x} \in C
  <2>1. keys[x] \in KeysOf(n) /\ \A y \in D : keys[y] \in KeysOf(n)
    OBVIOUS
  <2>2. CASE T = {}
    <3>1. \A y \in T \cup {x} : ~KeyBefore(keys[y], keys[x])
      BY <2>1, <2>2, KeyBeforeIsStrict
    <3> QED BY <3>1
  <2>3. CASE T # {}
    <3>1. PICK m \in T : \A y \in T : ~KeyBefore(keys[y], keys[m])
      BY <1>2, <2>3
    <3>2. CASE KeyBefore(keys[x], keys[m])
      <4>1. ASSUME NEW y \in T, KeyBefore(keys[y], keys[x]) PROVE FALSE
        <5>1. keys[y] \in KeysOf(n) /\ keys[m] \in KeysOf(n)
          BY <2>1
        <5>2. KeyBefore(keys[y], keys[m])
          BY <2>1, <3>2, <4>1, <5>1, KeyBeforeIsStrict
        <5> QED BY <3>1, <5>2
      <4>2. ~KeyBefore(keys[x], keys[x])
        BY <2>1, KeyBeforeIsStrict
      <4>3. \A y \in T \cup {x} : ~KeyBefore(keys[y], keys[x])
        BY <4>1, <4>2
      <4> QED BY <4>3
    <3>3. CASE ~KeyBefore(keys[x], keys[m])
      <4>1. m \in T \cup {x} /\ \A y \in T \cup {x} : ~KeyBefore(keys[y], keys[m])
        BY <3>1, <3>3
      <4> QED BY <4>1
    <3> QED BY <3>2, <3>3
  <2> QED BY <2>2, <2>3
<1>3. SUBSET D \subseteq C
  <2> HIDE DEF C
  <2> QED BY <1>1, <1>2, SubsetInduction
<1>4. PICK m \in D : \A y \in D : ~KeyBefore(keys[y], keys[m])
  BY <1>3
<1> DEFINE E == {y \in D : keys[y] = keys[m]}
<1>5. E \in SUBSET Nat /\ E # {}
  OBVIOUS
<1>6. PICK e \in E : \A y \in E : e <= y
  BY <1>5, LeastElement
<1>7. e \in D /\ keys[e] = keys[m] /\ e \in Nat
  OBVIOUS
<1>8. \A y \in D : ~KeyBefore(keys[y], keys[e])
  BY <1>4, <1>7
<1>9. ASSUME NEW y \in D, y < e PROVE KeyBefore(keys[e], keys[y])
  <2>1. y \notin E /\ y \in Nat
    BY <1>6, <1>9
  <2>2. keys[y] # keys[e]
    BY <1>7, <2>1
  <2>3. keys[y] \in KeysOf(n) /\ keys[e] \in KeysOf(n)
    BY <1>7
  <2> QED BY <1>8, <2>2, <2>3, KeyBeforeIsStrict
<1>10. DOMAIN keys = D
  OBVIOUS
<1>11. \E i \in DOMAIN keys :
         /\ \A y \in DOMAIN keys : ~KeyBefore(keys[y], keys[i])
         /\ \A y \in DOMAIN keys : y < i => KeyBefore(keys[i], keys[y])
  BY <1>7, <1>8, <1>9, <1>10
<1> QED BY <1>10, <1>11 DEF Least

\* Elements with different keys, in the order of their keys.
Sorts(s, D, keys) ==
  /\ s \in [1..Cardinality(D) -> D]
  /\ \A m, i \in 1..Cardinality(D) : m < i => KeyBefore(keys[s[m]], keys[s[i]])

\* Elements with different keys can be put in the order of their keys.
LEMMA SortedExists ==
  ASSUME NEW n \in Nat, NEW D, IsFiniteSet(D), NEW keys \in [D -> KeysOf(n)],
         \A x, y \in D : keys[x] = keys[y] => x = y
  PROVE  \E s : Sorts(s, D, keys)
<1> DEFINE N == Cardinality(D)
           Lower(x) == {y \in D : KeyBefore(keys[y], keys[x])}
           r == [x \in D |-> Cardinality(Lower(x)) + 1]
<1>1. N \in Nat /\ \A x \in D : keys[x] \in KeysOf(n)
  BY FS_CardinalityType
<1>2. ASSUME NEW x \in D
      PROVE  /\ IsFiniteSet(Lower(x)) /\ Cardinality(Lower(x)) \in Nat
             /\ Cardinality(Lower(x)) < N
  <2>1. Lower(x) \in SUBSET D /\ x \notin Lower(x)
    BY <1>1, KeyBeforeIsStrict
  <2>2. IsFiniteSet(Lower(x)) /\ Cardinality(Lower(x)) <= N /\ (N = Cardinality(Lower(x)) => D = Lower(x))
    BY <2>1, FS_Subset
  <2>3. Cardinality(Lower(x)) \in Nat
    BY <2>2, FS_CardinalityType
  <2>4. N # Cardinality(Lower(x))
    BY <2>1, <2>2
  <2> HIDE DEF Lower, N
  <2> QED BY <1>1, <2>2, <2>3, <2>4
<1>3. ASSUME NEW x \in D, NEW y \in D, KeyBefore(keys[x], keys[y])
      PROVE  Cardinality(Lower(x)) < Cardinality(Lower(y))
  <2>1. ASSUME NEW z \in Lower(x) PROVE z \in Lower(y)
    <3>1. z \in D /\ KeyBefore(keys[z], keys[x])
      BY <2>1
    <3>2. KeyBefore(keys[z], keys[y])
      BY <1>1, <1>3, <3>1, KeyBeforeIsStrict
    <3> QED BY <3>1, <3>2
  <2>2. x \in Lower(y) /\ x \notin Lower(x)
    BY <1>1, <1>3, KeyBeforeIsStrict
  <2>3. IsFiniteSet(Lower(y)) /\ Cardinality(Lower(y)) \in Nat /\ Cardinality(Lower(x)) \in Nat
    BY <1>2
  <2> HIDE DEF Lower
  <2>4. Lower(x) \in SUBSET Lower(y) /\ Lower(y) # Lower(x)
    BY <2>1, <2>2
  <2>5. Cardinality(Lower(x)) <= Cardinality(Lower(y)) /\ Cardinality(Lower(y)) # Cardinality(Lower(x))
    BY <2>3, <2>4, FS_Subset
  <2> QED BY <2>3, <2>5
<1>4. \A x \in D : r[x] = Cardinality(Lower(x)) + 1
  OBVIOUS
<1>12. r = [x \in D |-> r[x]]
  OBVIOUS
<1> HIDE DEF Lower, N, r
<1>5. \A x \in D : r[x] \in 1..N
  BY <1>1, <1>2, <1>4
<1>6. \A x, y \in D : KeyBefore(keys[x], keys[y]) => r[x] < r[y]
  <2> TAKE x, y \in D
  <2>1. Cardinality(Lower(x)) \in Nat /\ Cardinality(Lower(y)) \in Nat
    BY <1>2
  <2>2. KeyBefore(keys[x], keys[y]) => Cardinality(Lower(x)) < Cardinality(Lower(y))
    BY <1>3
  <2> QED BY <1>4, <2>1, <2>2
<1>7. ASSUME NEW x \in D, NEW y \in D, r[x] = r[y] PROVE x = y
  <2>1. r[x] \in Nat /\ r[y] \in Nat
    BY <1>1, <1>5
  <2>2. ~KeyBefore(keys[x], keys[y]) /\ ~KeyBefore(keys[y], keys[x])
    BY <1>6, <1>7, <2>1
  <2>3. keys[x] = keys[y]
    BY <1>1, <2>2, KeyBeforeIsStrict
  <2> QED BY <2>3
<1>8. r \in Injection(D, 1..N)
  <2>1. r \in [D -> 1..N]
    BY <1>5, <1>12
  <2> QED BY <1>7, <2>1 DEF Injection, IsInjective
<1>9. r \in Surjection(D, 1..N)
  <2>1. IsFiniteSet(1..N) /\ Cardinality(1..N) = N
    BY <1>1, FS_Interval
  <2>2. Cardinality(D) = Cardinality(1..N)
    BY <2>1 DEF N
  <2> QED BY <1>8, <2>1, <2>2, FS_Injection
<1>10. \A m \in 1..N : \E x \in D : r[x] = m
  BY <1>9 DEF Surjection
<1> DEFINE s == [m \in 1..N |-> CHOOSE x \in D : r[x] = m]
<1>11. \A m \in 1..N : s[m] \in D /\ r[s[m]] = m
  BY <1>10
<1>13. s = [m \in 1..N |-> s[m]]
  OBVIOUS
<1> HIDE DEF s
<1>14. ASSUME NEW m \in 1..N, NEW i \in 1..N, m < i
       PROVE  KeyBefore(keys[s[m]], keys[s[i]])
  <2>1. s[m] \in D /\ s[i] \in D /\ r[s[m]] = m /\ r[s[i]] = i
    BY <1>11
  <2>2. ~KeyBefore(keys[s[i]], keys[s[m]])
    BY <1>6, <1>14, <2>1
  <2>3. keys[s[i]] # keys[s[m]]
    BY <1>14, <2>1
  <2> QED BY <1>1, <2>1, <2>2, <2>3, KeyBeforeIsStrict
<1>15. s \in [1..N -> D]
  BY <1>11, <1>13
<1> QED BY <1>14, <1>15 DEF Sorts, N

\* What is in the order of the keys is every element, once.
LEMMA InKeyOrderSorts ==
  ASSUME NEW n \in Nat, NEW D, IsFiniteSet(D), NEW keys \in [D -> KeysOf(n)],
         \A x, y \in D : keys[x] = keys[y] => x = y, NEW s, s = InKeyOrder(keys)
  PROVE  /\ Sorts(s, D, keys)
         /\ \A m, i \in 1..Cardinality(D) : s[m] = s[i] => m = i
         /\ \A x \in D : \E m \in 1..Cardinality(D) : s[m] = x
<1> DEFINE N == Cardinality(D)
<1>1. N \in Nat /\ DOMAIN keys = D /\ \A x \in D : keys[x] \in KeysOf(n)
  BY FS_CardinalityType
<1>2. Sorts(s, D, keys)
  <2>1. \E t : Sorts(t, D, keys)
    BY SortedExists
  <2>2. \E t \in [1..Cardinality(DOMAIN keys) -> DOMAIN keys] :
          \A m, i \in DOMAIN t : m < i => KeyBefore(keys[t[m]], keys[t[i]])
    BY <1>1, <2>1 DEF Sorts
  <2>3. s \in [1..Cardinality(DOMAIN keys) -> DOMAIN keys] /\
          \A m, i \in DOMAIN s : m < i => KeyBefore(keys[s[m]], keys[s[i]])
    BY <2>2 DEF InKeyOrder
  <2> QED BY <1>1, <2>3 DEF Sorts
<1>3. ASSUME NEW m \in 1..N, NEW i \in 1..N, s[m] = s[i] PROVE m = i
  <2>1. s[m] \in D /\ ~KeyBefore(keys[s[m]], keys[s[m]])
    BY <1>1, <1>2, KeyBeforeIsStrict DEF Sorts
  <2>2. ~(m < i)
    BY <1>2, <1>3, <2>1 DEF Sorts
  <2>3. ~(i < m)
    BY <1>2, <1>3, <2>1 DEF Sorts
  <2> QED BY <1>1, <2>2, <2>3
<1>4. s \in Injection(1..N, D)
  BY <1>2, <1>3 DEF Sorts, Injection, IsInjective
<1>5. s \in Surjection(1..N, D)
  <2>1. IsFiniteSet(1..N) /\ Cardinality(1..N) = N
    BY <1>1, FS_Interval
  <2> QED BY <1>4, <2>1, FS_Injection
<1>6. \A x \in D : \E m \in 1..N : s[m] = x
  BY <1>5 DEF Surjection
<1> QED BY <1>2, <1>3, <1>6

\* One application of the fold that defines All.
AllStep(ixs, iter) ==
  [s \in SUBSET (DOMAIN ixs) |->
     IF s = {} THEN <<>>
     ELSE iter[s \ {Max(s)}] \o ixs[Max(s)]]

\* The function that the fold defines.
LEMMA AllUnfolds ==
  ASSUME NEW ixs
  PROVE  All(ixs) = (CHOOSE iter : iter = AllStep(ixs, iter))[DOMAIN ixs]
BY DEF All, FoldLeft, MapThenFoldSet, AllStep

\* One index after the other.
AllTrace(f, T, ixs) ==
  /\ f \in [0..Len(ixs) -> Seq(T)] /\ f[0] = <<>>
  /\ \A i \in 1..Len(ixs) : f[i] = f[i - 1] \o ixs[i]
  /\ All(ixs) = f[Len(ixs)]

\* What the fold goes through.
LEMMA AllChain ==
  ASSUME NEW T, NEW ixs \in Seq(Seq(T))
  PROVE  \E f : AllTrace(f, T, ixs)
<1> DEFINE n == Len(ixs)
           V == Seq(T)
           b == <<>>
           op == [i \in 1..n |-> [q \in V |-> q \o ixs[i]]]
           iter == CHOOSE g : g = AllStep(ixs, g)
           f == [i \in 0..n |-> iter[1..i]]
<1>1. n \in Nat /\ DOMAIN ixs = 1..n
  OBVIOUS
<1>2. op \in [1..n -> [V -> V]] /\ b \in V
  <2>1. \A i \in 1..n : ixs[i] \in Seq(T)
    BY <1>1
  <2>2. \A i \in 1..n : \A q \in Seq(T) : q \o ixs[i] \in Seq(T)
    BY <2>1
  <2> QED BY <2>2
<1>3. \A i \in 1..n : \A q \in V : op[i][q] = q \o ixs[i]
  OBVIOUS
<1> HIDE DEF n, V, b, op, iter
<1>4. PICK g \in [SUBSET (1..n) -> V] : IsLeftFold(g, n, V, b, op)
  BY ONLY <1>1, <1>2, LeftFoldExists
<1>5. g = AllStep(ixs, g)
  <2>1. ASSUME NEW s \in SUBSET (1..n)
        PROVE  g[s] = IF s = {} THEN <<>>
                      ELSE g[s \ {Max(s)}] \o ixs[Max(s)]
    <3>1. CASE s = {}
      BY <1>4, <3>1 DEF b, IsLeftFold
    <3>2. CASE s # {}
      <4>1. Max(s) \in 1..n /\ s \ {Max(s)} \in SUBSET (1..n)
        BY <1>1, <3>2, GreatestOfSome
      <4>2. g[s] = op[Max(s)][g[s \ {Max(s)}]] /\ g[s \ {Max(s)}] \in V
        BY <1>4, <3>2, <4>1 DEF IsLeftFold
      <4> QED BY <1>3, <3>2, <4>1, <4>2
    <3> QED BY <3>1, <3>2
  <2>2. g = [s \in SUBSET (1..n) |-> g[s]]
    OBVIOUS
  <2> QED BY <1>1, <2>1, <2>2 DEF AllStep
<1>6. iter = AllStep(ixs, iter)
  BY <1>5 DEF iter
<1>7. \A s \in SUBSET (1..n) :
        iter[s] = IF s = {} THEN <<>>
                  ELSE iter[s \ {Max(s)}] \o ixs[Max(s)]
  <2>1. ASSUME NEW s \in SUBSET (1..n) PROVE iter[s] = AllStep(ixs, iter)[s]
    BY <1>6
  <2> QED BY <1>1, <2>1 DEF AllStep
<1>8. IsLeftFold(iter, n, V, b, op)
  <2>1. ASSUME NEW s \in SUBSET (1..n), s # {}, iter[s \ {Max(s)}] \in V
        PROVE  iter[s] = op[Max(s)][iter[s \ {Max(s)}]]
    <3>1. Max(s) \in 1..n
      BY <1>1, <2>1, GreatestOfSome
    <3> QED BY <1>3, <1>7, <2>1, <3>1
  <2> QED BY <1>7, <2>1 DEF b, IsLeftFold
<1>9. f = [i \in 0..n |-> iter[1..i]]
  OBVIOUS
<1>10. All(ixs) = f[n]
  <2>1. All(ixs) = iter[1..n] /\ n \in 0..n
    BY <1>1, AllUnfolds DEF iter
  <2> QED BY <2>1
<1> HIDE DEF f
<1>11. IsChain(f, n, V, b, op)
  BY ONLY <1>1, <1>2, <1>8, <1>9, LeftFoldChain
<1>12. /\ f \in [0..n -> V] /\ f[0] = <<>>
       /\ \A i \in 1..n : f[i] = f[i - 1] \o ixs[i]
  <2>1. /\ f \in [0..n -> V] /\ f[0] = b /\ \A i \in 1..n : f[i] = op[i][f[i - 1]]
    BY <1>11 DEF IsChain
  <2>2. \A i \in 1..n : i - 1 \in 0..n
    BY <1>1
  <2> QED BY <1>3, <2>1, <2>2 DEF b
<1> QED BY <1>10, <1>12 DEF n, V, AllTrace

\* One application of the fold that defines Distinct.
DistinctStep(releases, iter) ==
  [s \in SUBSET (DOMAIN releases) |->
     IF s = {} THEN <<>>
     ELSE IF releases[Max(s)] \in ToSet(iter[s \ {Max(s)}]) THEN iter[s \ {Max(s)}] ELSE Append(iter[s \ {Max(s)}], releases[Max(s)])]

\* The function that the fold defines.
LEMMA DistinctUnfolds ==
  ASSUME NEW releases
  PROVE  Distinct(releases) = (CHOOSE iter : iter = DistinctStep(releases, iter))[DOMAIN releases]
BY DEF Distinct, FoldLeft, MapThenFoldSet, DistinctStep

\* One release after the other.
DistinctTrace(f, releases) ==
  /\ f \in [0..Len(releases) -> Seq(Nat)] /\ f[0] = <<>>
  /\ \A i \in 1..Len(releases) : f[i] = IF releases[i] \in ToSet(f[i - 1]) THEN f[i - 1] ELSE Append(f[i - 1], releases[i])
  /\ Distinct(releases) = f[Len(releases)]

\* What the fold goes through.
LEMMA DistinctChain ==
  ASSUME NEW releases \in Seq(Nat)
  PROVE  \E f : DistinctTrace(f, releases)
<1> DEFINE n == Len(releases)
           V == Seq(Nat)
           b == <<>>
           op == [i \in 1..n |-> [q \in V |-> IF releases[i] \in ToSet(q) THEN q ELSE Append(q, releases[i])]]
           iter == CHOOSE g : g = DistinctStep(releases, g)
           f == [i \in 0..n |-> iter[1..i]]
<1>1. n \in Nat /\ DOMAIN releases = 1..n
  OBVIOUS
<1>2. op \in [1..n -> [V -> V]] /\ b \in V
  BY <1>1
<1>3. \A i \in 1..n : \A q \in V : op[i][q] = IF releases[i] \in ToSet(q) THEN q ELSE Append(q, releases[i])
  OBVIOUS
<1> HIDE DEF n, V, b, op, iter
<1>4. PICK g \in [SUBSET (1..n) -> V] : IsLeftFold(g, n, V, b, op)
  BY ONLY <1>1, <1>2, LeftFoldExists
<1>5. g = DistinctStep(releases, g)
  <2>1. ASSUME NEW s \in SUBSET (1..n)
        PROVE  g[s] = IF s = {} THEN <<>>
                      ELSE IF releases[Max(s)] \in ToSet(g[s \ {Max(s)}]) THEN g[s \ {Max(s)}] ELSE Append(g[s \ {Max(s)}], releases[Max(s)])
    <3>1. CASE s = {}
      BY <1>4, <3>1 DEF b, IsLeftFold
    <3>2. CASE s # {}
      <4>1. Max(s) \in 1..n /\ s \ {Max(s)} \in SUBSET (1..n)
        BY <1>1, <3>2, GreatestOfSome
      <4>2. g[s] = op[Max(s)][g[s \ {Max(s)}]] /\ g[s \ {Max(s)}] \in V
        BY <1>4, <3>2, <4>1 DEF IsLeftFold
      <4> QED BY <1>3, <3>2, <4>1, <4>2
    <3> QED BY <3>1, <3>2
  <2>2. g = [s \in SUBSET (1..n) |-> g[s]]
    OBVIOUS
  <2> QED BY <1>1, <2>1, <2>2 DEF DistinctStep
<1>6. iter = DistinctStep(releases, iter)
  BY <1>5 DEF iter
<1>7. \A s \in SUBSET (1..n) :
        iter[s] = IF s = {} THEN <<>>
                  ELSE IF releases[Max(s)] \in ToSet(iter[s \ {Max(s)}]) THEN iter[s \ {Max(s)}] ELSE Append(iter[s \ {Max(s)}], releases[Max(s)])
  <2>1. ASSUME NEW s \in SUBSET (1..n) PROVE iter[s] = DistinctStep(releases, iter)[s]
    BY <1>6
  <2> QED BY <1>1, <2>1 DEF DistinctStep
<1>8. IsLeftFold(iter, n, V, b, op)
  <2>1. ASSUME NEW s \in SUBSET (1..n), s # {}, iter[s \ {Max(s)}] \in V
        PROVE  iter[s] = op[Max(s)][iter[s \ {Max(s)}]]
    <3>1. Max(s) \in 1..n
      BY <1>1, <2>1, GreatestOfSome
    <3> QED BY <1>3, <1>7, <2>1, <3>1
  <2> QED BY <1>7, <2>1 DEF b, IsLeftFold
<1>9. f = [i \in 0..n |-> iter[1..i]]
  OBVIOUS
<1>10. Distinct(releases) = f[n]
  <2>1. Distinct(releases) = iter[1..n] /\ n \in 0..n
    BY <1>1, DistinctUnfolds DEF iter
  <2> QED BY <2>1
<1> HIDE DEF f
<1>11. IsChain(f, n, V, b, op)
  BY ONLY <1>1, <1>2, <1>8, <1>9, LeftFoldChain
<1>12. /\ f \in [0..n -> V] /\ f[0] = <<>>
       /\ \A i \in 1..n : f[i] = IF releases[i] \in ToSet(f[i - 1]) THEN f[i - 1] ELSE Append(f[i - 1], releases[i])
  <2>1. /\ f \in [0..n -> V] /\ f[0] = b /\ \A i \in 1..n : f[i] = op[i][f[i - 1]]
    BY <1>11 DEF IsChain
  <2>2. \A i \in 1..n : i - 1 \in 0..n
    BY <1>1
  <2> QED BY <1>3, <2>1, <2>2 DEF b
<1> QED BY <1>10, <1>12 DEF n, V, DistinctTrace

\* The candidates of some indexes are those of each.
LEMMA AllElements ==
  ASSUME NEW T, NEW ixs \in Seq(Seq(T))
  PROVE  /\ All(ixs) \in Seq(T)
         /\ ToSet(All(ixs)) = UNION {ToSet(ixs[i]) : i \in 1..Len(ixs)}
<1>1. PICK f : AllTrace(f, T, ixs)
  BY AllChain
<1>2. PICK n \in Nat : n = Len(ixs)
  OBVIOUS
<1>3. /\ f \in [0..n -> Seq(T)] /\ f[0] = <<>>
      /\ \A i \in 1..n : f[i] = f[i - 1] \o ixs[i]
      /\ All(ixs) = f[n] /\ \A i \in 1..n : ixs[i] \in Seq(T)
  <2>1. \A i \in 1..n : ixs[i] \in Seq(T)
    BY <1>2
  <2>2. AllTrace(f, T, ixs) /\ n = Len(ixs)
    BY <1>1, <1>2
  <2> QED BY <2>1, <2>2 DEF AllTrace
<1>4. \A i \in 1..n : i - 1 \in 0..n
  BY <1>2
<1>5. \A i \in 1..n : ToSet(f[i]) = ToSet(f[i - 1]) \cup ToSet(ixs[i])
  <2> TAKE i \in 1..n
  <2>1. f[i - 1] \in Seq(T) /\ ixs[i] \in Seq(T)
    BY <1>3, <1>4
  <2>2. ToSet(f[i - 1] \o ixs[i]) = ToSet(f[i - 1]) \cup ToSet(ixs[i])
    BY <2>1, ConcatElements
  <2> QED BY <1>3, <2>2
<1> DEFINE Union(j) == UNION {ToSet(ixs[i]) : i \in 1..j}
           B == {j \in 0..n : ToSet(f[j]) # Union(j)}
<1>6. 0 \notin B
  <2>1. 1..0 = {} /\ ToSet(f[0]) = {}
    BY <1>3, ElementsEmpty
  <2> QED BY <2>1
<1>7. ASSUME NEW j \in 1..n, j - 1 \notin B PROVE j \notin B
  <2>1. ToSet(f[j - 1]) = Union(j - 1)
    BY <1>4, <1>7
  <2>2. 1..j = 1..(j - 1) \cup {j}
    OBVIOUS
  <2>3. Union(j) = Union(j - 1) \cup ToSet(ixs[j])
    BY <2>2
  <2> QED BY <1>5, <2>1, <2>3
<1>8. B = {}
  <2>1. SUFFICES ASSUME B # {} PROVE FALSE
    OBVIOUS
  <2>2. B \in SUBSET Nat
    OBVIOUS
  <2>3. PICK j \in B : \A k \in B : j <= k
    BY <2>1, <2>2, LeastElement
  <2>4. j \in 0..n /\ j # 0
    BY <1>6, <2>3
  <2> HIDE DEF B
  <2>5. j \in 1..n /\ j - 1 \notin B
    BY <2>3, <2>4
  <2> QED BY <1>7, <2>3, <2>5
<1>9. n \in 0..n
  OBVIOUS
<1>10. ToSet(f[n]) = Union(n)
  BY <1>8, <1>9
<1> QED BY <1>2, <1>3, <1>9, <1>10

\* The releases a caller lists are those that are searched.
LEMMA DistinctElements ==
  ASSUME NEW releases \in Seq(Nat)
  PROVE  Distinct(releases) \in Seq(Nat) /\ ToSet(Distinct(releases)) = ToSet(releases)
<1>1. PICK f : DistinctTrace(f, releases)
  BY DistinctChain
<1>2. PICK n \in Nat : n = Len(releases)
  OBVIOUS
<1>3. /\ f \in [0..n -> Seq(Nat)] /\ f[0] = <<>>
      /\ \A i \in 1..n : f[i] = IF releases[i] \in ToSet(f[i - 1]) THEN f[i - 1]
                                 ELSE Append(f[i - 1], releases[i])
      /\ Distinct(releases) = f[n] /\ \A i \in 1..n : releases[i] \in Nat
  BY <1>1, <1>2 DEF DistinctTrace
<1>4. \A i \in 1..n : i - 1 \in 0..n
  BY <1>2
<1>5. \A i \in 1..n : ToSet(f[i]) = ToSet(f[i - 1]) \cup {releases[i]}
  <2> TAKE i \in 1..n
  <2>1. f[i - 1] \in Seq(Nat) /\ releases[i] \in Nat
    BY <1>3, <1>4
  <2>2. ToSet(Append(f[i - 1], releases[i])) = ToSet(f[i - 1]) \cup {releases[i]}
    BY <2>1, AppendElements
  <2> QED BY <1>3, <2>2
<1> DEFINE Upto(j) == {releases[i] : i \in 1..j}
           B == {j \in 0..n : ToSet(f[j]) # Upto(j)}
<1>6. 0 \notin B
  <2>1. 1..0 = {} /\ ToSet(f[0]) = {}
    BY <1>3, ElementsEmpty
  <2> QED BY <2>1
<1>7. ASSUME NEW j \in 1..n, j - 1 \notin B PROVE j \notin B
  <2>1. ToSet(f[j - 1]) = Upto(j - 1)
    BY <1>4, <1>7
  <2>2. 1..j = 1..(j - 1) \cup {j}
    OBVIOUS
  <2>3. Upto(j) = Upto(j - 1) \cup {releases[j]}
    BY <2>2
  <2> QED BY <1>5, <2>1, <2>3
<1>8. B = {}
  <2>1. SUFFICES ASSUME B # {} PROVE FALSE
    OBVIOUS
  <2>2. B \in SUBSET Nat
    OBVIOUS
  <2>3. PICK j \in B : \A k \in B : j <= k
    BY <2>1, <2>2, LeastElement
  <2>4. j \in 0..n /\ j # 0
    BY <1>6, <2>3
  <2> HIDE DEF B
  <2>5. j \in 1..n /\ j - 1 \notin B
    BY <2>3, <2>4
  <2> QED BY <1>7, <2>3, <2>5
<1>9. n \in 0..n
  OBVIOUS
<1>10. ToSet(f[n]) = Upto(n)
  BY <1>8, <1>9
<1>11. ToSet(releases) = Upto(n)
  BY <1>2 DEF ToSet
<1> QED BY <1>3, <1>9, <1>10, <1>11

\* The candidates that are searched are those of the releases that are listed.
LEMMA ChosenElements ==
  ASSUME NEW T, NEW held \in Seq(Seq(T)), NEW releases \in Seq(Nat),
         ToSet(releases) \subseteq DOMAIN held
  PROVE  /\ Chosen(held, releases) \in Seq(Seq(T))
         /\ ToSet(All(Chosen(held, releases))) = UNION {ToSet(held[r]) : r \in ToSet(releases)}
<1> DEFINE d == Distinct(releases)
           c == Chosen(held, releases)
<1>1. d \in Seq(Nat) /\ ToSet(d) = ToSet(releases)
  BY DistinctElements
<1>2. PICK n \in Nat : n = Len(d) /\ DOMAIN d = 1..n
  BY <1>1
<1>3. \A i \in 1..n : d[i] \in ToSet(releases)
  BY <1>1, <1>2 DEF ToSet
<1>4. \A r \in ToSet(releases) : r \in DOMAIN held /\ held[r] \in Seq(T)
  OBVIOUS
<1>5. c = [i \in 1..n |-> held[d[i]]]
  BY <1>2 DEF Chosen
<1> HIDE DEF c, d
<1>6. c \in Seq(Seq(T)) /\ Len(c) = n
  BY <1>3, <1>4, <1>5
<1>7. ToSet(All(c)) = UNION {ToSet(c[i]) : i \in 1..n}
  BY <1>6, AllElements
<1>8. \A i \in 1..n : c[i] = held[d[i]]
  BY <1>5
<1>9. \A r \in ToSet(releases) : \E i \in 1..n : d[i] = r
  BY <1>1, <1>2 DEF ToSet
<1>10. ToSet(All(c)) = UNION {ToSet(held[r]) : r \in ToSet(releases)}
  <2>1. \A x : x \in ToSet(All(c)) <=> \E i \in 1..n : x \in ToSet(held[d[i]])
    BY <1>7, <1>8
  <2>2. \A x : x \in ToSet(All(c)) <=> \E r \in ToSet(releases) : x \in ToSet(held[r])
    BY <1>3, <1>9, <2>1
  <2> QED BY <2>2
<1> QED BY <1>6, <1>10 DEF c

\* What is asked for, and the basis that comes first.
SearchRequests == [query : Seq(Nat), languages : Seq(Seq(Nat)), releases : Seq(Nat)]
ExactLabel == <<"preferred_label", "exact">>

\* The rank of a language is a number.
LEMMA LanguageRankType ==
  ASSUME NEW tag \in Seq(Nat), NEW languages \in Seq(Seq(Nat))
  PROVE  LanguageRank(tag, languages) \in Nat
<1> DEFINE P == {q \in DOMAIN languages : tag # <<>> /\ IsPrefix(tag, languages[q])}
           ranks == {100 * (p - 1) + Len(languages[p]) - Len(tag) : p \in P}
<1>1. PICK n \in Nat : n = Len(languages) /\ DOMAIN languages = 1..n
  OBVIOUS
<1>2. ranks \in SUBSET Nat
  <2>1. ASSUME NEW p \in P PROVE 100 * (p - 1) + Len(languages[p]) - Len(tag) \in Nat
    <3>1. p \in 1..n /\ languages[p] \in Seq(Nat) /\ IsPrefix(tag, languages[p])
      BY <1>1
    <3>2. PICK a, b \in Nat : a = Len(languages[p]) /\ b = Len(tag)
      BY <3>1
    <3>3. b <= a
      BY <3>1, <3>2, PrefixPoints
    <3>4. 100 * (p - 1) + a - b \in Nat
      BY <3>1, <3>2, <3>3
    <3> QED BY <3>2, <3>4
  <2> HIDE DEF P
  <2> QED BY <2>1
<1>3. ranks # {} => Min(ranks) \in Nat
  BY <1>2, LeastElement
<1>4. 100 * Len(languages) + 1 \in Nat
  BY <1>1
<1>5. LanguageRank(tag, languages) = IF ranks # {} THEN Min(ranks)
        ELSE IF tag = <<>> THEN 100 * Len(languages) + 1 ELSE 100000
  BY DEF LanguageRank
<1> HIDE DEF ranks
<1> QED BY <1>3, <1>4, <1>5

\* Each basis has its place, an exact label the first.
LEMMA BasesAreInOrder ==
  /\ DOMAIN BasesInOrder = 1..11
  /\ \A b \in ToSet(BasesInOrder) : BasisOrder(b) \in 1..11 /\ BasesInOrder[BasisOrder(b)] = b
  /\ BasesInOrder[1] = ExactLabel /\ BasisOrder(ExactLabel) = 1
<1>1. DOMAIN BasesInOrder = 1..11 /\ Len(BasesInOrder) = 11
  BY DEF BasesInOrder
<1>2. \A i \in 1..11 : BasesInOrder[i] \in ToSet(BasesInOrder)
  BY <1>1 DEF ToSet
<1>3. \A b \in ToSet(BasesInOrder) : BasisOrder(b) \in 1..11 /\ BasesInOrder[BasisOrder(b)] = b
  BY <1>1 DEF ToSet, BasisOrder
<1>4. BasesInOrder[1] = ExactLabel
  BY DEF BasesInOrder, ExactLabel
<1>5. \A i \in 2..11 : BasesInOrder[i] # ExactLabel
  <2>1. \A i \in 2..11 : i = 2 \/ i = 3 \/ i = 4 \/ i = 5 \/ i = 6 \/ i = 7 \/ i = 8
                         \/ i = 9 \/ i = 10 \/ i = 11
    OBVIOUS
  <2>2. /\ BasesInOrder[2][1] = "alternative_label" /\ BasesInOrder[3][1] = "identifier"
        /\ BasesInOrder[4][1] = "iri_local_name" /\ BasesInOrder[5][2] = "prefix"
        /\ BasesInOrder[6][2] = "prefix" /\ BasesInOrder[7][2] = "substring"
        /\ BasesInOrder[8][2] = "substring" /\ BasesInOrder[9][1] = "lexical_definition"
        /\ BasesInOrder[10][2] = "token_coverage" /\ BasesInOrder[11][2] = "substring"
    BY DEF BasesInOrder
  <2>3. ExactLabel[1] = "preferred_label" /\ ExactLabel[2] = "exact"
    BY DEF ExactLabel
  <2> QED BY <2>1, <2>2, <2>3
<1>6. BasisOrder(ExactLabel) = 1
  <2>1. ExactLabel \in ToSet(BasesInOrder)
    BY <1>2, <1>4
  <2>2. BasisOrder(ExactLabel) \in 1..11 /\ BasesInOrder[BasisOrder(ExactLabel)] = ExactLabel
    BY <1>3, <2>1
  <2>3. BasisOrder(ExactLabel) \notin 2..11
    BY <1>5, <2>2
  <2> QED BY <2>2, <2>3
<1> QED BY <1>1, <1>3, <1>4, <1>6

\* The basis of a match.
LEMMA MatchBasisIsFirst ==
  ASSUME NEW c, NEW query, MatchBases(c, query) # {}
  PROVE  /\ MatchBasis(c, query) \in MatchBases(c, query)
         /\ BasisOrder(MatchBasis(c, query)) \in 1..11
         /\ BasesInOrder[BasisOrder(MatchBasis(c, query))] = MatchBasis(c, query)
         /\ \A b \in MatchBases(c, query) : BasisOrder(MatchBasis(c, query)) <= BasisOrder(b)
<1> DEFINE M == MatchBases(c, query)
           orders == {BasisOrder(b) : b \in M}
<1>1. M \subseteq ToSet(BasesInOrder)
  BY DEF MatchBases
<1>2. \A b \in M : BasisOrder(b) \in 1..11 /\ BasesInOrder[BasisOrder(b)] = b
  BY <1>1, BasesAreInOrder
<1> HIDE DEF M
<1>3. orders \in SUBSET Nat /\ orders # {}
  BY <1>2 DEF M
<1>4. Min(orders) \in orders /\ \A y \in orders : Min(orders) <= y
  BY <1>3, LeastElement
<1>5. PICK b \in M : Min(orders) = BasisOrder(b)
  BY <1>4
<1>6. MatchBasis(c, query) = b
  BY <1>2, <1>5 DEF MatchBasis, M
<1> QED BY <1>2, <1>4, <1>5, <1>6 DEF M

\* What candidates are made of.
LEMMA CandidateTypes ==
  ASSUME NEW c \in Candidates
  PROVE  /\ c.entity \in Nat /\ c.property \in Nat /\ c.text \in Seq(Nat)
         /\ c.tag \in Seq(Nat) \cup {NotALiteral}
         /\ c.kind = "preferred_label" => c.tag \in Seq(Nat)
BY LexicalAssumption DEF LexicalAssumption

\* The key of a candidate that matches.
LEMMA KeyType ==
  ASSUME NEW c \in Candidates, NEW req \in SearchRequests, MatchBases(c, req.query) # {}
  PROVE  Key(c, req) \in KeysOf(6)
<1>1. BasisOrder(MatchBasis(c, req.query)) \in Nat
  BY MatchBasisIsFirst
<1>2. (IF c.tag = NotALiteral THEN 1000000 ELSE LanguageRank(c.tag, req.languages)) \in Nat
  BY CandidateTypes, LanguageRankType DEF SearchRequests
<1>3. Len(c.text) \in Nat /\ c.text \in Seq(Nat) /\ c.entity \in Nat /\ c.property \in Nat
  BY CandidateTypes
<1> DEFINE a == BasisOrder(MatchBasis(c, req.query))
           b == IF c.tag = NotALiteral THEN 1000000 ELSE LanguageRank(c.tag, req.languages)
           d == Len(c.text)
           t == c.text
           e == c.entity
           p == c.property
<1>4. Key(c, req) = << <<a>>, <<b>>, <<d>>, t, <<e>>, <<p>> >>
  BY DEF Key
<1>5. a \in Nat /\ b \in Nat /\ d \in Nat /\ t \in Seq(Nat) /\ e \in Nat /\ p \in Nat
  BY <1>1, <1>2, <1>3
<1> HIDE DEF a, b, d, t, e, p
<1>6. << <<a>>, <<b>>, <<d>>, t, <<e>>, <<p>> >> \in KeysOf(6)
  <2>1. <<a>> \in Seq(Nat) /\ <<b>> \in Seq(Nat) /\ <<d>> \in Seq(Nat) /\ <<e>> \in Seq(Nat)
        /\ <<p>> \in Seq(Nat)
    BY <1>5
  <2>2. ASSUME NEW u \in Seq(Nat), NEW v \in Seq(Nat), NEW w \in Seq(Nat), NEW x \in Seq(Nat),
               NEW y \in Seq(Nat), NEW z \in Seq(Nat)
        PROVE  <<u, v, w, x, y, z>> \in [1..6 -> Seq(Nat)]
    OBVIOUS
  <2> QED BY <1>5, <2>1, <2>2 DEF KeysOf
<1> QED BY <1>4, <1>6

\* The key of a label.
LEMMA LabelKeyType ==
  ASSUME NEW c \in Candidates, c.kind = "preferred_label", NEW req \in SearchRequests
  PROVE  LabelKey(c, req) \in KeysOf(5)
<1> DEFINE a == LanguageRank(c.tag, req.languages)
           b == IF c.property = CurrentProperty THEN 0 ELSE 1
           t == c.tag
           x == c.text
           p == c.property
<1>1. a \in Nat
  BY CandidateTypes, LanguageRankType DEF SearchRequests
<1>2. b \in Nat /\ t \in Seq(Nat) /\ x \in Seq(Nat) /\ p \in Nat
  BY CandidateTypes
<1>3. LabelKey(c, req) = << <<a>>, <<b>>, t, x, <<p>> >>
  BY DEF LabelKey
<1> HIDE DEF a, b, t, x, p
<1>4. <<a>> \in Seq(Nat) /\ <<b>> \in Seq(Nat) /\ <<p>> \in Seq(Nat)
  BY <1>1, <1>2
<1>5. ASSUME NEW u \in Seq(Nat), NEW v \in Seq(Nat), NEW w \in Seq(Nat), NEW y \in Seq(Nat),
             NEW z \in Seq(Nat)
      PROVE  <<u, v, w, y, z>> \in [1..5 -> Seq(Nat)]
  OBVIOUS
<1>6. << <<a>>, <<b>>, t, x, <<p>> >> \in KeysOf(5)
  BY <1>2, <1>4, <1>5 DEF KeysOf
<1> QED BY <1>3, <1>6

\* What a key says of a candidate.
LEMMA KeySays ==
  ASSUME NEW c, NEW req
  PROVE  /\ Key(c, req)[1][1] = BasisOrder(MatchBasis(c, req.query))
         /\ Key(c, req)[5][1] = c.entity /\ LabelKey(c, req)[4] = c.text
BY DEF Key, LabelKey

\* An entity's candidates that match, and its labels, in some indexes.
Matching(ixs, e, req) ==
  {c \in ToSet(All(ixs)) : c.entity = e /\ MatchBases(c, req.query) # {}}
LabelsOf(ixs, e) ==
  {c \in ToSet(All(ixs)) : c.entity = e /\ c.kind = "preferred_label"}

\* The best candidate of an entity is one of those that match, and none of them comes
\* before it.
LEMMA BestIsLeast ==
  ASSUME NEW ixs \in Seq(Seq(Candidates)), NEW e, NEW req \in SearchRequests
  PROVE  /\ Hits(ixs, e, req) # {} <=> Matching(ixs, e, req) # {}
         /\ Hits(ixs, e, req) # {} =>
              /\ Best(ixs, e, req) \in Matching(ixs, e, req)
              /\ \A c \in Matching(ixs, e, req) :
                   ~KeyBefore(Key(c, req), Key(Best(ixs, e, req), req))
<1> DEFINE all == All(ixs)
           H == Hits(ixs, e, req)
           M == Matching(ixs, e, req)
           keys == [n \in H |-> Key(all[n], req)]
<1>1. PICK n \in Nat : DOMAIN all = 1..n /\ \A i \in 1..n : all[i] \in Candidates
  <2>1. all \in Seq(Candidates)
    BY AllElements
  <2> QED BY <2>1
<1>2. H = {i \in 1..n : all[i].entity = e /\ MatchBases(all[i], req.query) # {}}
  BY <1>1 DEF Hits
<1>3. M = {c \in ToSet(all) : c.entity = e /\ MatchBases(c, req.query) # {}}
  BY DEF Matching
<1>4. ToSet(all) = {all[i] : i \in 1..n}
  BY <1>1 DEF ToSet
<1>8. Best(ixs, e, req) = all[Least(keys)]
  BY DEF Best
<1>9. \A i \in H : keys[i] = Key(all[i], req)
  OBVIOUS
<1>11. keys = [i \in H |-> keys[i]]
  OBVIOUS
<1> HIDE DEF H, M, keys, all
<1>5. \A i \in H : all[i] \in M /\ i \in 1..n
  BY <1>2, <1>3, <1>4
<1>6. \A c \in M : \E i \in H : all[i] = c
  BY <1>2, <1>3, <1>4
<1>7. H \in SUBSET Nat /\ IsFiniteSet(H)
  <2>1. IsFiniteSet(1..n) /\ H \in SUBSET (1..n)
    BY <1>2, FS_Interval
  <2>2. IsFiniteSet(H)
    BY <2>1, FS_Subset
  <2>3. H \in SUBSET Nat
    BY <2>1
  <2> QED BY <2>2, <2>3
<1>10. keys \in [H -> KeysOf(6)]
  <2>1. ASSUME NEW i \in H PROVE keys[i] \in KeysOf(6)
    <3>1. all[i] \in Candidates /\ MatchBases(all[i], req.query) # {}
      BY <1>1, <1>2
    <3> QED BY <1>9, <3>1, KeyType
  <2> QED BY <1>11, <2>1
<1>12. ASSUME H # {}
       PROVE  /\ all[Least(keys)] \in M
              /\ \A c \in M : ~KeyBefore(Key(c, req), Key(all[Least(keys)], req))
  <2>1. /\ Least(keys) \in H
        /\ \A m \in H : ~KeyBefore(keys[m], keys[Least(keys)])
    BY <1>7, <1>10, <1>12, LeastOfKeys
  <2>2. keys[Least(keys)] = Key(all[Least(keys)], req)
    BY <1>9, <2>1
  <2>3. ASSUME NEW c \in M PROVE ~KeyBefore(Key(c, req), Key(all[Least(keys)], req))
    <3>1. PICK i \in H : all[i] = c
      BY <1>6
    <3>2. keys[i] = Key(c, req) /\ ~KeyBefore(keys[i], keys[Least(keys)])
      BY <1>9, <2>1, <3>1
    <3> QED BY <2>2, <3>2
  <2> QED BY <1>5, <2>1, <2>3
<1>13. H # {} <=> M # {}
  BY <1>5, <1>6
<1> QED BY <1>8, <1>12, <1>13 DEF H, M

\* The label of an entity is the text of one of its labels that none comes before.
LEMMA LabelIsLeast ==
  ASSUME NEW ixs \in Seq(Seq(Candidates)), NEW e, NEW req \in SearchRequests
  PROVE  /\ LabelsOf(ixs, e) = {} => Label(ixs, e, req) = <<>>
         /\ LabelsOf(ixs, e) # {} => \E b \in LabelsOf(ixs, e) :
              /\ Label(ixs, e, req) = b.text
              /\ \A c \in LabelsOf(ixs, e) : ~KeyBefore(LabelKey(c, req), LabelKey(b, req))
<1> DEFINE all == All(ixs)
           H == {n \in DOMAIN all : all[n].entity = e /\ all[n].kind = "preferred_label"}
           M == LabelsOf(ixs, e)
           keys == [n \in H |-> LabelKey(all[n], req)]
<1>1. PICK n \in Nat : DOMAIN all = 1..n /\ \A i \in 1..n : all[i] \in Candidates
  <2>1. all \in Seq(Candidates)
    BY AllElements
  <2> QED BY <2>1
<1>2. H = {i \in 1..n : all[i].entity = e /\ all[i].kind = "preferred_label"}
  BY <1>1
<1>3. M = {c \in ToSet(all) : c.entity = e /\ c.kind = "preferred_label"}
  BY DEF LabelsOf
<1>4. ToSet(all) = {all[i] : i \in 1..n}
  BY <1>1 DEF ToSet
<1>8. Label(ixs, e, req) = IF H = {} THEN <<>> ELSE all[Least(keys)].text
  BY DEF Label
<1>9. \A i \in H : keys[i] = LabelKey(all[i], req)
  OBVIOUS
<1>11. keys = [i \in H |-> keys[i]]
  OBVIOUS
<1> HIDE DEF H, M, keys, all
<1>5. \A i \in H : all[i] \in M /\ i \in 1..n
  BY <1>2, <1>3, <1>4
<1>6. \A c \in M : \E i \in H : all[i] = c
  BY <1>2, <1>3, <1>4
<1>7. H \in SUBSET Nat /\ IsFiniteSet(H)
  <2>1. IsFiniteSet(1..n) /\ H \in SUBSET (1..n)
    BY <1>2, FS_Interval
  <2>2. IsFiniteSet(H)
    BY <2>1, FS_Subset
  <2>3. H \in SUBSET Nat
    BY <2>1
  <2> QED BY <2>2, <2>3
<1>10. keys \in [H -> KeysOf(5)]
  <2>1. ASSUME NEW i \in H PROVE keys[i] \in KeysOf(5)
    <3>1. all[i] \in Candidates /\ all[i].kind = "preferred_label"
      BY <1>1, <1>2
    <3> QED BY <1>9, <3>1, LabelKeyType
  <2> QED BY <1>11, <2>1
<1>12. ASSUME H # {}
       PROVE  /\ all[Least(keys)] \in M
              /\ \A c \in M : ~KeyBefore(LabelKey(c, req), LabelKey(all[Least(keys)], req))
  <2>1. /\ Least(keys) \in H
        /\ \A m \in H : ~KeyBefore(keys[m], keys[Least(keys)])
    BY <1>7, <1>10, <1>12, LeastOfKeys
  <2>2. keys[Least(keys)] = LabelKey(all[Least(keys)], req)
    BY <1>9, <2>1
  <2>3. ASSUME NEW c \in M PROVE ~KeyBefore(LabelKey(c, req), LabelKey(all[Least(keys)], req))
    <3>1. PICK i \in H : all[i] = c
      BY <1>6
    <3>2. keys[i] = LabelKey(c, req) /\ ~KeyBefore(keys[i], keys[Least(keys)])
      BY <1>9, <2>1, <3>1
    <3> QED BY <2>2, <3>2
  <2> QED BY <1>5, <2>1, <2>3
<1>13. H # {} <=> M # {}
  BY <1>5, <1>6
<1> QED BY <1>8, <1>12, <1>13 DEF M

\* The candidates of some indexes, and their entities.
LEMMA IndexTypes ==
  ASSUME NEW ixs \in Seq(Seq(Candidates))
  PROVE  /\ ToSet(All(ixs)) \subseteq Candidates /\ IsFiniteSet(EntitiesOf(ixs))
         /\ EntitiesOf(ixs) \subseteq Nat
<1>1. All(ixs) \in Seq(Candidates)
  BY AllElements
<1>2. ToSet(All(ixs)) \subseteq Candidates /\ IsFiniteSet(ToSet(All(ixs)))
  BY <1>1, ElementsType, ElementsFinite
<1>3. IsFiniteSet(EntitiesOf(ixs))
  <2> DEFINE S == ToSet(All(ixs))
             f == [c \in S |-> c.entity]
  <2>1. f \in Surjection(S, EntitiesOf(ixs))
    BY DEF EntitiesOf, Surjection
  <2> HIDE DEF f
  <2> QED BY <1>2, <2>1, FS_Surjection
<1> QED BY <1>2, <1>3, CandidateTypes DEF EntitiesOf

\* The same candidates, in whatever order, give the same best match and the same label.
LEMMA SameBest ==
  ASSUME NEW ixs \in Seq(Seq(Candidates)), NEW jxs \in Seq(Seq(Candidates)),
         ToSet(All(ixs)) = ToSet(All(jxs)), NEW e, NEW req \in SearchRequests
  PROVE  /\ Hits(ixs, e, req) # {} <=> Hits(jxs, e, req) # {}
         /\ Hits(ixs, e, req) # {} =>
              /\ Key(Best(ixs, e, req), req) = Key(Best(jxs, e, req), req)
              /\ MatchBasis(Best(ixs, e, req), req.query)
                   = MatchBasis(Best(jxs, e, req), req.query)
         /\ Label(ixs, e, req) = Label(jxs, e, req)
<1>1. Matching(ixs, e, req) = Matching(jxs, e, req) /\ LabelsOf(ixs, e) = LabelsOf(jxs, e)
  BY DEF Matching, LabelsOf
<1>2. Hits(ixs, e, req) # {} <=> Hits(jxs, e, req) # {}
  BY <1>1, BestIsLeast
<1>3. ASSUME Hits(ixs, e, req) # {}
      PROVE  /\ Key(Best(ixs, e, req), req) = Key(Best(jxs, e, req), req)
             /\ MatchBasis(Best(ixs, e, req), req.query)
                   = MatchBasis(Best(jxs, e, req), req.query)
  <2> DEFINE b == Best(ixs, e, req)
             c == Best(jxs, e, req)
  <2>1. /\ b \in Matching(ixs, e, req) /\ c \in Matching(ixs, e, req)
        /\ ~KeyBefore(Key(c, req), Key(b, req)) /\ ~KeyBefore(Key(b, req), Key(c, req))
    BY <1>1, <1>2, <1>3, BestIsLeast
  <2> HIDE DEF b, c
  <2>2. /\ b \in Candidates /\ MatchBases(b, req.query) # {}
        /\ c \in Candidates /\ MatchBases(c, req.query) # {}
    BY <2>1, IndexTypes DEF Matching
  <2>3. Key(b, req) \in KeysOf(6) /\ Key(c, req) \in KeysOf(6)
    BY <2>2, KeyType
  <2>4. Key(b, req) = Key(c, req)
    BY <2>1, <2>3, KeyBeforeIsStrict
  <2>5. BasisOrder(MatchBasis(b, req.query)) = BasisOrder(MatchBasis(c, req.query))
    BY <2>4, KeySays
  <2>6. MatchBasis(b, req.query) = MatchBasis(c, req.query)
    BY <2>2, <2>5, MatchBasisIsFirst
  <2> QED BY <2>4, <2>6 DEF b, c
<1>4. Label(ixs, e, req) = Label(jxs, e, req)
  <2>1. CASE LabelsOf(ixs, e) = {}
    BY <1>1, <2>1, LabelIsLeast
  <2>2. CASE LabelsOf(ixs, e) # {}
    <3>1. PICK b \in LabelsOf(ixs, e) :
            /\ Label(ixs, e, req) = b.text
            /\ \A c \in LabelsOf(ixs, e) : ~KeyBefore(LabelKey(c, req), LabelKey(b, req))
      BY <2>2, LabelIsLeast
    <3>2. PICK c \in LabelsOf(jxs, e) :
            /\ Label(jxs, e, req) = c.text
            /\ \A d \in LabelsOf(jxs, e) : ~KeyBefore(LabelKey(d, req), LabelKey(c, req))
      BY <1>1, <2>2, LabelIsLeast
    <3>3. /\ b \in Candidates /\ b.kind = "preferred_label"
          /\ c \in Candidates /\ c.kind = "preferred_label"
      BY IndexTypes DEF LabelsOf
    <3>4. LabelKey(b, req) \in KeysOf(5) /\ LabelKey(c, req) \in KeysOf(5)
      BY <3>3, LabelKeyType
    <3>5. LabelKey(b, req) = LabelKey(c, req)
      BY <1>1, <3>1, <3>2, <3>4, KeyBeforeIsStrict
    <3> QED BY <3>1, <3>2, <3>5, KeySays
  <2> QED BY <2>1, <2>2
<1> QED BY <1>2, <1>3, <1>4

\* The parts of a search.
Found(ixs, req) == {e \in EntitiesOf(ixs) : req.query = <<>> \/ Hits(ixs, e, req) # {}}
KeysIn(ixs, req) == [e \in Found(ixs, req) |-> IF req.query = <<>> THEN <<<<e>>>>
                                               ELSE Key(Best(ixs, e, req), req)]
Ranked(ixs, req) == InKeyOrder(KeysIn(ixs, req))
Match(ixs, req, e) ==
  [entity |-> e, label |-> Label(ixs, e, req),
   basis |-> IF req.query = <<>> THEN <<>> ELSE MatchBasis(Best(ixs, e, req), req.query)]

\* A search is made of its parts.
LEMMA SearchParts ==
  ASSUME NEW ixs, NEW req
  PROVE  SearchEntities(ixs, req) =
           [n \in DOMAIN Ranked(ixs, req) |-> Match(ixs, req, Ranked(ixs, req)[n])]
BY DEF SearchEntities, Ranked, KeysIn, Found, Match

\* The ranking has every entity that is found once, in the order of their keys.
LEMMA RankedIsSorted ==
  ASSUME NEW ixs \in Seq(Seq(Candidates)), NEW req \in SearchRequests
  PROVE  /\ Cardinality(Found(ixs, req)) \in Nat
         /\ Sorts(Ranked(ixs, req), Found(ixs, req), KeysIn(ixs, req))
         /\ \A m, i \in 1..Cardinality(Found(ixs, req)) :
              Ranked(ixs, req)[m] = Ranked(ixs, req)[i] => m = i
         /\ \A e \in Found(ixs, req) :
              \E m \in 1..Cardinality(Found(ixs, req)) : Ranked(ixs, req)[m] = e
<1> DEFINE D == Found(ixs, req)
           keys == KeysIn(ixs, req)
           s == Ranked(ixs, req)
<1>1. IsFiniteSet(D) /\ D \subseteq Nat /\ Cardinality(D) \in Nat
  <2>1. D \in SUBSET EntitiesOf(ixs)
    BY DEF Found
  <2>2. IsFiniteSet(D)
    BY <2>1, IndexTypes, FS_Subset
  <2>3. D \subseteq Nat
    BY <2>1, IndexTypes
  <2> QED BY <2>2, <2>3, FS_CardinalityType
<1>2. s = InKeyOrder(keys)
  BY DEF Ranked
<1>3. ASSUME NEW n \in Nat, keys \in [D -> KeysOf(n)], \A x, y \in D : keys[x] = keys[y] => x = y
      PROVE  /\ Sorts(s, D, keys)
             /\ \A m, i \in 1..Cardinality(D) : s[m] = s[i] => m = i
             /\ \A x \in D : \E m \in 1..Cardinality(D) : s[m] = x
  <2> HIDE DEF s, keys, D
  <2>1. IsFiniteSet(D)
    BY <1>1
  <2> QED BY ONLY <1>2, <1>3, <2>1, InKeyOrderSorts
<1>4. CASE req.query = <<>>
  <2>1. keys = [e \in D |-> <<<<e>>>>]
    BY <1>4 DEF KeysIn
  <2>2. ASSUME NEW e \in Nat PROVE <<<<e>>>> \in KeysOf(1)
    <3>1. <<e>> \in Seq(Nat)
      OBVIOUS
    <3>2. ASSUME NEW u \in Seq(Nat) PROVE <<u>> \in [1..1 -> Seq(Nat)]
      OBVIOUS
    <3> QED BY <3>1, <3>2 DEF KeysOf
  <2>3. \A e \in D : keys[e] = <<<<e>>>>
    BY <2>1
  <2>4. \A e \in D : keys[e][1][1] = e
    BY <2>3
  <2> HIDE DEF D, keys
  <2>5. keys \in [D -> KeysOf(1)]
    BY <1>1, <2>1, <2>2
  <2>6. \A x, y \in D : keys[x] = keys[y] => x = y
    BY <2>4
  <2> QED BY <1>1, <1>3, <2>5, <2>6 DEF D, keys
<1>5. CASE req.query # <<>>
  <2>1. keys = [e \in D |-> Key(Best(ixs, e, req), req)]
    BY <1>5 DEF KeysIn
  <2>2. ASSUME NEW e \in D
        PROVE  Key(Best(ixs, e, req), req) \in KeysOf(6)
               /\ Key(Best(ixs, e, req), req)[5][1] = e
    <3>1. Best(ixs, e, req) \in Matching(ixs, e, req)
      BY <1>5, BestIsLeast DEF Found
    <3>2. /\ Best(ixs, e, req) \in Candidates /\ Best(ixs, e, req).entity = e
          /\ MatchBases(Best(ixs, e, req), req.query) # {}
      BY <3>1, IndexTypes DEF Matching
    <3> QED BY <3>2, KeyType, KeySays
  <2>3. \A e \in D : keys[e] = Key(Best(ixs, e, req), req)
    BY <2>1
  <2>4. \A e \in D : keys[e][5][1] = e
    BY <2>2, <2>3
  <2> HIDE DEF D, keys
  <2>5. keys \in [D -> KeysOf(6)]
    BY <2>1, <2>2
  <2>6. \A x, y \in D : keys[x] = keys[y] => x = y
    BY <2>4
  <2> QED BY <1>1, <1>3, <2>5, <2>6 DEF D, keys
<1> QED BY <1>4, <1>5

\* A search depends on which candidates the releases have, not on their order.
LEMMA SameSearch ==
  ASSUME NEW ixs \in Seq(Seq(Candidates)), NEW jxs \in Seq(Seq(Candidates)),
         ToSet(All(ixs)) = ToSet(All(jxs)), NEW req \in SearchRequests
  PROVE  SearchEntities(ixs, req) = SearchEntities(jxs, req)
<1>1. Found(ixs, req) = Found(jxs, req)
  <2>1. EntitiesOf(ixs) = EntitiesOf(jxs)
    BY DEF EntitiesOf
  <2>2. \A e : Hits(ixs, e, req) # {} <=> Hits(jxs, e, req) # {}
    BY SameBest
  <2> QED BY <2>1, <2>2 DEF Found
<1>2. \A e \in Found(ixs, req) : req.query # <<>> => Hits(ixs, e, req) # {}
  BY DEF Found
<1>3. KeysIn(ixs, req) = KeysIn(jxs, req)
  <2>1. ASSUME NEW e \in Found(ixs, req), req.query # <<>>
        PROVE  Key(Best(ixs, e, req), req) = Key(Best(jxs, e, req), req)
    BY <1>2, <2>1, SameBest
  <2> QED BY <1>1, <2>1 DEF KeysIn
<1>4. Ranked(ixs, req) = Ranked(jxs, req)
  BY <1>3 DEF Ranked
<1>5. \A e \in Found(ixs, req) : Match(ixs, req, e) = Match(jxs, req, e)
  <2> TAKE e \in Found(ixs, req)
  <2>1. Label(ixs, e, req) = Label(jxs, e, req)
    BY SameBest
  <2>2. ASSUME req.query # <<>>
        PROVE  MatchBasis(Best(ixs, e, req), req.query) = MatchBasis(Best(jxs, e, req), req.query)
    BY <1>2, <2>2, SameBest
  <2> QED BY <2>1, <2>2 DEF Match
<1>6. \A n \in DOMAIN Ranked(ixs, req) : Ranked(ixs, req)[n] \in Found(ixs, req)
  <2>1. Ranked(ixs, req) \in [1..Cardinality(Found(ixs, req)) -> Found(ixs, req)]
    BY RankedIsSorted DEF Sorts
  <2> QED BY <2>1
<1> DEFINE s == Ranked(ixs, req)
<1>7. SearchEntities(ixs, req) = [n \in DOMAIN s |-> Match(ixs, req, s[n])]
  BY SearchParts
<1>8. SearchEntities(jxs, req) = [n \in DOMAIN s |-> Match(jxs, req, s[n])]
  BY <1>4, SearchParts
<1>9. \A n \in DOMAIN s : Match(ixs, req, s[n]) = Match(jxs, req, s[n])
  BY <1>5, <1>6
<1> HIDE DEF s
<1> QED BY <1>7, <1>8, <1>9

\* The basis comes first in a key.
LEMMA FirstOfKeys ==
  ASSUME NEW b \in Candidates, NEW c \in Candidates, NEW req \in SearchRequests,
         MatchBases(b, req.query) # {}, MatchBases(c, req.query) # {},
         KeyBefore(Key(b, req), Key(c, req))
  PROVE  BasisOrder(MatchBasis(b, req.query)) <= BasisOrder(MatchBasis(c, req.query))
<1> DEFINE x == BasisOrder(MatchBasis(b, req.query))
           y == BasisOrder(MatchBasis(c, req.query))
           k == Key(b, req)
           l == Key(c, req)
<1>1. x \in Nat /\ y \in Nat
  BY MatchBasisIsFirst
<1>2. k[1] = <<x>> /\ l[1] = <<y>> /\ DOMAIN k = 1..6
  <2>1. k[1] = <<x>> /\ l[1] = <<y>>
    BY DEF Key
  <2> QED BY <2>1, KeyType DEF KeysOf
<1> HIDE DEF x, y, k, l
<1>3. PICK n \in 1..6 : TextBefore(k[n], l[n]) /\ \A m \in 1..(n - 1) : k[m] = l[m]
  BY <1>2 DEF KeyBefore, k, l
<1>4. CASE n = 1
  <2>1. TextBefore(<<x>>, <<y>>)
    BY <1>2, <1>3, <1>4
  <2>2. ~IsStrictPrefix(<<x>>, <<y>>)
    <3>1. SUFFICES ASSUME IsStrictPrefix(<<x>>, <<y>>) PROVE FALSE
      OBVIOUS
    <3>2. <<x>> \in Seq(Nat) /\ <<y>> \in Seq(Nat) /\ Len(<<x>>) = 1 /\ 1 \in 1..1
      BY <1>1
    <3>3. <<x>>[1] = <<y>>[1]
      BY <3>1, <3>2, PrefixPoints DEF IsStrictPrefix
    <3> QED BY <3>1, <3>3 DEF IsStrictPrefix
  <2>4. DOMAIN <<x>> = {1} /\ DOMAIN <<y>> = {1} /\ <<x>>[1] = x /\ <<y>>[1] = y
    OBVIOUS
  <2>3. x < y
    <3>1. PICK i \in DOMAIN <<x>> \cap DOMAIN <<y>> : <<x>>[i] < <<y>>[i]
      BY <2>1, <2>2 DEF TextBefore
    <3>2. i = 1
      BY <2>4
    <3> QED BY <2>4, <3>1, <3>2
  <2> QED BY <1>1, <2>3 DEF x, y
<1>5. CASE n # 1
  <2>1. 1 \in 1..(n - 1)
    BY <1>5
  <2>2. <<x>> = <<y>>
    BY <1>2, <1>3, <2>1
  <2>3. x = y
    BY <2>2
  <2> QED BY <1>1, <2>3 DEF x, y
<1> QED BY <1>4, <1>5

\* The entities that a resolution finds are those with an exact label as their basis.
LEMMA ExactIsResolved ==
  ASSUME NEW ixs \in Seq(Seq(Candidates)), NEW req \in SearchRequests, req.query # <<>>
  PROVE  /\ ResolveLabel(ixs, req) \subseteq Found(ixs, req)
         /\ \A e \in Found(ixs, req) :
              /\ e \in ResolveLabel(ixs, req) <=> Match(ixs, req, e).basis = ExactLabel
              /\ Match(ixs, req, e).basis = ExactLabel
                   <=> KeysIn(ixs, req)[e][1][1] = 1
              /\ KeysIn(ixs, req)[e][1][1] \in 1..11
<1>6. ASSUME NEW c
      PROVE  ExactLabel \in MatchBases(c, req.query)
               <=> c.kind = "preferred_label" /\ c.text = req.query
  <2> DEFINE Related == [exact |-> c.text = req.query,
                         prefix |-> IsPrefix(req.query, c.text),
                         substring |-> req.query \in SubSeqs(c.text),
                         token_coverage |-> ToSet(req.query) \subseteq ToSet(c.text)]
  <2>1. MatchBases(c, req.query) = {b \in ToSet(BasesInOrder) : b[1] = c.kind /\ Related[b[2]]}
    BY DEF MatchBases
  <2>2. Related["exact"] = (c.text = req.query)
    BY Zenon
  <2>3. ExactLabel \in ToSet(BasesInOrder)
    BY BasesAreInOrder DEF ToSet
  <2>4. ExactLabel[1] = "preferred_label" /\ ExactLabel[2] = "exact"
    BY DEF ExactLabel
  <2> HIDE DEF Related
  <2>5. ExactLabel \in MatchBases(c, req.query)
          <=> ExactLabel[1] = c.kind /\ Related[ExactLabel[2]]
    BY <2>1, <2>3, Zenon
  <2> QED BY <2>2, <2>4, <2>5, Zenon
<1>1. ASSUME NEW c, c.kind = "preferred_label", c.text = req.query
      PROVE  ExactLabel \in MatchBases(c, req.query)
  BY <1>1, <1>6
<1>2. ASSUME NEW c, ExactLabel \in MatchBases(c, req.query)
      PROVE  c.kind = "preferred_label" /\ c.text = req.query
  BY <1>2, <1>6
<1>3. ASSUME NEW e \in ResolveLabel(ixs, req)
      PROVE  e \in Found(ixs, req) /\ \E c \in Matching(ixs, e, req) : ExactLabel \in MatchBases(c, req.query)
  <2>1. PICK c \in ToSet(All(ixs)) : c.entity = e /\ c.kind = "preferred_label" /\ c.text = req.query
    BY <1>3 DEF ResolveLabel
  <2>2. ExactLabel \in MatchBases(c, req.query)
    BY <1>1, <2>1
  <2>3. c \in Matching(ixs, e, req)
    BY <2>1, <2>2 DEF Matching
  <2>4. e \in EntitiesOf(ixs) /\ Hits(ixs, e, req) # {}
    BY <1>3, <2>3, BestIsLeast DEF ResolveLabel
  <2> QED BY <2>2, <2>3, <2>4 DEF Found
<1>4. ASSUME NEW e \in Found(ixs, req)
      PROVE  /\ e \in ResolveLabel(ixs, req) <=> Match(ixs, req, e).basis = ExactLabel
             /\ Match(ixs, req, e).basis = ExactLabel
                   <=> KeysIn(ixs, req)[e][1][1] = 1
             /\ KeysIn(ixs, req)[e][1][1] \in 1..11
  <2> DEFINE b == Best(ixs, e, req)
             M == Matching(ixs, e, req)
             basis == MatchBasis(b, req.query)
  <2>1. /\ b \in M /\ M \subseteq ToSet(All(ixs)) /\ e \in EntitiesOf(ixs)
        /\ \A c \in M : ~KeyBefore(Key(c, req), Key(b, req))
        /\ \A c \in M : c.entity = e /\ MatchBases(c, req.query) # {}
    BY <1>4, BestIsLeast DEF Found, Matching
  <2>2. Match(ixs, req, e).basis = basis /\ KeysIn(ixs, req)[e] = Key(b, req)
    BY <1>4 DEF Match, KeysIn
  <2>3. Key(b, req)[1][1] = BasisOrder(basis)
    BY KeySays
  <2> HIDE DEF b, M
  <2>4. /\ basis \in MatchBases(b, req.query) /\ BasisOrder(basis) \in 1..11
        /\ BasesInOrder[BasisOrder(basis)] = basis
    BY <2>1, MatchBasisIsFirst
  <2>5. basis = ExactLabel <=> BasisOrder(basis) = 1
    BY <2>4, BasesAreInOrder
  <2>6. ASSUME basis = ExactLabel PROVE e \in ResolveLabel(ixs, req)
    <3>1. b.kind = "preferred_label" /\ b.text = req.query
      BY <1>2, <2>4, <2>6
    <3>2. b \in ToSet(All(ixs)) /\ b.entity = e
      BY <2>1
    <3> QED BY <2>1, <3>1, <3>2 DEF ResolveLabel
  <2>7. ASSUME e \in ResolveLabel(ixs, req) PROVE basis = ExactLabel
    <3>1. PICK c \in M : ExactLabel \in MatchBases(c, req.query)
      BY <1>3, <2>7 DEF M
    <3>2. BasisOrder(MatchBasis(c, req.query)) \in 1..11
          /\ BasisOrder(MatchBasis(c, req.query)) <= BasisOrder(ExactLabel)
      BY <3>1, MatchBasisIsFirst
    <3>3. BasisOrder(MatchBasis(c, req.query)) = 1
      BY <3>2, BasesAreInOrder
    <3>4. /\ b \in Candidates /\ c \in Candidates
          /\ MatchBases(b, req.query) # {} /\ MatchBases(c, req.query) # {}
      BY <2>1, IndexTypes
    <3>5. Key(b, req) \in KeysOf(6) /\ Key(c, req) \in KeysOf(6)
      BY <3>4, KeyType
    <3>6. Key(b, req) = Key(c, req) \/ KeyBefore(Key(b, req), Key(c, req))
      BY <2>1, <3>5, KeyBeforeIsStrict
    <3>7. Key(b, req) = Key(c, req) => BasisOrder(basis) = 1
      BY <2>3, <3>3, KeySays
    <3>8. KeyBefore(Key(b, req), Key(c, req)) => BasisOrder(basis) <= 1
      BY <3>3 , <3>4, FirstOfKeys
    <3> QED BY <2>4, <2>5, <3>6, <3>7, <3>8
  <2> QED BY <2>2, <2>3, <2>4, <2>5, <2>6, <2>7
<1> QED BY <1>3, <1>4

\* What has been answered is the search and the resolution of what has been asked.
LexicalInv ==
  /\ indexes \in Seq(Seq(Candidates))
  /\ request # <<>> => indexes # <<>> /\ request \in SearchRequests
  /\ answer # <<>> => request # <<>>
  /\ "matches" \in DOMAIN answer =>
       /\ ToSet(request.releases) \subseteq DOMAIN indexes
       /\ answer.matches = SearchEntities(Chosen(indexes, request.releases), request)
       /\ answer.resolved = ResolveLabel(Chosen(indexes, request.releases), request)

\* The matches on an exact label.
ExactMatches(matches) == {n \in DOMAIN matches : matches[n].basis = ExactLabel}

\* A search ranks every entity once, those that a resolution finds first.
LEMMA SearchIsDeterministic ==
  ASSUME NEW ixs \in Seq(Seq(Candidates)), NEW req \in SearchRequests,
         NEW matches, matches = SearchEntities(ixs, req),
         NEW exact, exact = ExactMatches(matches)
  PROVE  /\ \A m, n \in DOMAIN matches : m # n => matches[m].entity # matches[n].entity
         /\ req.query # <<>> =>
              /\ ResolveLabel(ixs, req) = {matches[n].entity : n \in exact}
              /\ exact = 1..Cardinality(exact)
<1> DEFINE s == Ranked(ixs, req)
           D == Found(ixs, req)
           N == Cardinality(D)
           keys == KeysIn(ixs, req)
<1>1. /\ N \in Nat /\ s \in [1..N -> D]
      /\ \A m, i \in 1..N : m < i => KeyBefore(keys[s[m]], keys[s[i]])
      /\ \A m, i \in 1..N : s[m] = s[i] => m = i
      /\ \A e \in D : \E m \in 1..N : s[m] = e
  BY RankedIsSorted DEF Sorts
<1>2. matches = [n \in 1..N |-> Match(ixs, req, s[n])]
  BY <1>1, SearchParts
<1>7. exact = {n \in DOMAIN matches : matches[n].basis = ExactLabel}
  BY DEF ExactMatches
<1>3. \A e : Match(ixs, req, e).entity = e
  BY DEF Match
<1> HIDE DEF s, D, N, keys
<1>4. /\ DOMAIN matches = 1..N
      /\ \A n \in 1..N : matches[n] = Match(ixs, req, s[n]) /\ matches[n].entity = s[n] /\ s[n] \in D
  BY <1>1, <1>2, <1>3
<1>5. \A m, n \in DOMAIN matches : m # n => matches[m].entity # matches[n].entity
  BY <1>1, <1>4
<1>6. ASSUME req.query # <<>>
      PROVE  /\ ResolveLabel(ixs, req) = {matches[n].entity : n \in exact}
             /\ exact = 1..Cardinality(exact)
  <2>1. /\ ResolveLabel(ixs, req) \subseteq D
        /\ \A e \in D :
             /\ e \in ResolveLabel(ixs, req) <=> Match(ixs, req, e).basis = ExactLabel
             /\ Match(ixs, req, e).basis = ExactLabel <=> keys[e][1][1] = 1
             /\ keys[e][1][1] \in 1..11
    BY <1>6, ExactIsResolved DEF D, keys
  <2>2. \A n \in 1..N : n \in exact <=> Match(ixs, req, s[n]).basis = ExactLabel
    BY <1>4, <1>7
  <2>3. exact \in SUBSET (1..N)
    BY <1>4, <1>7
  <2>4. \A n \in 1..N : n \in exact <=> s[n] \in ResolveLabel(ixs, req)
    BY <1>4, <2>1, <2>2
  <2>5. ResolveLabel(ixs, req) = {matches[n].entity : n \in exact}
    <3>1. \A n \in exact : matches[n].entity = s[n] /\ s[n] \in ResolveLabel(ixs, req)
      BY <1>4, <2>3, <2>4
    <3>2. \A e \in ResolveLabel(ixs, req) : \E n \in exact : s[n] = e
      BY <1>1, <2>1, <2>4
    <3> QED BY <3>1, <3>2
  <2>6. ASSUME NEW i \in exact, NEW j \in 1..i PROVE j \in exact
    <3>1. i \in 1..N /\ j \in 1..N
      BY <1>1, <2>3
    <3>2. CASE j = i
      BY <3>2
    <3>3. CASE j # i
      <4>1. KeyBefore(keys[s[j]], keys[s[i]])
        BY <1>1, <3>1, <3>3
      <4>2. s[i] \in D /\ s[j] \in D
        BY <1>4, <3>1
      <4>3. /\ Best(ixs, s[i], req) \in Candidates /\ Best(ixs, s[j], req) \in Candidates
            /\ MatchBases(Best(ixs, s[i], req), req.query) # {}
            /\ MatchBases(Best(ixs, s[j], req), req.query) # {}
        BY <1>6, <4>2, BestIsLeast, IndexTypes DEF D, Found, Matching
      <4>4. /\ keys[s[i]] = Key(Best(ixs, s[i], req), req)
            /\ keys[s[j]] = Key(Best(ixs, s[j], req), req)
        BY <1>6, <4>2 DEF keys, KeysIn, D
      <4>5. keys[s[j]][1][1] <= keys[s[i]][1][1]
        <5> DEFINE b == Best(ixs, s[j], req)
                   c == Best(ixs, s[i], req)
        <5>1. KeyBefore(Key(b, req), Key(c, req))
          BY <4>1, <4>4
        <5> HIDE DEF b, c
        <5>2. BasisOrder(MatchBasis(b, req.query)) <= BasisOrder(MatchBasis(c, req.query))
          BY <4>3, <5>1, FirstOfKeys DEF b, c
        <5> QED BY <4>4, <5>2, KeySays DEF b, c
      <4>6. keys[s[i]][1][1] = 1 /\ keys[s[j]][1][1] \in 1..11
        BY <2>1, <2>2, <3>1, <4>2
      <4>7. keys[s[j]][1][1] = 1
        BY <4>5, <4>6
      <4> QED BY <2>1, <2>2, <3>1, <4>2, <4>7
    <3> QED BY <3>2, <3>3
  <2>7. exact = 1..Cardinality(exact)
    BY <1>1, <2>3, <2>6, InitialSegment
  <2> QED BY <2>5, <2>7
<1> QED BY <1>5, <1>6

\* The invariant holds at first.
LEMMA LexicalBegins == LexicalInit => LexicalInv
<1> SUFFICES ASSUME LexicalInit PROVE LexicalInv
  OBVIOUS
<1>1. indexes = <<>> /\ request = <<>> /\ answer = <<>>
  BY DEF LexicalInit
<1>2. DOMAIN answer = {}
  BY <1>1
<1> QED BY <1>1, <1>2 DEF LexicalInv

\* Every step keeps the invariant.
LEMMA LexicalKeeps ==
  ASSUME LexicalInv, [LexicalNext]_lexicalVars
  PROVE  LexicalInv'
<1>1. CASE UNCHANGED lexicalVars
  BY <1>1 DEF LexicalInv, lexicalVars
<1>2. CASE IndexesAreLoaded
  <2>1. PICK left, right \in BoundedSeq(Candidates, IndexSize) : indexes' = <<left, right>>
    BY <1>2 DEF IndexesAreLoaded
  <2>2. \A q \in BoundedSeq(Candidates, IndexSize) : q \in Seq(Candidates)
    BY LexicalAssumption DEF LexicalAssumption, BoundedSeq, SeqOf
  <2>3. left \in Seq(Candidates) /\ right \in Seq(Candidates)
    BY <2>2
  <2>4. indexes' \in Seq(Seq(Candidates))
    BY <2>1, <2>3
  <2>5. request = <<>> /\ answer = <<>> /\ UNCHANGED <<request, answer>>
    BY <1>2 DEF IndexesAreLoaded, LexicalInv
  <2>6. DOMAIN answer' = {} /\ answer' = <<>> /\ request' = <<>>
    BY <2>5
  <2> QED BY <2>4, <2>6 DEF LexicalInv
<1>3. CASE RequestIsMade
  <2>1. PICK q \in Queries, l \in Preferences, r \in Selections :
          request' = [query |-> q, languages |-> l, releases |-> r]
    BY <1>3 DEF RequestIsMade
  <2>2. request' \in SearchRequests
    BY <2>1, LexicalAssumption DEF LexicalAssumption, SearchRequests
  <2>3. indexes # <<>> /\ answer = <<>> /\ UNCHANGED <<indexes, answer>> /\ indexes \in Seq(Seq(Candidates))
    BY <1>3 DEF RequestIsMade, LexicalInv
  <2>4. DOMAIN answer' = {} /\ answer' = <<>>
    BY <2>3
  <2> QED BY <2>2, <2>3, <2>4 DEF LexicalInv
<1>4. CASE RequestIsAnswered
  <2>1. /\ request # <<>> /\ request \in SearchRequests /\ indexes # <<>> /\ indexes \in Seq(Seq(Candidates))
        /\ UNCHANGED <<indexes, request>>
    BY <1>4 DEF RequestIsAnswered, LexicalInv
  <2>2. CASE ToSet(request.releases) \subseteq DOMAIN indexes
    <3>1. answer' = [matches |-> SearchEntities(Chosen(indexes, request.releases), request),
                     resolved |-> ResolveLabel(Chosen(indexes, request.releases), request)]
      BY <1>4, <2>2 DEF RequestIsAnswered
    <3>2. /\ answer'.matches = SearchEntities(Chosen(indexes, request.releases), request)
          /\ answer'.resolved = ResolveLabel(Chosen(indexes, request.releases), request)
      BY <3>1
    <3>3. /\ answer'.matches = SearchEntities(Chosen(indexes, request.releases), request)'
          /\ answer'.resolved = ResolveLabel(Chosen(indexes, request.releases), request)'
          /\ (ToSet(request.releases) \subseteq DOMAIN indexes)'
      <4>1. indexes' = indexes /\ request' = request
        BY <2>1
      <4> QED BY <2>2, <3>2, <4>1
    <3> QED BY <2>1, <3>3 DEF LexicalInv
  <2>3. CASE ~(ToSet(request.releases) \subseteq DOMAIN indexes)
    <3>1. answer' = [errorCode |-> "UNKNOWN_ONTOLOGY_RELEASE"]
      BY <1>4, <2>3 DEF RequestIsAnswered
    <3>2. "matches" \notin DOMAIN answer'
      BY <3>1
    <3> QED BY <2>1, <3>2 DEF LexicalInv
  <2> QED BY <2>2, <2>3
<1> QED BY <1>1, <1>2, <1>3, <1>4 DEF LexicalNext

\* The invariant implies what is promised.
LEMMA LexicalIsDeterministic == LexicalInv => RanksAreDeterministic
<1> SUFFICES ASSUME LexicalInv, "matches" \in DOMAIN answer PROVE RanksAreDeterministic
  BY DEF RanksAreDeterministic
<1> DEFINE ixs == Chosen(indexes, request.releases)
           jxs == Chosen(indexes, Reverse(request.releases))
           matches == answer.matches
           exact == ExactMatches(matches)
<1>1. /\ request \in SearchRequests /\ indexes \in Seq(Seq(Candidates))
      /\ ToSet(request.releases) \subseteq DOMAIN indexes
      /\ matches = SearchEntities(ixs, request)
      /\ answer.resolved = ResolveLabel(ixs, request)
  <2>1. answer # <<>>
    OBVIOUS
  <2> QED BY <2>1 DEF LexicalInv
<1>2. request.releases \in Seq(Nat)
  BY <1>1 DEF SearchRequests
<1>3. /\ Reverse(request.releases) \in Seq(Nat)
      /\ ToSet(Reverse(request.releases)) = ToSet(request.releases)
  BY <1>2, ReverseElements
<1>4. ixs \in Seq(Seq(Candidates)) /\ jxs \in Seq(Seq(Candidates)) /\ ToSet(All(ixs)) = ToSet(All(jxs))
  <2>1. /\ ixs \in Seq(Seq(Candidates))
        /\ ToSet(All(ixs)) = UNION {ToSet(indexes[r]) : r \in ToSet(request.releases)}
    BY <1>1, <1>2, ChosenElements
  <2>2. /\ jxs \in Seq(Seq(Candidates))
        /\ ToSet(All(jxs)) = UNION {ToSet(indexes[r]) : r \in ToSet(Reverse(request.releases))}
    BY <1>1, <1>3, ChosenElements
  <2> QED BY <1>3, <2>1, <2>2
<1> HIDE DEF ixs, jxs, matches
<1>5. matches = SearchEntities(jxs, request)
  BY <1>1, <1>4, SameSearch
<1>7. exact = ExactMatches(matches)
  OBVIOUS
<1> HIDE DEF exact
<1>6. /\ \A m, n \in DOMAIN matches : m # n => matches[m].entity # matches[n].entity
      /\ request.query # <<>> =>
           /\ ResolveLabel(ixs, request) = {matches[n].entity : n \in exact}
           /\ exact = 1..Cardinality(exact)
  <2>1. request \in SearchRequests /\ ixs \in Seq(Seq(Candidates)) /\ matches = SearchEntities(ixs, request)
    BY <1>1, <1>4
  <2> QED BY ONLY <1>7, <2>1, SearchIsDeterministic
<1> QED BY <1>1, <1>5, <1>6 DEF RanksAreDeterministic, ExactLabel, ExactMatches, exact, matches, jxs

\* Ranks, bases and labels do not depend on the order of the releases.
THEOREM RanksAreIndependent == LexicalSpec => []RanksAreDeterministic
<1>1. LexicalInv /\ [LexicalNext]_lexicalVars => LexicalInv'
  BY LexicalKeeps
<1> QED BY <1>1, LexicalBegins, LexicalIsDeterministic, PTL DEF LexicalSpec
=============================================================================
