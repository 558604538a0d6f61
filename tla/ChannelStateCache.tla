------------------------- MODULE ChannelStateCache -------------------------
(***************************************************************************)
(* The last-known-good state of one ontology channel, shared by processes   *)
(* that start, stop and crash: what                                         *)
(* createPersistentHttpOntologyQueryArtifactRepository does at the first use *)
(* of the catalog (read the retained state, ask the origin, install a new   *)
(* state or fall back, evict) over the files of                             *)
(* createPersistentOntologyQueryArtifactCache: an append-only directory of  *)
(* state generations and a directory of immutable artifacts.                 *)
(*                                                                         *)
(* A step is one file-system call, or the reads of one state's two          *)
(* artifacts.  An artifact that is present is intact (ImmutableArtifact      *)
(* models corruption), every artifact has the same size, and the channel     *)
(* lease is exclusive (CacheLease shows when it is not).                     *)
(***************************************************************************)
EXTENDS Integers, Sequences, FiniteSets, FiniteSetsExt, SequencesExt

CONSTANTS Processes,     \* the processes sharing the cache directory
          MayCrash,      \* those of them that may crash
          Limit,         \* maximumPersistentQueryArtifactCacheByteSize, in artifacts
          Versions,      \* bound: manifests the origin ever publishes
          MaxStarts,     \* bound: how often each process is started
          None

ASSUME CacheAssumption == /\ MayCrash \subseteq Processes
                          /\ Limit \in Nat
                          /\ Versions \in Nat \ {0, 1}
                          /\ MaxStarts \in Nat
                          /\ None \notin Nat \cup Processes \cup {"abandoned"}
                          /\ "abandoned" \notin Processes

VARIABLES
  pc,        \* where each process is in initializeCatalogSnapshot
  purpose,   \* what it is listing the generations for
  mem,       \* its local variables, see NoMemory
  retained,  \* the version of its retained snapshot, None without one
  fetched,   \* the version it has fetched a manifest of
  starts,    \* how often it has been started
  artifacts, \* the artifact files, least recently used first
  gens,      \* the state files: generation number -> version
  lease,     \* the holder of the channel lease, None, or "abandoned" by a crash
  published  \* the version the origin serves

files == <<artifacts, gens, lease>>
run == <<starts, published>>
vars == <<pc, purpose, mem, retained, fetched, files, run>>

Manifest(v) == <<"manifest", v>>
Catalog(v) == <<"catalog", v>>
\* The artifacts a channel state refers to.
References(v) == {Manifest(v), Catalog(v)}
Present == ToSet(artifacts)
\* A generation that is there, and its artifacts with it.
Complete(g) == g \in DOMAIN gens /\ References(gens[g]) \subseteq Present

Without(seq, S) ==
  FoldLeft(LAMBDA kept, a : IF a \in S THEN kept ELSE Append(kept, a), <<>>, seq)
\* A verified read makes an artifact the most recently used one.
ReadBoth(v) == Without(artifacts, References(v))
               \o Without(<<Manifest(v), Catalog(v)>>, References(v) \ Present)
\* An artifact is read, or installed if it is absent.
Installed(a) == Append(Without(artifacts, {a}), a)

NoMemory == [todo |-> {},      \* generations listed and not yet visited
             number |-> 0,     \* nextGeneration
             kept |-> 0,       \* generations pruning retains, at most two
             doomed |-> {},    \* generations pruning is to unlink
             guarded |-> {},   \* protectedDigests
             names |-> {},     \* artifacts readdir has returned
             victims |-> <<>>, \* artifacts an eviction may still remove
             excess |-> 0,     \* how many of them it has to
             changed |-> {}]   \* those whose file is another one since

Ended == {"ready", "unavailable", "unsafe"}
Running(p) == pc[p] \notin Ended \cup {"off", "crashed"}

Goto(p, from, to) == pc[p] = from /\ pc' = [pc EXCEPT ![p] = to]
\* A directory of generations is read in two calls: readdir, then lstat of each.
List(p, why) == purpose' = [purpose EXCEPT ![p] = why]
\* The lease when p no longer needs it.
Released(p) == IF lease = p THEN None ELSE lease
\* Mutant of End: an operation that fails does not release the lease.
EndKeepsLease(p, from, how) ==
  /\ Goto(p, from, how)
  /\ mem' = [mem EXCEPT ![p] = NoMemory]
  /\ retained' = [retained EXCEPT ![p] = None]
  /\ fetched' = [fetched EXCEPT ![p] = None]
  /\ UNCHANGED <<purpose, gens, lease, starts>>

\* initializeCatalogSnapshot ends; an operation under the lease releases it first.
End(p, from, how) ==
  /\ Goto(p, from, how)
  /\ mem' = [mem EXCEPT ![p] = NoMemory]
  /\ retained' = [retained EXCEPT ![p] = None]
  /\ fetched' = [fetched EXCEPT ![p] = None]
  /\ lease' = Released(p)
  /\ UNCHANGED <<purpose, gens, starts>>
\* The retained snapshot is used if there is one.
FallBack(p, from) ==
  End(p, from, IF retained[p] # None THEN "ready" ELSE "unavailable")

\* The files of a cache that is empty, that holds one complete state, or whose newest
\* state has lost its manifest.
Init == /\ pc = [p \in Processes |-> "off"]
        /\ purpose = [p \in Processes |-> "read"]
        /\ mem = [p \in Processes |-> NoMemory]
        /\ retained = [p \in Processes |-> None]
        /\ fetched = [p \in Processes |-> None]
        /\ starts = [p \in Processes |-> 0]
        /\ \/ artifacts = <<>> /\ gens = <<>>
           \/ artifacts = <<Manifest(1), Catalog(1)>> /\ gens = <<1>>
           \/ artifacts = <<Catalog(2), Manifest(1), Catalog(1)>> /\ gens = <<1, 2>>
        /\ lease = None
        /\ published = Max({1} \cup ToSet(gens))

-----------------------------------------------------------------------------
(* readLastKnownGoodChannelState and readRetainedCatalogSnapshot           *)

Start(p) ==
  /\ pc[p] \in Ended \cup {"off", "crashed"}
  /\ starts[p] < MaxStarts
  /\ pc' = [pc EXCEPT ![p] = "readdir"]
  /\ starts' = [starts EXCEPT ![p] = @ + 1]
  /\ List(p, "read")
  /\ UNCHANGED <<mem, retained, fetched, files, published>>

ReadDirectory(p) ==
  /\ Goto(p, "readdir", "lstat")
  /\ mem' = [mem EXCEPT ![p].todo = DOMAIN gens]
  /\ UNCHANGED <<purpose, retained, fetched, files, run>>

StatEntries(p) ==
  /\ mem[p].todo \subseteq DOMAIN gens
  /\ Goto(p, "lstat", IF purpose[p] = "number" THEN "link" ELSE "visit")
  /\ mem' = [mem EXCEPT ![p].number = Max(mem[p].todo \cup {0}) + 1]
  /\ UNCHANGED <<purpose, retained, fetched, files, run>>

\* An entry that has gone since readdir makes the whole directory unsafe.
StatEntryMissing(p) ==
  /\ ~(mem[p].todo \subseteq DOMAIN gens)
  /\ End(p, "lstat", "unsafe")
  /\ UNCHANGED <<artifacts, published>>

\* The generations are visited newest first.
Visiting(p, why, g) == /\ pc[p] = "visit" /\ purpose[p] = why
                       /\ mem[p].todo # {} /\ g = Max(mem[p].todo)
VisitsDone(p, why, to) == /\ purpose[p] = why /\ mem[p].todo = {}
                          /\ Goto(p, "visit", to)
                          /\ UNCHANGED <<retained, fetched, files, run>>
\* Reading a state file and, if it is there, its artifacts.
VisitReads(g) ==
  artifacts' = IF g \in DOMAIN gens THEN ReadBoth(gens[g]) ELSE artifacts

ReadState(p, g) ==
  /\ Visiting(p, "read", g)
  /\ VisitReads(g)
  /\ IF Complete(g)
     THEN /\ pc' = [pc EXCEPT ![p] = "snapshot"]
          /\ retained' = [retained EXCEPT ![p] = gens[g]]
          /\ mem' = [mem EXCEPT ![p] = NoMemory]
     ELSE mem' = [mem EXCEPT ![p].todo = @ \ {g}] /\ UNCHANGED <<pc, retained>>
  /\ UNCHANGED <<purpose, fetched, gens, lease, run>>

NoState(p) == VisitsDone(p, "read", "fetch") /\ UNCHANGED <<purpose, mem>>

ReadSnapshot(p) ==
  /\ Goto(p, "snapshot", "fetch")
  /\ artifacts' = ReadBoth(retained[p])
  /\ retained' = [retained EXCEPT
       ![p] = IF References(@) \subseteq Present THEN @ ELSE None]
  /\ UNCHANGED <<purpose, mem, fetched, gens, lease, run>>

-----------------------------------------------------------------------------
(* initializeCatalogSnapshot: the origin's manifest; createFreshCatalog-    *)
(* Snapshot: its artifacts                                                 *)

NotModified(p) ==
  /\ retained[p] = published
  /\ End(p, "fetch", "ready")
  /\ UNCHANGED <<artifacts, published>>

\* The origin may have published newer versions by now, and may send in full what the
\* validator of the retained state would have matched.
Fetched(p) ==
  /\ Goto(p, "fetch", "catalog")
  /\ \E v \in published..Versions :
       /\ published' = v
       /\ fetched' = [fetched EXCEPT ![p] = v]
  /\ UNCHANGED <<purpose, mem, retained, files, starts>>

OriginUnavailable(p) ==
  /\ FallBack(p, "fetch")
  /\ UNCHANGED <<artifacts, published>>

\* A status such as 403, or a caller that cancels, rules the retained snapshot out.
OriginRefuses(p) ==
  /\ End(p, "fetch", "unavailable")
  /\ UNCHANGED <<artifacts, published>>

\* The catalog is in the cache or is fetched into it ...
InstallCatalog(p) ==
  /\ Goto(p, "catalog", "manifest")
  /\ artifacts' = Installed(Catalog(fetched[p]))
  /\ UNCHANGED <<purpose, mem, retained, fetched, gens, lease, run>>

\* ... or cannot be.
CatalogUnavailable(p) ==
  /\ Catalog(fetched[p]) \notin Present
  /\ FallBack(p, "catalog")
  /\ UNCHANGED <<artifacts, published>>

InstallManifest(p) ==
  /\ Goto(p, "manifest", "assert")
  /\ artifacts' = Installed(Manifest(fetched[p]))
  /\ UNCHANGED <<purpose, mem, retained, fetched, gens, lease, run>>

-----------------------------------------------------------------------------
(* installLastKnownGoodChannelState                                        *)

\* assertStateReferencedArtifactsArePresent, before and after waiting for the lease.
AssertPresent(p, from, to) ==
  /\ References(fetched[p]) \subseteq Present
  /\ Goto(p, from, to)
  /\ artifacts' = ReadBoth(fetched[p])
  /\ UNCHANGED <<mem, retained, fetched, gens, lease, run>>

AssertFails(p) ==
  /\ ~(References(fetched[p]) \subseteq Present)
  /\ \E from \in {"assert", "revalidate"} : End(p, from, "unavailable")
  /\ artifacts' = ReadBoth(fetched[p])
  /\ UNCHANGED published

Validate(p) == AssertPresent(p, "assert", "lock") /\ UNCHANGED purpose

\* Mutant of AcquireLease: the lease is not exclusive.
AcquireAnyway(p) ==
  /\ Goto(p, "lock", "revalidate")
  /\ lease' = p
  /\ UNCHANGED <<purpose, mem, retained, fetched, artifacts, gens, run>>

AcquireLease(p) ==
  /\ Goto(p, "lock", "revalidate")
  /\ lease = None
  /\ lease' = p
  /\ UNCHANGED <<purpose, mem, retained, fetched, artifacts, gens, run>>

\* A wait that times out is no error the retained snapshot may be used for.
LeaseTimesOut(p) ==
  /\ lease # None
  /\ End(p, "lock", "unavailable")
  /\ UNCHANGED <<artifacts, published>>

Revalidate(p) == AssertPresent(p, "revalidate", "readdir") /\ List(p, "number")

\* The number of the new generation may be taken: then they are listed again (eight
\* times at most; under an exclusive lease the first number is free).
LinkGeneration(p) ==
  /\ Goto(p, "link", "readdir")
  /\ IF mem[p].number \in DOMAIN gens
     THEN UNCHANGED <<purpose, mem, gens>>
     ELSE /\ gens' = [g \in DOMAIN gens \cup {mem[p].number} |->
                        IF g = mem[p].number THEN fetched[p] ELSE gens[g]]
          /\ mem' = [mem EXCEPT ![p] = NoMemory]
          /\ List(p, "prune")
  /\ UNCHANGED <<retained, fetched, artifacts, lease, run>>

\* Mutants of Retains: the newest two are kept whatever they refer to, or those that are
\* not complete.
RetainsByNumber(g, kept) == kept < 2
RetainsIncomplete(g, kept) == ~Complete(g) /\ kept < 2
Retains(g, kept) == Complete(g) /\ kept < 2

\* pruneChannelStateGenerations keeps the newest two complete generations ...
VisitToPrune(p, g) ==
  /\ Visiting(p, "prune", g)
  /\ VisitReads(g)
  /\ LET keep == Retains(g, mem[p].kept)
     IN  mem' = [mem EXCEPT ![p].todo = @ \ {g},
                            ![p].kept = IF keep THEN @ + 1 ELSE @,
                            ![p].doomed = IF keep THEN @ ELSE @ \cup {g}]
  /\ UNCHANGED <<pc, purpose, retained, fetched, gens, lease, run>>

ToUnlink(p) == VisitsDone(p, "prune", "unlink") /\ UNCHANGED <<purpose, mem>>

\* ... and unlinks the others, unless they have gone already.
UnlinkGeneration(p) ==
  /\ pc[p] = "unlink" /\ mem[p].doomed # {}
  /\ LET g == Max(mem[p].doomed)
     IN  /\ gens' = [h \in DOMAIN gens \ {g} |-> gens[h]]
         /\ mem' = [mem EXCEPT ![p].doomed = @ \ {g}]
  /\ UNCHANGED <<pc, purpose, retained, fetched, artifacts, lease, run>>

ReleaseLease(p) ==
  /\ mem[p].doomed = {}
  /\ Goto(p, "unlink", "readdir")
  /\ lease' = Released(p)
  /\ List(p, "protect")
  /\ UNCHANGED <<mem, retained, fetched, artifacts, gens, run>>

-----------------------------------------------------------------------------
(* prune: eviction down to the limit                                       *)

\* Mutant of Guarded: only the newest generation is protected.
GuardedNewest(g) == IF g \in DOMAIN gens /\ g = Max(DOMAIN gens) THEN References(gens[g]) ELSE {}
Guarded(g) == IF g \in DOMAIN gens THEN References(gens[g]) ELSE {}

\* addRetainedStateArtifactProtection
Protect(p, g) ==
  /\ Visiting(p, "protect", g)
  /\ mem' = [mem EXCEPT
       ![p].todo = @ \ {g},
       ![p].guarded = @ \cup Guarded(g)]
  /\ UNCHANGED <<pc, purpose, retained, fetched, files, run>>

\* listCanonicalArtifactFiles
ReadArtifactDirectory(p) ==
  /\ VisitsDone(p, "protect", "lstatArtifacts")
  /\ mem' = [mem EXCEPT ![p].names = Present]
  /\ UNCHANGED purpose

StatArtifacts(p) ==
  /\ mem[p].names \subseteq Present
  /\ Goto(p, "lstatArtifacts", "evict")
  /\ mem' = [mem EXCEPT
       ![p].victims = Without(artifacts, (Present \ mem[p].names) \cup mem[p].guarded),
       ![p].excess = Max({0, Cardinality(mem[p].names) - Limit}),
       ![p].names = {}]
  /\ UNCHANGED <<purpose, retained, fetched, files, run>>

StatArtifactMissing(p) ==
  /\ ~(mem[p].names \subseteq Present)
  /\ End(p, "lstatArtifacts", "unsafe")
  /\ UNCHANGED <<artifacts, published>>

\* The least recently used artifact that is not protected goes; one that has gone
\* counts as well; one that has been replaced since is left alone.
Evict(p) ==
  /\ pc[p] = "evict" /\ mem[p].excess > 0 /\ mem[p].victims # <<>>
  /\ LET a == Head(mem[p].victims)
         kept == a \in Present /\ a \in mem[p].changed
         listing(q) == a \in Present /\ ~kept /\ a \in ToSet(mem[q].victims)
         advanced == [mem EXCEPT ![p].victims = Tail(@),
                                 ![p].excess = IF kept THEN @ ELSE @ - 1]
     IN  /\ artifacts' = IF kept THEN artifacts ELSE Without(artifacts, {a})
         /\ mem' = [q \in Processes |->
                      IF q # p /\ listing(q)
                      THEN [mem[q] EXCEPT !.changed = @ \cup {a}] ELSE advanced[q]]
  /\ UNCHANGED <<pc, purpose, retained, fetched, gens, lease, run>>

EvictionDone(p) ==
  /\ mem[p].excess = 0 \/ mem[p].victims = <<>>
  /\ End(p, "evict", "ready")
  /\ UNCHANGED <<artifacts, published>>

-----------------------------------------------------------------------------
Crash(p) == /\ p \in MayCrash /\ Running(p)
            /\ pc' = [pc EXCEPT ![p] = "crashed"]
            /\ mem' = [mem EXCEPT ![p] = NoMemory]
            /\ retained' = [retained EXCEPT ![p] = None]
            /\ fetched' = [fetched EXCEPT ![p] = None]
            /\ lease' = IF lease = p THEN "abandoned" ELSE lease
            /\ UNCHANGED <<purpose, artifacts, gens, run>>

\* A contender reclaims the lease of a crashed process once it is stale.
ReclaimLease(p) == /\ pc[p] = "lock" /\ lease = "abandoned"
                   /\ lease' = None
                   /\ UNCHANGED <<pc, purpose, mem, retained, fetched, artifacts, gens, run>>

Retain(p) == \/ ReadDirectory(p) \/ StatEntries(p) \/ StatEntryMissing(p)
             \/ \E g \in mem[p].todo : ReadState(p, g) \/ VisitToPrune(p, g) \/ Protect(p, g)
             \/ NoState(p) \/ ReadSnapshot(p)
Refresh(p) == \/ NotModified(p) \/ Fetched(p) \/ OriginUnavailable(p) \/ OriginRefuses(p)
              \/ InstallCatalog(p) \/ CatalogUnavailable(p) \/ InstallManifest(p)
Publish(p) == \/ Validate(p) \/ AssertFails(p) \/ AcquireLease(p)
              \/ Revalidate(p) \/ LinkGeneration(p)
              \/ ToUnlink(p) \/ UnlinkGeneration(p) \/ ReleaseLease(p)
EvictArtifacts(p) == \/ ReadArtifactDirectory(p) \/ StatArtifacts(p)
                     \/ StatArtifactMissing(p) \/ Evict(p) \/ EvictionDone(p)
Proceed(p) == Retain(p) \/ Refresh(p) \/ Publish(p) \/ EvictArtifacts(p)

Next == \E p \in Processes : \/ Start(p) \/ Proceed(p) \/ LeaseTimesOut(p)
                             \/ Crash(p) \/ ReclaimLease(p)

Spec == Init /\ [][Next]_vars

\* A process that runs takes its steps or crashes (reads have deadlines), and a stale
\* lease is reclaimed; nobody has to time out waiting for one.
Fairness == \A p \in Processes : /\ WF_vars(Proceed(p) \/ Crash(p))
                                 /\ WF_vars(ReclaimLease(p))
FairSpec == Spec /\ Fairness

-----------------------------------------------------------------------------
\* Type invariant.
TypeOK ==
  /\ purpose \in [Processes -> {"read", "number", "prune", "protect"}]
  /\ \A p \in Processes :
       /\ retained[p] \in 1..Versions \cup {None}
       /\ fetched[p] \in 1..Versions \cup {None}
       /\ pc[p] \in {"manifest", "assert", "lock", "revalidate", "link", "unlink"}
            => fetched[p] # None
       /\ mem[p].kept \in 0..2
  /\ Cardinality(Present) = Len(artifacts)
  /\ \A g \in DOMAIN gens : g \in Nat \ {0} /\ gens[g] \in 1..Versions
  /\ lease \in {None, "abandoned"} \cup {p \in Processes : Running(p)}

\* A complete state, once retained, is never lost: at every moment, whoever publishes,
\* prunes, evicts or crashes, some generation is complete.
LastKnownGoodKept ==
  [][(\E g \in DOMAIN gens : Complete(g)) => (\E g \in DOMAIN gens : Complete(g))']_vars

\* Under an exclusive lease generations are append-only: a new one is newer than every
\* other, also when numbers have been pruned between listing and linking.
GenerationsGrow ==
  [][\A g \in DOMAIN gens' \ DOMAIN gens : \A h \in DOMAIN gens : h < g]_vars

\* A complete generation is pruned only if two complete ones remain, so that readers can
\* fall back when the newest is corrupted later.
TwoCompleteKept ==
  [][\A g \in DOMAIN gens \ DOMAIN gens' :
       Complete(g) => Cardinality({h \in DOMAIN gens' : Complete(h)}) >= 2]_vars

\* Eviction spares the artifacts of every retained state.
RetainedStatesProtected ==
  [][\A g \in DOMAIN gens : References(gens[g]) \cap Present \subseteq Present']_vars

\* While a complete state is retained no process that starts finds the cache unsafe
\* because of what other processes do to it: it reads a complete state.
RetainedStateIsReadable ==
  [][\A p \in Processes :
       /\ purpose[p] = "read" /\ pc[p] # "unsafe" /\ pc'[p] = "unsafe"
       => ~\E g \in DOMAIN gens : Complete(g)]_vars

\* Every start comes to an end: no process waits for good for a lease.
InitializationEnds ==
  \A p \in Processes : Running(p) ~> ~Running(p)
=============================================================================
