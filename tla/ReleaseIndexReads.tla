-------------------------- MODULE ReleaseIndexReads --------------------------
(***************************************************************************)
(* Reads of release indexes through persistent repositories that share one *)
(* cache (readOntologyReleaseQueryIndex of                                 *)
(* persistentHttpOntologyQueryArtifactRepository.js), once the catalog is  *)
(* pinned: what is not in the cache is fetched by one shared population a  *)
(* process, one process at a time, and every read ends with an eviction.   *)
(*                                                                         *)
(* Sharing is CoalescedCalls, which WaiterAwareSharedOperation implements; *)
(* a population is named by the read that starts it.  The lease of a       *)
(* digest is exclusive (CacheLease), and reads and installations of a file *)
(* are one step each (ImmutableArtifact).  Eviction spares the digest just *)
(* read, and takes any others in place of the least recently used.  Nobody *)
(* publishes or prunes channel states meanwhile (ChannelStateCache).       *)
(***************************************************************************)
EXTENDS Naturals, FiniteSets

CONSTANTS
  Reads,         \* calls of readOntologyReleaseQueryIndex
  ProcessOf,     \* the process of each
  Releases,      \* releases in the catalog
  DigestOf,      \* digest of the index each refers to
  Fitting,       \* those whose identity is the one in the index's bytes
  Room,          \* maximumPersistentQueryArtifactCacheByteSize, in indexes
  None           \* no holder, no result

HolderAssumption == None \notin Reads \cup {"bytes", "error"}

Digests == {DigestOf[r] : r \in Releases}

VARIABLES
  call, callKey, shares, status,    \* see CoalescedCalls
  release,        \* the release each read asks for
  step,           \* where each read is
  withdrawn,      \* reads whose caller's signal is aborted
  population,     \* where each population is
  result,         \* what it has come to: None, "bytes", "error"
  leaseHolder,    \* the population that holds the lease of each digest, or None
  stored,         \* digests in the cache
  listed,         \* those each eviction has found there, and not removed since
  \* history
  troubled,       \* digests whose origin or lease has failed a population
  overtaken,      \* reads that had listed a file, and not yet looked it up, when
                  \* another's eviction removed it
  evictions,      \* how often each digest has been evicted
  installations   \* how often it has been installed by a population
sharedVars == <<call, callKey, shares, status>>
accountVars == <<troubled, evictions, installations>>
evictionVars == <<listed, overtaken>>
readsVars == <<sharedVars, release, step, withdrawn, population, result, leaseHolder,
               stored, accountVars, evictionVars>>

Shared == INSTANCE CoalescedCalls
            WITH Calls <- Reads,
                 Keys <- {ProcessOf[c] : c \in Reads} \X Digests

Digest(c) == DigestOf[release[c]]

ReadsInit ==
  /\ release \in [Reads -> Releases]
  /\ call = [c \in Reads |-> "idle"]
  /\ callKey = [c \in Reads |-> <<ProcessOf[c], Digest(c)>>]
  /\ shares = [c \in Reads |-> c]
  /\ status = [c \in Reads |-> "none"]
  /\ step = [c \in Reads |-> "start"]
  /\ withdrawn = {}
  /\ population = [c \in Reads |-> "none"]
  /\ result = [c \in Reads |-> None]
  /\ leaseHolder = [d \in Digests |-> None]
  /\ stored = {}
  /\ listed = [c \in Reads |-> {}]
  /\ troubled = {}
  /\ overtaken = {}
  /\ evictions = [d \in Digests |-> 0]
  /\ installations = [d \in Digests |-> 0]

Go(c, from, to) == step[c] = from /\ step' = [step EXCEPT ![c] = to]

-----------------------------------------------------------------------------
(* readArtifactFromCacheOrOrigin, for one caller                           *)

\* The bytes are judged by each caller's own release.
Judge(c) == IF release[c] \in Fitting THEN "prune" ELSE "mismatch"

ReadCache(c) ==
  /\ step[c] = "start"
  /\ step' = [step EXCEPT ![c] = IF c \in withdrawn THEN "cancelled"
                                 ELSE IF Digest(c) \in stored THEN Judge(c) ELSE "share"]
  /\ UNCHANGED <<sharedVars, release, withdrawn, population, result, leaseHolder,
                 stored, evictionVars, accountVars>>

\* runSharedArtifactPopulation.
RefusePopulation(c) ==
  /\ c \in withdrawn
  /\ Go(c, "share", "cancelled")
  /\ Shared!Refuse(c)
  /\ UNCHANGED <<release, withdrawn, population, result, leaseHolder, stored,
                 evictionVars, accountVars>>
StartPopulation(c) ==
  /\ c \notin withdrawn
  /\ Go(c, "share", "waiting")
  /\ Shared!Start(c) /\ call'[c] = "waiting"
  /\ population' = [population EXCEPT ![c] = "acquire"]
  /\ UNCHANGED <<release, withdrawn, result, leaseHolder, stored, evictionVars,
                 accountVars>>
JoinPopulation(c) ==
  /\ c \notin withdrawn
  /\ Go(c, "share", "waiting")
  /\ Shared!Join(c)
  /\ UNCHANGED <<release, withdrawn, population, result, leaseHolder, stored,
                 evictionVars, accountVars>>

\* A caller's abort: a waiter leaves at once; the last one abandons the population.
Withdraw(c) ==
  /\ c \notin withdrawn
  /\ step[c] \in {"start", "share", "waiting", "prune", "listing", "evicting"}
  /\ withdrawn' = withdrawn \cup {c}
  /\ IF step[c] = "waiting" /\ call[c] = "waiting"
     THEN Shared!Leave(c) /\ step' = [step EXCEPT ![c] = "cancelled"]
     ELSE UNCHANGED <<sharedVars, step>>
  /\ UNCHANGED <<release, population, result, leaseHolder, stored, evictionVars,
                 accountVars>>

Delivered(c) ==
  /\ step[c] = "waiting"
  /\ Shared!Deliver(c)
  /\ step' = [step EXCEPT ![c] = IF result[shares[c]] = "bytes" THEN Judge(c)
                                 ELSE "unavailable"]
  /\ UNCHANGED <<release, withdrawn, population, result, leaseHolder, stored,
                 evictionVars, accountVars>>

\* cache.prune, after bytes that fit: the directories of the cache are read ...
PruneUnchanged == UNCHANGED <<sharedVars, release, withdrawn, population, result,
                              leaseHolder, troubled, installations>>
ListFiles(c) ==
  /\ Go(c, "prune", IF c \in withdrawn THEN "cancelled" ELSE "listing")
  /\ listed' = [listed EXCEPT ![c] = IF c \in withdrawn THEN {} ELSE stored]
  /\ PruneUnchanged /\ UNCHANGED <<stored, evictions, overtaken>>

\* Whether something has to be evicted, and can be, when S is left of what was listed.
TooMany(c, S) == Cardinality(S) > Room /\ S \ {Digest(c)} # {}

\* ... and their files looked up: one that is gone fails the read that has its bytes.
LookUpFiles(c) ==
  LET next == IF c \in withdrawn /\ listed[c] # {} THEN "cancelled"
              ELSE IF ~(listed[c] \subseteq stored) THEN "unavailable"
              ELSE IF TooMany(c, listed[c]) THEN "evicting" ELSE "answered"
  IN  /\ Go(c, "listing", next)
      /\ listed' = [listed EXCEPT ![c] = IF next = "evicting" THEN @ ELSE {}]
      /\ PruneUnchanged /\ UNCHANGED <<stored, evictions, overtaken>>

\* The signal is looked at before each file, and not after the last.
Stopped(c) == {"answered"} \cup {end \in {"cancelled"} : c \in withdrawn}

\* A file is removed, which may be gone by now, until there are not too many, ...
Evict(c, d) ==
  LET left == listed[c] \ {d}
      goesOn == c \notin withdrawn /\ TooMany(c, left)
  IN  /\ d \in listed[c] \ {Digest(c)}
      /\ \E next \in IF goesOn THEN {"evicting"} ELSE Stopped(c) : Go(c, "evicting", next)
      /\ listed' = [listed EXCEPT ![c] = IF goesOn THEN left ELSE {}]
      /\ stored' = stored \ {d}
      /\ evictions' = [evictions EXCEPT ![d] = IF d \in stored THEN @ + 1 ELSE @]
      /\ overtaken' = overtaken \cup {r \in Reads : step[r] = "listing" /\ d \in listed[r]}
      /\ PruneUnchanged

\* ... or those that are left are kept: they are others by now, or cannot be removed,
\* which is not an error.
KeepRest(c) ==
  /\ \E next \in Stopped(c) : Go(c, "evicting", next)
  /\ listed' = [listed EXCEPT ![c] = {}]
  /\ PruneUnchanged /\ UNCHANGED <<stored, evictions, overtaken>>

Prune(c) == ListFiles(c) \/ LookUpFiles(c) \/ (\E d \in Digests : Evict(c, d))
            \/ KeepRest(c)

-----------------------------------------------------------------------------
(* The shared population of a digest                                       *)

Target(o) == callKey[o][2]
Abandoned(o) == status[o] = "abandoned"
PopulationUnchanged == UNCHANGED <<release, step, withdrawn, evictionVars>>

AcquireLease(o) ==
  /\ population[o] = "acquire" /\ ~Abandoned(o)
  /\ leaseHolder[Target(o)] = None
  /\ leaseHolder' = [leaseHolder EXCEPT ![Target(o)] = o]
  /\ population' = [population EXCEPT ![o] = "check"]
  /\ PopulationUnchanged /\ UNCHANGED <<sharedVars, result, stored, accountVars>>

\* Mutant of CheckCache: another process may have been first, but nobody looks.
CheckNothing(o) ==
  /\ population[o] = "check" /\ ~Abandoned(o)
  /\ population' = [population EXCEPT ![o] = "fetch"]
  /\ PopulationUnchanged
  /\ UNCHANGED <<sharedVars, result, leaseHolder, stored, accountVars>>
\* raceWinnerBytes: another process may have been first.
CheckCache(o) ==
  /\ population[o] = "check" /\ ~Abandoned(o)
  /\ IF Target(o) \in stored
     THEN /\ population' = [population EXCEPT ![o] = "release"]
          /\ result' = [result EXCEPT ![o] = "bytes"]
     ELSE /\ population' = [population EXCEPT ![o] = "fetch"]
          /\ UNCHANGED result
  /\ PopulationUnchanged /\ UNCHANGED <<sharedVars, leaseHolder, stored, accountVars>>

\* httpReader.read and the verification of what it gives.
Fetched(o) ==
  /\ population[o] = "fetch" /\ ~Abandoned(o)
  /\ population' = [population EXCEPT ![o] = "install"]
  /\ PopulationUnchanged
  /\ UNCHANGED <<sharedVars, result, leaseHolder, stored, accountVars>>
Install(o) ==
  /\ population[o] = "install" /\ ~Abandoned(o)
  /\ stored' = stored \cup {Target(o)}
  /\ installations' = [installations EXCEPT ![Target(o)] = @ + 1]
  /\ population' = [population EXCEPT ![o] = "release"]
  /\ result' = [result EXCEPT ![o] = "bytes"]
  /\ PopulationUnchanged
  /\ UNCHANGED <<sharedVars, leaseHolder, troubled, evictions>>

\* The wait for the lease or the fetch fails.
PopulationFails(o) ==
  /\ population[o] \in {"acquire", "fetch"} /\ ~Abandoned(o)
  /\ population' = [population EXCEPT ![o] = "release"]
  /\ result' = [result EXCEPT ![o] = "error"]
  /\ troubled' = troubled \cup {Target(o)}
  /\ PopulationUnchanged
  /\ UNCHANGED <<sharedVars, leaseHolder, stored, evictions, installations>>
\* The shared signal is aborted, and the population notices.
PopulationStops(o) ==
  /\ population[o] \in {"acquire", "check", "fetch", "install"} /\ Abandoned(o)
  /\ population' = [population EXCEPT ![o] = "release"]
  /\ result' = [result EXCEPT ![o] = "error"]
  /\ PopulationUnchanged
  /\ UNCHANGED <<sharedVars, leaseHolder, stored, accountVars>>

Unleased(o) == [leaseHolder EXCEPT ![Target(o)] = IF @ = o THEN None ELSE @]
\* Mutant of ReleaseLease: those who wait for a population that failed are not told.
ReleaseUntold(o) ==
  /\ population[o] = "release"
  /\ leaseHolder' = Unleased(o)
  /\ population' = [population EXCEPT ![o] = "ended"]
  /\ IF Abandoned(o) \/ result[o] = "error" THEN UNCHANGED sharedVars
     ELSE Shared!Finish(o)
  /\ PopulationUnchanged /\ UNCHANGED <<result, stored, accountVars>>
ReleaseLease(o) ==
  /\ population[o] = "release"
  /\ leaseHolder' = Unleased(o)
  /\ population' = [population EXCEPT ![o] = "ended"]
  /\ IF Abandoned(o) THEN UNCHANGED sharedVars ELSE Shared!Finish(o)
  /\ PopulationUnchanged /\ UNCHANGED <<result, stored, accountVars>>

PopulationProceeds(o) ==
  \/ AcquireLease(o) \/ CheckCache(o) \/ Fetched(o) \/ Install(o)
  \/ PopulationFails(o) \/ PopulationStops(o) \/ ReleaseLease(o)
ReadProceeds(c) ==
  \/ RefusePopulation(c) \/ StartPopulation(c) \/ JoinPopulation(c)
  \/ Delivered(c) \/ Prune(c)

ReadsNext == \E c \in Reads : \/ ReadCache(c) \/ ReadProceeds(c) \/ Withdraw(c)
                             \/ PopulationProceeds(c)
\* A read that has begun goes on, and a population: a fetch has a deadline, and so has
\* the wait for a lease.
ReadsFairness == \A c \in Reads : /\ WF_readsVars(ReadProceeds(c))
                                  /\ WF_readsVars(PopulationProceeds(c))

-----------------------------------------------------------------------------
\* A read fails for a reason that can be named: an index that does not fit its release is
\* refused to those who asked for that release and to nobody who shares its bytes; it is
\* unavailable only if the origin or the lease has failed, or another's eviction has
\* removed a file between the listing and the lookup of this read's own, as the code has
\* it; and nobody who has not withdrawn is cancelled.
FailuresExplained ==
  \A c \in Reads :
    /\ step[c] = "mismatch" => release[c] \notin Fitting
    /\ step[c] \in {"prune", "listing", "evicting", "answered"} => release[c] \in Fitting
    /\ step[c] = "unavailable" => Digest(c) \in troubled \/ c \in overtaken
    /\ step[c] = "cancelled" => c \in withdrawn

\* An index is fetched and stored once, and again only after it has been evicted, however
\* many processes read it, and no lease outlives its population.
PopulatedOnce ==
  /\ \A d \in Digests : installations[d] <= 1 + evictions[d]
  /\ \A d \in Digests : leaseHolder[d] # None =>
       population[leaseHolder[d]] \in {"check", "fetch", "install", "release"}

\* Every read ends.
ReadsEnd ==
  \A c \in Reads :
    step[c] # "start" ~> step[c] \in {"answered", "mismatch", "unavailable", "cancelled"}
=============================================================================
