------------------------- MODULE OntologyIndexCache -------------------------
(***************************************************************************)
(* The cache of parsed release indexes in createOntologyQueryModule.js:    *)
(* loadRuntimeIndex over the registry of in-flight loads.  A load runs in   *)
(* two parts with an await after each: the repository's read, and the       *)
(* digest of the bytes; what follows the digest is synchronous.            *)
(***************************************************************************)
EXTENDS Integers, Sequences, SequencesExt, FiniteSetsExt

CONSTANTS Calls,         \* calls of loadRuntimeIndex; a load is named by its first
          Keys,          \* cacheKey: family, version and digest of an index
          NoEntry,
          ByteSize,      \* the length of the index of each key
          MaxIndexBytes  \* maximumInMemoryQueryIndexCacheByteSize

ASSUME IndexCacheAssumption == /\ ByteSize \in [Keys -> Nat \ {0}]
                               /\ MaxIndexBytes \in Nat \ {0}

VARIABLES
  call, callKey, entryOf, registry, waiterCount, promise, aborted,
  stage,    \* a load: "none", "reading", "hashing", "loaded" or "failed"
  cached,   \* runtimeIndexCacheEntriesByKey: the loads whose index is cached, at most
            \* one of a key, by lastAccessSequence
  account   \* inMemoryQueryIndexCacheByteSize

sharedVars == <<call, callKey, entryOf, registry, waiterCount, promise, aborted>>
indexVars == <<sharedVars, stage, cached, account>>

Shared == INSTANCE WaiterAwareSharedOperation

IndexInit == /\ Shared!Init
             /\ stage = [c \in Calls |-> "none"]
             /\ cached = <<>>
             /\ account = 0

Bytes(loads) == SumFunctionOnSet([e \in Calls |-> ByteSize[callKey[e]]], loads)
IsCached(k) == \E e \in ToSet(cached) : callKey[e] = k
Place(k) == CHOOSE j \in DOMAIN cached : callKey[cached[j]] = k
Other(k) == IF IsCached(k) THEN RemoveAt(cached, Place(k)) ELSE cached

\* An access makes an index the most recently used one.
Touched(k) == Append(Other(k), cached[Place(k)])

\* The index is cached: no load, no wait.
CacheHit(c) ==
  /\ call[c] = "idle" /\ IsCached(callKey[c])
  /\ call' = [call EXCEPT ![c] = "served"]
  /\ cached' = Touched(callKey[c])
  /\ UNCHANGED <<callKey, entryOf, registry, waiterCount, promise, aborted, stage, account>>

\* The index is not cached: the call joins the load of its key or starts one.  A
\* repository that throws at once fails the load at once.
CacheMiss(c) ==
  /\ ~IsCached(callKey[c])
  /\ \/ Shared!RunJoins(c) /\ UNCHANGED stage
     \/ /\ Shared!RunStarts(c) \/ Shared!RunStartsAndCancels(c)
        /\ stage' = [stage EXCEPT ![c] = IF promise'[c] = "settled" THEN "failed"
                                         ELSE "reading"]
  /\ UNCHANGED <<cached, account>>

LoadFails(e) == /\ Shared!OperationSettles(e)
                /\ stage[e] \in {"reading", "hashing"}
                /\ stage' = [stage EXCEPT ![e] = "failed"]
                /\ UNCHANGED <<cached, account>>

\* The read returns: a load nobody waits for any more ends here.
BytesArrive(e) == /\ stage[e] = "reading" /\ e \notin aborted
                  /\ stage' = [stage EXCEPT ![e] = "hashing"]
                  /\ UNCHANGED <<sharedVars, cached, account>>

\* How many of the others, least recently used first, go for a budget with load e in.
Oldest(others, n) == ToSet(SubSeq(others, 1, n))
Excess(others, total) ==
  Min({n \in 0..Len(others) : total - Bytes(Oldest(others, n)) <= MaxIndexBytes}
      \cup {Len(others)})

\* Mutant of Evict: an index that is larger than the whole budget stays.
EvictOthersOnly(e, others, total) ==
  LET n == Excess(others, total)
  IN /\ cached' = Append(SubSeq(others, n + 1, Len(others)), e)
     /\ account' = total - Bytes(Oldest(others, n))

\* evictQueryIndexesToInMemoryCacheBudget: the index just loaded goes last, and only if
\* it is larger than the whole budget.
Evict(e, others, total) ==
  LET n == Excess(others, total)
      kept == SubSeq(others, n + 1, Len(others))
      rest == total - Bytes(Oldest(others, n))
      tooLarge == rest > MaxIndexBytes /\ ByteSize[callKey[e]] > MaxIndexBytes
  IN /\ cached' = IF tooLarge THEN kept ELSE Append(kept, e)
     /\ account' = IF tooLarge THEN rest - ByteSize[callKey[e]] ELSE rest

\* The digest is right and the bytes parse: the index is cached, abandoned or not.  It
\* takes the place of one that another load of its key has cached meanwhile.
LoadCompletes(e) == /\ stage[e] = "hashing"
                    /\ Shared!OperationSettles(e)
                    /\ stage' = [stage EXCEPT ![e] = "loaded"]
                    /\ Evict(e, Other(callKey[e]), account + ByteSize[callKey[e]])

\* The reactions of a load's promise; a caller that is served touches the index if the
\* cache still has the one it was given.
LoadReacts(c) ==
  \/ Shared!CleanupReaction(c) /\ UNCHANGED <<stage, cached, account>>
  \/ /\ Shared!WaiterReaction(c)
     /\ cached' = IF entryOf[c] \in ToSet(cached) THEN Touched(callKey[c]) ELSE cached
     /\ UNCHANGED <<stage, account>>

CallerCancels(c) == /\ Shared!RunCancelled(c) \/ Shared!HandleAbort(c)
                    /\ UNCHANGED <<stage, cached, account>>

IndexNext == \E c \in Calls : \/ CacheHit(c) \/ CacheMiss(c) \/ BytesArrive(c)
                              \/ LoadCompletes(c) \/ LoadFails(c) \/ LoadReacts(c)
                              \/ CallerCancels(c)

IndexSpec == IndexInit /\ [][IndexNext]_indexVars

-----------------------------------------------------------------------------
\* The cached indexes never exceed the budget, whatever loads end in whatever order: the
\* account may count an index that has been replaced, but never misses one that is there.
IndexCacheBounded == /\ Bytes(ToSet(cached)) <= account
                     /\ Bytes(ToSet(cached)) <= MaxIndexBytes
=============================================================================
