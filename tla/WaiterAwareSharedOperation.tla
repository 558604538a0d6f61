--------------------- MODULE WaiterAwareSharedOperation ---------------------
(***************************************************************************)
(* createWaiterAwareSharedOperation.js: an in-flight registry whose        *)
(* callers cancel independently.  One step is one synchronous stretch of   *)
(* JavaScript: a call of runSharedOperation, an abort event of a caller's  *)
(* signal, the settlement of an operation's promise, or one reaction of it.*)
(***************************************************************************)
EXTENDS Integers, FiniteSets

CONSTANTS Calls,   \* calls of runSharedOperation; an entry is named by the
                   \* call that creates it
          Keys,    \* operation keys
          NoEntry  \* what the Map returns for an absent key

ASSUME NoEntryAssumption == NoEntry \notin Calls

VARIABLES
  call,        \* call[c]: "idle", "waiting", "served" or "cancelled"
  callKey,     \* the operationKey of each call
  entryOf,     \* the entry a call waits for
  registry,    \* inFlightEntriesByOperationKey
  waiterCount, \* entry.waiterCount
  promise,     \* entry.promise: "none", "pending", "settled" (its reactions are
               \* queued) or "cleaned" (the first has run: entry.settled)
  aborted      \* the entries whose abortController has been aborted

vars == <<call, callKey, entryOf, registry, waiterCount, promise, aborted>>

Init == /\ call = [c \in Calls |-> "idle"]
        /\ callKey \in [Calls -> Keys]
        /\ entryOf = [c \in Calls |-> c]
        /\ registry = [k \in Keys |-> NoEntry]
        /\ waiterCount = [e \in Calls |-> 0]
        /\ promise = [e \in Calls |-> "none"]
        /\ aborted = {}

Settled(e) == promise[e] = "cleaned"

\* The registry without entry e, if e is still the entry of its key.
Unregistered(reg, e) ==
  IF reg[callKey[e]] = e THEN [reg EXCEPT ![callKey[e]] = NoEntry] ELSE reg

\* Mutants of ReleaseWaiter: a dropped or misplaced part of its test or effects.
\* The guard against settling a waiter twice is gone.
ReleaseWaiterTwice(e) ==
  /\ waiterCount' = [waiterCount EXCEPT ![e] = @ - 2]
  /\ UNCHANGED <<registry, aborted>>
\* The count is tested before it is decremented.
ReleaseWaiterEarly(e) ==
  /\ waiterCount' = [waiterCount EXCEPT ![e] = @ - 1]
  /\ IF waiterCount[e] = 2 /\ ~Settled(e)
     THEN registry' = Unregistered(registry, e) /\ aborted' = aborted \cup {e}
     ELSE UNCHANGED <<registry, aborted>>
\* The last waiter aborts the work but leaves it in the registry.
ReleaseWaiterStillRegistered(e) ==
  /\ waiterCount' = [waiterCount EXCEPT ![e] = @ - 1]
  /\ aborted' = IF waiterCount[e] = 1 /\ ~Settled(e) THEN aborted \cup {e} ELSE aborted
  /\ UNCHANGED registry
\* entry.settled is not consulted.
ReleaseWaiterIgnoresSettled(e) ==
  /\ waiterCount' = [waiterCount EXCEPT ![e] = @ - 1]
  /\ IF waiterCount[e] = 1
     THEN registry' = Unregistered(registry, e) /\ aborted' = aborted \cup {e}
     ELSE UNCHANGED <<registry, aborted>>

\* releaseWaiter of a waiter of entry e.
ReleaseWaiter(e) ==
  /\ waiterCount' = [waiterCount EXCEPT ![e] = @ - 1]
  /\ IF waiterCount[e] = 1 /\ ~Settled(e)
     THEN /\ registry' = Unregistered(registry, e)
          /\ aborted' = aborted \cup {e}
     ELSE UNCHANGED <<registry, aborted>>

\* A caller whose signal is already aborted is rejected before any lookup.
RunCancelled(c) ==
  /\ call[c] = "idle"
  /\ call' = [call EXCEPT ![c] = "cancelled"]
  /\ UNCHANGED <<callKey, entryOf, registry, waiterCount, promise, aborted>>

\* Mutant of RunJoins: the joining caller is not counted.
RunJoinsUncounted(c) ==
  /\ call[c] = "idle"
  /\ registry[callKey[c]] # NoEntry
  /\ call' = [call EXCEPT ![c] = "waiting"]
  /\ entryOf' = [entryOf EXCEPT ![c] = registry[callKey[c]]]
  /\ UNCHANGED <<callKey, registry, waiterCount, promise, aborted>>

\* An entry is registered for the key: the caller becomes one more waiter.
RunJoins(c) ==
  /\ call[c] = "idle"
  /\ registry[callKey[c]] # NoEntry
  /\ call' = [call EXCEPT ![c] = "waiting"]
  /\ entryOf' = [entryOf EXCEPT ![c] = registry[callKey[c]]]
  /\ waiterCount' = [waiterCount EXCEPT ![registry[callKey[c]]] = @ + 1]
  /\ UNCHANGED <<callKey, registry, promise, aborted>>

\* createEntry then waitForEntry.  The operation may return a pending promise or
\* throw at once (a promise that is already rejected).
RunStarts(c) ==
  /\ call[c] = "idle"
  /\ registry[callKey[c]] = NoEntry
  /\ call' = [call EXCEPT ![c] = "waiting"]
  /\ registry' = [registry EXCEPT ![callKey[c]] = c]
  /\ waiterCount' = [waiterCount EXCEPT ![c] = 1]
  /\ \E p \in {"pending", "settled"} : promise' = [promise EXCEPT ![c] = p]
  /\ UNCHANGED <<callKey, entryOf, aborted>>

\* The synchronous start of the operation aborted the caller's own signal: the
\* recheck after listener registration releases the only waiter in the same step.
RunStartsAndCancels(c) ==
  /\ call[c] = "idle"
  /\ registry[callKey[c]] = NoEntry
  /\ call' = [call EXCEPT ![c] = "cancelled"]
  /\ aborted' = aborted \cup {c}
  /\ \E p \in {"pending", "settled"} : promise' = [promise EXCEPT ![c] = p]
  /\ UNCHANGED <<callKey, entryOf, registry, waiterCount>>

\* handleAbort: the caller's signal fires while it waits.
HandleAbort(c) ==
  /\ call[c] = "waiting"
  /\ call' = [call EXCEPT ![c] = "cancelled"]
  /\ ReleaseWaiter(entryOf[c])
  /\ UNCHANGED <<callKey, entryOf, promise>>

\* The operation fulfils or rejects its promise, aborted or not.
OperationSettles(e) ==
  /\ promise[e] = "pending"
  /\ promise' = [promise EXCEPT ![e] = "settled"]
  /\ UNCHANGED <<call, callKey, entryOf, registry, waiterCount, aborted>>

\* The first reaction of the promise, registered by createEntry.
CleanupReaction(e) ==
  /\ promise[e] = "settled"
  /\ promise' = [promise EXCEPT ![e] = "cleaned"]
  /\ registry' = Unregistered(registry, e)
  /\ UNCHANGED <<call, callKey, entryOf, waiterCount, aborted>>

\* Mutant of Reacting: waiter reactions are registered before the cleanup one.
ReactingFirst(e) == promise[e] \in {"settled", "cleaned"}

\* Reactions of one promise run in registration order, so a waiter's reaction
\* runs only after the cleanup reaction.
Reacting(e) == promise[e] = "cleaned"

\* Mutant of WaiterReaction: only the call that created the entry is answered.
WaiterReactionOfCreator(c) ==
  /\ call[c] = "waiting" /\ entryOf[c] = c
  /\ Reacting(c)
  /\ call' = [call EXCEPT ![c] = "served"]
  /\ ReleaseWaiter(c)
  /\ UNCHANGED <<callKey, entryOf, promise>>

\* A later reaction of the promise, registered by waitForEntry.
WaiterReaction(c) ==
  /\ call[c] = "waiting"
  /\ Reacting(entryOf[c])
  /\ call' = [call EXCEPT ![c] = "served"]
  /\ ReleaseWaiter(entryOf[c])
  /\ UNCHANGED <<callKey, entryOf, promise>>

\* Every call has been answered and every promise has run its reactions.
Quiescent ==
  /\ \A c \in Calls : call[c] \in {"served", "cancelled"}
  /\ \A e \in Calls : promise[e] \in {"none", "cleaned"}
  /\ UNCHANGED vars

Step(c) == \/ RunCancelled(c) \/ RunJoins(c) \/ RunStarts(c)
           \/ RunStartsAndCancels(c) \/ HandleAbort(c)
           \/ OperationSettles(c) \/ CleanupReaction(c) \/ WaiterReaction(c)

Next == (\E c \in Calls : Step(c)) \/ Quiescent

Spec == Init /\ [][Next]_vars

\* A microtask that is queued runs.  An operation that still has waiters settles:
\* every operation run through the registry has a deadline of its own.  Nothing
\* is assumed of callers (they need not cancel) nor of abandoned operations.
Fairness == \A c \in Calls : /\ WF_vars(c \notin aborted /\ OperationSettles(c))
                             /\ WF_vars(CleanupReaction(c))
                             /\ WF_vars(WaiterReaction(c))
FairSpec == Spec /\ Fairness

-----------------------------------------------------------------------------
Waiters(e) == {c \in Calls : call[c] = "waiting" /\ entryOf[c] = e}
InFlight(e) == promise[e] \in {"pending", "settled"} /\ e \notin aborted

\* Type invariant.
TypeOK ==
  /\ call \in [Calls -> {"idle", "waiting", "served", "cancelled"}]
  /\ callKey \in [Calls -> Keys]
  /\ entryOf \in [Calls -> Calls]
  /\ registry \in [Keys -> Calls \cup {NoEntry}]
  /\ waiterCount \in [Calls -> Nat]
  /\ promise \in [Calls -> {"none", "pending", "settled", "cleaned"}]
  /\ aborted \in SUBSET Calls

\* The count that decides on abandonment is the number of callers still waiting,
\* whatever order joins, cancellations and reactions come in.
WaiterCountExact ==
  \A e \in Calls : IsFiniteSet(Waiters(e)) /\ waiterCount[e] = Cardinality(Waiters(e))

\* One caller's cancellation never aborts work another caller still needs.
AwaitedNotAborted ==
  \A c \in Calls : call[c] = "waiting" => entryOf[c] \notin aborted

\* The registry offers exactly the work in flight: an entry that is abandoned or
\* done is never found by a later caller, and work in flight is never missed.
RegistryExact ==
  \A e \in Calls : InFlight(e) <=> registry[callKey[e]] = e

\* No work in flight is an orphan: somebody waits for it.
InFlightIsAwaited == \A e \in Calls : InFlight(e) => Waiters(e) # {}

\* Cancelling one of several waiters changes nothing the others can see: their
\* state, the operation's signal, and its place in the registry.
CancellationIsLocal ==
  [][\A c, d \in Calls :
       /\ c # d /\ entryOf[c] = entryOf[d]
       /\ call[c] = "waiting" /\ call'[c] = "cancelled"
       /\ call[d] = "waiting"
       => /\ call'[d] = "waiting"
          /\ entryOf[c] \notin aborted'
          /\ registry' = registry]_vars

\* An operation that settled normally is not aborted afterwards ("cannot be
\* mistaken for abandoned work").
NoAbortAfterSettlement ==
  [][\A e \in Calls : Settled(e) /\ e \in aborted' => e \in aborted]_vars

\* Every waiter is eventually answered.
WaitersAnswered ==
  \A c \in Calls : (call[c] = "waiting") ~> (call[c] \in {"served", "cancelled"})

-----------------------------------------------------------------------------
\* Refinement: what each entry is to its callers.
EntryStatus(e) == IF promise[e] = "none" THEN "none"
                  ELSE IF e \in aborted THEN "abandoned"
                  ELSE IF Settled(e) THEN "done" ELSE "live"

Abstract == INSTANCE CoalescedCalls
              WITH shares <- entryOf, status <- [e \in Calls |-> EntryStatus(e)]

\* The registry implements independent cancellation of coalesced calls.
AbstractSpec == Abstract!Spec
=============================================================================
