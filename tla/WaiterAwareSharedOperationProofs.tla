------------------ MODULE WaiterAwareSharedOperationProofs ------------------
(***************************************************************************)
(* Theorems about the shared-operation registry, for any sets of calls and *)
(* keys.  IInv is inductive: the exact waiter count is needed to know that *)
(* a release from 1 leaves nobody waiting, and the exact registry to know  *)
(* that a joining caller finds work that is still in flight.               *)
(***************************************************************************)
EXTENDS WaiterAwareSharedOperation, FiniteSetTheorems, TLAPS

\* Facts about the life of an entry that the properties themselves do not state.
EntryLife ==
  \A c \in Calls :
    /\ call[c] = "idle" => entryOf[c] = c /\ promise[c] = "none"
    /\ promise[c] = "none" => c \notin aborted

\* A caller waits for, and is served by, an operation of its own key.
ServedByOwnKey ==
  \A c \in Calls : call[c] \in {"waiting", "served"} =>
    callKey[entryOf[c]] = callKey[c] /\ promise[entryOf[c]] # "none"

\* The entry of a key was created for that key.
RegisteredUnderOwnKey ==
  \A k \in Keys : registry[k] # NoEntry => callKey[registry[k]] = k

IInv == /\ TypeOK
        /\ EntryLife
        /\ WaiterCountExact
        /\ AwaitedNotAborted
        /\ RegistryExact
        /\ RegisteredUnderOwnKey
        /\ ServedByOwnKey

\* Initially nobody waits.
LEMMA InitIInv == Init => IInv
<1> SUFFICES ASSUME Init PROVE IInv
  OBVIOUS
<1>1. \A e \in Calls : Waiters(e) = {}
  BY DEF Init, Waiters
<1>2. WaiterCountExact
  BY <1>1, FS_EmptySet DEF Init, WaiterCountExact
<1>3. QED
  BY <1>2, NoEntryAssumption
  DEF Init, IInv, TypeOK, EntryLife, AwaitedNotAborted, RegistryExact, InFlight,
      ServedByOwnKey, RegisteredUnderOwnKey

\* A step that changes neither who waits for what nor the counts keeps them exact.
LEMMA SameWaiters ==
  ASSUME WaiterCountExact, waiterCount' = waiterCount,
         \A e \in Calls : Waiters(e)' = Waiters(e)
  PROVE  WaiterCountExact'
BY DEF WaiterCountExact

\* One more waiter, counted.
LEMMA OneMoreWaiter ==
  ASSUME TypeOK, WaiterCountExact, NEW c \in Calls, NEW e \in Calls,
         call[c] # "waiting",
         waiterCount' = [waiterCount EXCEPT ![e] = @ + 1],
         Waiters(e)' = Waiters(e) \cup {c},
         \A f \in Calls \ {e} : Waiters(f)' = Waiters(f)
  PROVE  WaiterCountExact'
<1>1. c \notin Waiters(e)
  BY DEF Waiters
<1>2. /\ IsFiniteSet(Waiters(e) \cup {c})
      /\ Cardinality(Waiters(e) \cup {c}) = Cardinality(Waiters(e)) + 1
  BY <1>1, FS_AddElement DEF WaiterCountExact
<1>3. QED
  BY <1>2 DEF WaiterCountExact, TypeOK

\* One waiter fewer, released: the count stays exact, and if it was 1 nobody is
\* left.
LEMMA OneWaiterFewer ==
  ASSUME TypeOK, WaiterCountExact, NEW c \in Calls, NEW e \in Calls,
         call[c] = "waiting", entryOf[c] = e,
         waiterCount' = [waiterCount EXCEPT ![e] = @ - 1],
         Waiters(e)' = Waiters(e) \ {c},
         \A f \in Calls \ {e} : Waiters(f)' = Waiters(f)
  PROVE  /\ WaiterCountExact'
         /\ waiterCount[e] \in Nat \ {0}
         /\ waiterCount[e] = 1 => Waiters(e) = {c}
<1>1. c \in Waiters(e)
  BY DEF Waiters
<1>2. /\ IsFiniteSet(Waiters(e) \ {c})
      /\ Cardinality(Waiters(e) \ {c}) = Cardinality(Waiters(e)) - 1
  BY <1>1, FS_RemoveElement DEF WaiterCountExact
<1>3. Cardinality(Waiters(e) \ {c}) \in Nat
  BY <1>2, FS_CardinalityType
<1>4. waiterCount[e] \in Nat \ {0}
  BY <1>2, <1>3 DEF WaiterCountExact, TypeOK
<1>5. ASSUME waiterCount[e] = 1 PROVE Waiters(e) = {c}
  <2>1. Cardinality(Waiters(e) \ {c}) = 0
    BY <1>2, <1>5 DEF WaiterCountExact
  <2>2. Waiters(e) \ {c} = {}
    BY <2>1, <1>2, FS_EmptySet
  <2>3. QED
    BY <1>1, <2>2
<1>6. WaiterCountExact'
  BY <1>2 DEF WaiterCountExact, TypeOK
<1>7. QED
  BY <1>4, <1>5, <1>6

-----------------------------------------------------------------------------
\* A call that becomes a waiter of e, seen from every entry.
LEMMA WaitersAfterJoin ==
  ASSUME TypeOK, NEW c \in Calls, NEW e \in Calls, call[c] # "waiting",
         call' = [call EXCEPT ![c] = "waiting"],
         entryOf' = [entryOf EXCEPT ![c] = e]
  PROVE  /\ Waiters(e)' = Waiters(e) \cup {c}
         /\ \A f \in Calls \ {e} : Waiters(f)' = Waiters(f)
BY DEF Waiters, TypeOK

\* A waiter that is answered, seen from every entry.
LEMMA WaitersAfterRelease ==
  ASSUME TypeOK, NEW c \in Calls, NEW s \in {"served", "cancelled"},
         call[c] = "waiting", call' = [call EXCEPT ![c] = s], entryOf' = entryOf
  PROVE  /\ Waiters(entryOf[c])' = Waiters(entryOf[c]) \ {c}
         /\ \A f \in Calls \ {entryOf[c]} : Waiters(f)' = Waiters(f)
BY DEF Waiters, TypeOK

\* A refused call touches no entry.
LEMMA RunCancelledPreserves ==
  ASSUME IInv, NEW c \in Calls, RunCancelled(c) PROVE IInv'
<1> USE DEF IInv, RunCancelled
<1>1. \A e \in Calls : Waiters(e)' = Waiters(e)
  BY DEF Waiters, TypeOK
<1>2. WaiterCountExact'
  BY <1>1, SameWaiters
<1>3. TypeOK' /\ EntryLife'
  BY DEF TypeOK, EntryLife
<1>4. /\ AwaitedNotAborted' /\ RegistryExact' /\ RegisteredUnderOwnKey'
      /\ ServedByOwnKey'
  BY DEF TypeOK, AwaitedNotAborted, RegistryExact, InFlight, ServedByOwnKey,
         RegisteredUnderOwnKey
<1>5. QED
  BY <1>2, <1>3, <1>4

\* Joining: the entry found in the registry is in flight and gains one waiter.
LEMMA RunJoinsPreserves ==
  ASSUME IInv, NEW c \in Calls, RunJoins(c) PROVE IInv'
<1> DEFINE e == registry[callKey[c]]
<1>1. e \in Calls /\ callKey[c] \in Keys
  BY NoEntryAssumption DEF IInv, TypeOK, RunJoins
<1>2. InFlight(e) /\ callKey[e] = callKey[c]
  <2>1. callKey[e] = callKey[c]
    BY <1>1, NoEntryAssumption DEF IInv, RegisteredUnderOwnKey
  <2>2. QED
    BY <1>1, <2>1 DEF IInv, RegistryExact
<1>3. WaiterCountExact'
  <2>1. /\ Waiters(e)' = Waiters(e) \cup {c}
        /\ \A f \in Calls \ {e} : Waiters(f)' = Waiters(f)
    BY <1>1, WaitersAfterJoin DEF IInv, RunJoins
  <2>2. QED
    BY <1>1, <2>1, OneMoreWaiter DEF IInv, RunJoins
<1>4. TypeOK' /\ EntryLife'
  BY <1>1 DEF IInv, TypeOK, EntryLife, RunJoins
<1>5. AwaitedNotAborted' /\ ServedByOwnKey'
  BY <1>1, <1>2
  DEF IInv, TypeOK, AwaitedNotAborted, ServedByOwnKey, InFlight, RunJoins
<1>6. RegistryExact' /\ RegisteredUnderOwnKey'
  BY DEF IInv, RegistryExact, RegisteredUnderOwnKey, InFlight, RunJoins
<1>7. QED
  BY <1>3, <1>4, <1>5, <1>6 DEF IInv

\* Starting: a fresh entry gets its creator as its only waiter and the key's slot.
LEMMA RunStartsPreserves ==
  ASSUME IInv, NEW c \in Calls, RunStarts(c) PROVE IInv'
<1>1. entryOf[c] = c /\ promise[c] = "none" /\ c \notin aborted
  BY DEF IInv, EntryLife, RunStarts
<1>2. PICK p \in {"pending", "settled"} : promise' = [promise EXCEPT ![c] = p]
  BY DEF RunStarts
<1>3. Waiters(c) = {}
  BY <1>1 DEF IInv, ServedByOwnKey, Waiters, TypeOK
<1>4. WaiterCountExact'
  <2>1. waiterCount[c] = 0
    BY <1>3, FS_EmptySet DEF IInv, WaiterCountExact
  <2>2. waiterCount' = [waiterCount EXCEPT ![c] = @ + 1]
    BY <2>1 DEF IInv, TypeOK, RunStarts
  <2>3. entryOf' = [entryOf EXCEPT ![c] = c]
    BY <1>1 DEF IInv, TypeOK, RunStarts
  <2>4. /\ Waiters(c)' = Waiters(c) \cup {c}
        /\ \A f \in Calls \ {c} : Waiters(f)' = Waiters(f)
    BY <2>3, WaitersAfterJoin DEF IInv, RunStarts
  <2>5. QED
    BY <2>2, <2>4, OneMoreWaiter DEF IInv, RunStarts
<1>5. TypeOK' /\ EntryLife'
  BY <1>2 DEF IInv, TypeOK, EntryLife, RunStarts
<1>6. AwaitedNotAborted' /\ ServedByOwnKey'
  BY <1>1, <1>2
  DEF IInv, TypeOK, AwaitedNotAborted, ServedByOwnKey, RunStarts
<1>7. RegistryExact' /\ RegisteredUnderOwnKey'
  BY <1>1, <1>2, NoEntryAssumption
  DEF IInv, TypeOK, RegistryExact, RegisteredUnderOwnKey, InFlight, RunStarts
<1>8. QED
  BY <1>4, <1>5, <1>6, <1>7 DEF IInv

\* A start whose signal aborts at once leaves an aborted entry nobody can find.
LEMMA RunStartsAndCancelsPreserves ==
  ASSUME IInv, NEW c \in Calls, RunStartsAndCancels(c) PROVE IInv'
<1>1. entryOf[c] = c /\ promise[c] = "none" /\ c \notin aborted
  BY DEF IInv, EntryLife, RunStartsAndCancels
<1>2. PICK p \in {"pending", "settled"} : promise' = [promise EXCEPT ![c] = p]
  BY DEF RunStartsAndCancels
<1>3. \A e \in Calls : Waiters(e)' = Waiters(e)
  BY DEF IInv, TypeOK, Waiters, RunStartsAndCancels
<1>4. WaiterCountExact'
  BY <1>3, SameWaiters DEF IInv, RunStartsAndCancels
<1>5. TypeOK' /\ EntryLife'
  BY <1>2 DEF IInv, TypeOK, EntryLife, RunStartsAndCancels
<1>6. AwaitedNotAborted' /\ ServedByOwnKey'
  BY <1>1, <1>2
  DEF IInv, TypeOK, AwaitedNotAborted, ServedByOwnKey, RunStartsAndCancels
<1>7. RegistryExact' /\ RegisteredUnderOwnKey'
  BY <1>1, <1>2, NoEntryAssumption
  DEF IInv, TypeOK, RegistryExact, RegisteredUnderOwnKey, InFlight,
      RunStartsAndCancels
<1>8. QED
  BY <1>4, <1>5, <1>6, <1>7 DEF IInv

\* Both ways of leaving an entry: cancellation and delivery.
LEMMA ReleasePreserves ==
  ASSUME IInv, NEW c \in Calls, NEW s \in {"served", "cancelled"},
         call[c] = "waiting", call' = [call EXCEPT ![c] = s],
         ReleaseWaiter(entryOf[c]), UNCHANGED <<callKey, entryOf, promise>>
  PROVE  IInv'
<1> DEFINE e == entryOf[c]
<1>1. e \in Calls /\ e \notin aborted /\ callKey[e] = callKey[c]
      /\ callKey[e] \in Keys /\ promise[e] # "none"
  BY DEF IInv, TypeOK, AwaitedNotAborted, ServedByOwnKey
<1>2. /\ Waiters(e)' = Waiters(e) \ {c}
      /\ \A f \in Calls \ {e} : Waiters(f)' = Waiters(f)
  BY WaitersAfterRelease DEF IInv
<1>3. /\ WaiterCountExact'
      /\ waiterCount[e] \in Nat \ {0}
      /\ waiterCount[e] = 1 => Waiters(e) = {c}
  <2>1. waiterCount' = [waiterCount EXCEPT ![e] = @ - 1]
    BY DEF ReleaseWaiter
  <2>2. QED
    BY <1>1, <1>2, <2>1, OneWaiterFewer DEF IInv
<1>4. CASE waiterCount[e] = 1 /\ ~Settled(e)
  <2>1. /\ aborted' = aborted \cup {e}
        /\ waiterCount' = [waiterCount EXCEPT ![e] = @ - 1]
    BY <1>4 DEF ReleaseWaiter
  <2>2. registry' = [registry EXCEPT ![callKey[e]] = NoEntry]
    <3>1. InFlight(e)
      BY <1>1, <1>4 DEF IInv, TypeOK, InFlight, Settled
    <3>2. registry[callKey[e]] = e
      BY <1>1, <3>1 DEF IInv, RegistryExact
    <3>3. QED
      BY <1>4, <3>2 DEF ReleaseWaiter, Unregistered
  <2>3. TypeOK' /\ EntryLife'
    BY <1>1, <1>3, <2>1, <2>2 DEF IInv, TypeOK, EntryLife
  <2>4. AwaitedNotAborted'
    BY <1>3, <1>4, <2>1 DEF IInv, TypeOK, AwaitedNotAborted, Waiters
  <2>5. ServedByOwnKey'
    BY <1>1 DEF IInv, TypeOK, ServedByOwnKey
  <2>6. RegistryExact' /\ RegisteredUnderOwnKey'
    <3>1. registry[callKey[e]] = e
      BY <1>1, <1>4
      DEF IInv, TypeOK, RegistryExact, InFlight, Settled
    <3>2. QED
      BY <1>1, <2>1, <2>2, <3>1, NoEntryAssumption
      DEF IInv, TypeOK, RegistryExact, RegisteredUnderOwnKey, InFlight
  <2>7. QED
    BY <1>3, <2>3, <2>4, <2>5, <2>6 DEF IInv
<1>5. CASE ~(waiterCount[e] = 1 /\ ~Settled(e))
  <2>1. /\ UNCHANGED <<registry, aborted>>
        /\ waiterCount' = [waiterCount EXCEPT ![e] = @ - 1]
    BY <1>5 DEF ReleaseWaiter
  <2>2. TypeOK' /\ EntryLife'
    BY <1>1, <1>3, <2>1 DEF IInv, TypeOK, EntryLife
  <2>3. AwaitedNotAborted' /\ ServedByOwnKey'
    BY <1>1, <2>1 DEF IInv, TypeOK, AwaitedNotAborted, ServedByOwnKey
  <2>4. RegistryExact' /\ RegisteredUnderOwnKey'
    BY <2>1 DEF IInv, RegistryExact, RegisteredUnderOwnKey, InFlight
  <2>5. QED
    BY <1>3, <2>2, <2>3, <2>4 DEF IInv
<1>6. QED
  BY <1>4, <1>5

\* Settling changes neither the waiters nor the registry: work stays in flight.
LEMMA OperationSettlesPreserves ==
  ASSUME IInv, NEW e \in Calls, OperationSettles(e) PROVE IInv'
<1>1. \A f \in Calls : Waiters(f)' = Waiters(f)
  BY DEF Waiters, OperationSettles
<1>2. WaiterCountExact'
  BY <1>1, SameWaiters DEF IInv, OperationSettles
<1>3. TypeOK' /\ EntryLife' /\ AwaitedNotAborted' /\ ServedByOwnKey'
  BY DEF IInv, TypeOK, EntryLife, AwaitedNotAborted, ServedByOwnKey,
         OperationSettles
<1>4. RegistryExact' /\ RegisteredUnderOwnKey'
  BY DEF IInv, TypeOK, RegistryExact, RegisteredUnderOwnKey, InFlight,
         OperationSettles
<1>5. QED
  BY <1>2, <1>3, <1>4 DEF IInv

\* The cleanup reaction removes the entry exactly when it is no longer in flight.
LEMMA CleanupReactionPreserves ==
  ASSUME IInv, NEW e \in Calls, CleanupReaction(e) PROVE IInv'
<1>1. \A f \in Calls : Waiters(f)' = Waiters(f)
  BY DEF Waiters, CleanupReaction
<1>2. WaiterCountExact'
  BY <1>1, SameWaiters DEF IInv, CleanupReaction
<1>3. TypeOK' /\ EntryLife' /\ AwaitedNotAborted' /\ ServedByOwnKey'
  BY DEF IInv, TypeOK, EntryLife, AwaitedNotAborted, ServedByOwnKey,
         CleanupReaction, Unregistered
<1>4. RegistryExact' /\ RegisteredUnderOwnKey'
  <2>1. callKey[e] \in Keys
    BY DEF IInv, TypeOK
  <2>2. CASE registry[callKey[e]] = e
    BY <2>1, <2>2, NoEntryAssumption
    DEF IInv, TypeOK, RegistryExact, RegisteredUnderOwnKey, InFlight,
        CleanupReaction, Unregistered
  <2>3. CASE registry[callKey[e]] # e
    BY <2>1, <2>3
    DEF IInv, TypeOK, RegistryExact, RegisteredUnderOwnKey, InFlight,
        CleanupReaction, Unregistered
  <2>4. QED
    BY <2>2, <2>3
<1>5. QED
  BY <1>2, <1>3, <1>4 DEF IInv

\* A stuttering step.
LEMMA StutterPreserves == ASSUME IInv, UNCHANGED vars PROVE IInv'
<1>1. \A f \in Calls : Waiters(f)' = Waiters(f)
  BY DEF Waiters, vars
<1>2. WaiterCountExact'
  BY <1>1, SameWaiters DEF IInv, vars
<1>3. QED
  BY <1>2
  DEF IInv, vars, TypeOK, EntryLife, AwaitedNotAborted, ServedByOwnKey,
      RegistryExact, RegisteredUnderOwnKey, InFlight

\* Every step preserves the inductive invariant.
LEMMA NextIInv == IInv /\ [Next]_vars => IInv'
<1> SUFFICES ASSUME IInv, [Next]_vars PROVE IInv'
  OBVIOUS
<1>1. ASSUME NEW c \in Calls, Step(c) PROVE IInv'
  <2>1. CASE RunCancelled(c)
    BY <2>1, RunCancelledPreserves
  <2>2. CASE RunJoins(c)
    BY <2>2, RunJoinsPreserves
  <2>3. CASE RunStarts(c)
    BY <2>3, RunStartsPreserves
  <2>4. CASE RunStartsAndCancels(c)
    BY <2>4, RunStartsAndCancelsPreserves
  <2>5. CASE HandleAbort(c)
    BY <2>5, ReleasePreserves DEF HandleAbort
  <2>6. CASE OperationSettles(c)
    BY <2>6, OperationSettlesPreserves
  <2>7. CASE CleanupReaction(c)
    BY <2>7, CleanupReactionPreserves
  <2>8. CASE WaiterReaction(c)
    BY <2>8, ReleasePreserves DEF WaiterReaction
  <2>9. QED
    BY <1>1, <2>1, <2>2, <2>3, <2>4, <2>5, <2>6, <2>7, <2>8 DEF Step
<1>2. CASE Quiescent
  BY <1>2, StutterPreserves DEF Quiescent
<1>3. CASE UNCHANGED vars
  BY <1>3, StutterPreserves
<1>4. QED
  BY <1>1, <1>2, <1>3 DEF Next

\* Every reachable state of the registry satisfies the inductive invariant.
THEOREM Invariance == Spec => []IInv
BY InitIInv, NextIInv, PTL DEF Spec

\* The registry's variables keep their types.
THEOREM TypeCorrect == Spec => []TypeOK
<1>1. IInv => TypeOK
  BY DEF IInv
<1>2. QED
  BY <1>1, Invariance, PTL

\* One caller's cancellation never aborts work another caller still needs.
THEOREM AwaitedWorkIsNotAborted == Spec => []AwaitedNotAborted
<1>1. IInv => AwaitedNotAborted
  BY DEF IInv
<1>2. QED
  BY <1>1, Invariance, PTL

\* The count that decides on abandonment is the number of waiting callers.
THEOREM WaitersAreCounted == Spec => []WaiterCountExact
<1>1. IInv => WaiterCountExact
  BY DEF IInv
<1>2. QED
  BY <1>1, Invariance, PTL

\* The registry offers exactly the work in flight.
THEOREM RegistryIsExact == Spec => []RegistryExact
<1>1. IInv => RegistryExact
  BY DEF IInv
<1>2. QED
  BY <1>1, Invariance, PTL
-----------------------------------------------------------------------------
\* Work in flight has a positive count.
InFlightCounted == \A e \in Calls : InFlight(e) => waiterCount[e] # 0

\* Every step preserves that work in flight has a positive count.
LEMMA NextInFlightCounted ==
  IInv /\ InFlightCounted /\ [Next]_vars => InFlightCounted'
<1> SUFFICES ASSUME IInv, InFlightCounted, [Next]_vars PROVE InFlightCounted'
  OBVIOUS
<1>1. ASSUME NEW c \in Calls, Step(c) PROVE InFlightCounted'
  <2>1. CASE RunCancelled(c)
    BY <2>1 DEF InFlightCounted, InFlight, RunCancelled
  <2>2. CASE RunJoins(c)
    BY <2>2, NoEntryAssumption
    DEF IInv, TypeOK, InFlightCounted, InFlight, RunJoins
  <2>3. CASE RunStarts(c)
    BY <2>3 DEF IInv, TypeOK, InFlightCounted, InFlight, RunStarts
  <2>4. CASE RunStartsAndCancels(c)
    BY <2>4 DEF IInv, TypeOK, InFlightCounted, InFlight, RunStartsAndCancels
  <2>5. CASE HandleAbort(c) \/ WaiterReaction(c)
    <3>1. ReleaseWaiter(entryOf[c]) /\ promise' = promise /\ entryOf[c] \in Calls
      BY <2>5 DEF HandleAbort, WaiterReaction, IInv, TypeOK
    <3>2. CASE waiterCount[entryOf[c]] = 1
      BY <3>1, <3>2
      DEF IInv, TypeOK, InFlightCounted, InFlight, ReleaseWaiter, Settled
    <3>3. CASE waiterCount[entryOf[c]] # 1
      BY <3>1, <3>3
      DEF IInv, TypeOK, InFlightCounted, InFlight, ReleaseWaiter
    <3>4. QED
      BY <3>2, <3>3
  <2>6. CASE OperationSettles(c)
    BY <2>6 DEF IInv, TypeOK, InFlightCounted, InFlight, OperationSettles
  <2>7. CASE CleanupReaction(c)
    BY <2>7 DEF IInv, TypeOK, InFlightCounted, InFlight, CleanupReaction
  <2>8. QED
    BY <1>1, <2>1, <2>2, <2>3, <2>4, <2>5, <2>6, <2>7 DEF Step
<1>2. CASE UNCHANGED vars \/ Quiescent
  BY <1>2 DEF vars, Quiescent, InFlightCounted, InFlight
<1>3. QED
  BY <1>1, <1>2 DEF Next

\* No work in flight is an orphan: somebody waits for it.
THEOREM NoOrphanWork == Spec => []InFlightIsAwaited
<1>1. Init => InFlightCounted
  BY DEF Init, InFlightCounted, InFlight
<1>2. IInv /\ InFlightCounted => InFlightIsAwaited
  BY FS_EmptySet DEF IInv, WaiterCountExact, InFlightCounted, InFlightIsAwaited
<1>3. QED
  BY <1>1, <1>2, Invariance, NextInFlightCounted, PTL DEF Spec

-----------------------------------------------------------------------------
\* A release with another waiter left touches only the count.
LEMMA ReleaseWithOthers ==
  ASSUME IInv, NEW c \in Calls, NEW d \in Calls, c # d, call[c] = "waiting",
         call[d] = "waiting", entryOf[c] = entryOf[d], ReleaseWaiter(entryOf[c])
  PROVE  UNCHANGED <<registry, aborted>>
<1>1. {c, d} \subseteq Waiters(entryOf[c]) /\ entryOf[c] \in Calls
  BY DEF Waiters, IInv, TypeOK
<1>2. waiterCount[entryOf[c]] # 1
  <2>1. SUFFICES ASSUME Cardinality(Waiters(entryOf[c])) = 1,
                        IsFiniteSet(Waiters(entryOf[c]))
                 PROVE  FALSE
    BY <1>1 DEF IInv, WaiterCountExact
  <2>2. \E x : Waiters(entryOf[c]) = {x}
    BY <2>1, FS_Singleton
  <2>3. QED
    BY <1>1, <2>2
<1>3. QED
  BY <1>2 DEF ReleaseWaiter

\* Cancelling one of several waiters changes nothing the others can see.
THEOREM CancellationStaysLocal == Spec => CancellationIsLocal
<1> DEFINE Local ==
      \A c, d \in Calls :
        /\ c # d /\ entryOf[c] = entryOf[d]
        /\ call[c] = "waiting" /\ call'[c] = "cancelled"
        /\ call[d] = "waiting"
        => /\ call'[d] = "waiting"
           /\ entryOf[c] \notin aborted'
           /\ registry' = registry
<1>1. ASSUME IInv, [Next]_vars PROVE [Local]_vars
  <2>1. SUFFICES ASSUME Next, NEW c \in Calls, NEW d \in Calls, c # d,
                        entryOf[c] = entryOf[d], call[c] = "waiting",
                        call'[c] = "cancelled", call[d] = "waiting"
                 PROVE  /\ call'[d] = "waiting"
                        /\ entryOf[c] \notin aborted'
                        /\ registry' = registry
    BY <1>1
  <2>2. PICK b \in Calls : Step(b)
    BY <2>1 DEF Next, Quiescent
  <2>3. HandleAbort(c)
    BY <1>1, <2>1, <2>2
    DEF IInv, TypeOK, Step, RunCancelled, RunJoins, RunStarts,
        RunStartsAndCancels, HandleAbort, OperationSettles, CleanupReaction,
        WaiterReaction
  <2>4. UNCHANGED <<registry, aborted>>
    BY <1>1, <2>1, <2>3, ReleaseWithOthers DEF HandleAbort
  <2>5. QED
    BY <1>1, <2>1, <2>3, <2>4 DEF IInv, TypeOK, AwaitedNotAborted, HandleAbort
<1>2. QED
  BY <1>1, Invariance, PTL DEF Spec, CancellationIsLocal

\* An operation that settled normally is not aborted afterwards.
THEOREM SettledWorkIsNotAborted == Spec => NoAbortAfterSettlement
<1> DEFINE Kept == \A e \in Calls : Settled(e) /\ e \in aborted' => e \in aborted
<1>1. ASSUME IInv, [Next]_vars PROVE [Kept]_vars
  <2>1. SUFFICES ASSUME NEW c \in Calls, Step(c) PROVE Kept
    BY <1>1 DEF Next, Quiescent, vars
  <2>2. CASE RunStartsAndCancels(c)
    BY <1>1, <2>2 DEF IInv, EntryLife, RunStartsAndCancels, Settled
  <2>3. CASE HandleAbort(c) \/ WaiterReaction(c)
    BY <2>3 DEF HandleAbort, WaiterReaction, ReleaseWaiter
  <2>4. QED
    BY <2>1, <2>2, <2>3
    DEF Step, RunCancelled, RunJoins, RunStarts, OperationSettles,
        CleanupReaction
<1>2. QED
  BY <1>1, Invariance, PTL DEF Spec, NoAbortAfterSettlement
-----------------------------------------------------------------------------
\* The abstract status of an entry, read off its promise and its controller.
StatusOf == [e \in Calls |-> EntryStatus(e)]

\* What an entry is to its callers, by its promise and its signal.
LEMMA StatusCases ==
  ASSUME IInv, NEW e \in Calls
  PROVE  /\ StatusOf[e] = EntryStatus(e)
         /\ promise[e] = "none" <=> EntryStatus(e) = "none"
         /\ promise[e] # "none" /\ e \in aborted <=> EntryStatus(e) = "abandoned"
         /\ promise[e] = "cleaned" /\ e \notin aborted <=> EntryStatus(e) = "done"
         /\ InFlight(e) <=> EntryStatus(e) = "live"
BY DEF IInv, TypeOK, EntryStatus, Settled, InFlight, StatusOf

\* A key has live work exactly when it has an entry.
LEMMA LiveIsRegistered ==
  ASSUME IInv, NEW c \in Calls
  PROVE  /\ registry[callKey[c]] = NoEntry => Abstract!Live(callKey[c]) = {}
         /\ registry[callKey[c]] # NoEntry =>
              registry[callKey[c]] \in Abstract!Live(callKey[c])
<1>1. ASSUME NEW e \in Calls
      PROVE  e \in Abstract!Live(callKey[c])
               <=> InFlight(e) /\ callKey[e] = callKey[c]
  BY <1>1, StatusCases DEF Abstract!Live, StatusOf
<1>2. registry[callKey[c]] = NoEntry => Abstract!Live(callKey[c]) = {}
  <2>1. Abstract!Live(callKey[c]) \subseteq Calls
    BY DEF Abstract!Live
  <2>2. QED
    BY <1>1, <2>1, NoEntryAssumption DEF IInv, RegistryExact
<1>3. ASSUME registry[callKey[c]] # NoEntry
      PROVE  registry[callKey[c]] \in Abstract!Live(callKey[c])
  <2>1. registry[callKey[c]] \in Calls /\ callKey[c] \in Keys
    BY <1>3 DEF IInv, TypeOK
  <2>2. callKey[registry[callKey[c]]] = callKey[c]
    BY <1>3, <2>1 DEF IInv, RegisteredUnderOwnKey
  <2>3. QED
    BY <1>1, <2>1, <2>2 DEF IInv, RegistryExact
<1>4. QED
  BY <1>2, <1>3
\* A change of one entry is a change of its status alone.
LEMMA StatusUpdate ==
  ASSUME NEW e \in Calls, NEW s,
         EntryStatus(e)' = s,
         \A f \in Calls \ {e} : EntryStatus(f)' = EntryStatus(f)
  PROVE  StatusOf' = [StatusOf EXCEPT ![e] = s]
BY DEF StatusOf

\* The status of an entry depends on nothing else.
LEMMA StatusSame ==
  ASSUME \A f \in Calls : EntryStatus(f)' = EntryStatus(f) PROVE StatusOf' = StatusOf
BY DEF StatusOf

\* Both ways of leaving an entry change at most the status of a live entry whose
\* last waiter leaves.
LEMMA ReleaseStatus ==
  ASSUME IInv, NEW c \in Calls, NEW e \in Calls, call[c] = "waiting",
         entryOf[c] = e, ReleaseWaiter(e), promise' = promise
  PROVE  StatusOf' = IF Abstract!Sharers(e) = {c} /\ StatusOf[e] = "live"
                     THEN [StatusOf EXCEPT ![e] = "abandoned"]
                     ELSE StatusOf
<1>1. /\ e \notin aborted /\ promise[e] # "none"
      /\ c \in Waiters(e)
  BY DEF IInv, TypeOK, AwaitedNotAborted, ServedByOwnKey, Waiters
<1>2. Abstract!Sharers(e) = Waiters(e)
  BY DEF Abstract!Sharers, Waiters
<1>3. Waiters(e) = {c} <=> waiterCount[e] = 1
  <2>1. waiterCount[e] = 1 => Waiters(e) = {c}
    BY <1>1, FS_Singleton DEF IInv, WaiterCountExact
  <2>2. Waiters(e) = {c} => waiterCount[e] = 1
    BY <1>1, FS_Singleton DEF IInv, WaiterCountExact
  <2>3. QED
    BY <2>1, <2>2
<1>4. StatusOf[e] = "live" <=> ~Settled(e)
  BY <1>1, StatusCases DEF IInv, TypeOK, InFlight, Settled
<1>5. CASE waiterCount[e] = 1 /\ ~Settled(e)
  <2>1. aborted' = aborted \cup {e}
    BY <1>5 DEF ReleaseWaiter
  <2>2. EntryStatus(e)' = "abandoned"
    BY <1>1, <2>1 DEF EntryStatus
  <2>3. \A f \in Calls \ {e} : EntryStatus(f)' = EntryStatus(f)
    BY <2>1 DEF EntryStatus, Settled
  <2>4. StatusOf' = [StatusOf EXCEPT ![e] = "abandoned"]
    BY <2>2, <2>3, StatusUpdate
  <2>5. QED
    BY <1>2, <1>3, <1>4, <1>5, <2>4
<1>6. CASE ~(waiterCount[e] = 1 /\ ~Settled(e))
  <2>1. aborted' = aborted
    BY <1>6 DEF ReleaseWaiter
  <2>2. StatusOf' = StatusOf
    BY <2>1, StatusSame DEF EntryStatus, Settled
  <2>3. QED
    BY <1>2, <1>3, <1>4, <1>6, <2>2
<1>7. QED
  BY <1>5, <1>6

\* Every step of the registry is a step of the abstract specification.
LEMMA StepSimulation ==
  ASSUME IInv, IInv', NEW c \in Calls, Step(c)
  PROVE  Abstract!Next \/ UNCHANGED Abstract!vars
<1>1. CASE RunCancelled(c)
  <2>1. StatusOf' = StatusOf
    BY <1>1, StatusSame DEF RunCancelled, EntryStatus, Settled
  <2>2. Abstract!Refuse(c)
    BY <1>1, <2>1 DEF RunCancelled, Abstract!Refuse, StatusOf
  <2>3. QED
    BY <2>2 DEF Abstract!Next
<1>2. CASE RunJoins(c)
  <2>1. StatusOf' = StatusOf
    BY <1>2, StatusSame DEF RunJoins, EntryStatus, Settled
  <2>2. registry[callKey[c]] \in Abstract!Live(callKey[c])
    BY <1>2, LiveIsRegistered DEF RunJoins
  <2>3. Abstract!Join(c)
    BY <1>2, <2>1, <2>2 DEF RunJoins, Abstract!Join, StatusOf
  <2>4. QED
    BY <2>3 DEF Abstract!Next
<1>3. CASE RunStarts(c) \/ RunStartsAndCancels(c)
  <2>1. /\ promise[c] = "none" /\ c \notin aborted
        /\ Abstract!Live(callKey[c]) = {}
    BY <1>3, LiveIsRegistered
    DEF IInv, EntryLife, RunStarts, RunStartsAndCancels
  <2>2. PICK p \in {"pending", "settled"} : promise' = [promise EXCEPT ![c] = p]
    BY <1>3 DEF RunStarts, RunStartsAndCancels
  <2>3. CASE RunStarts(c)
    <3>1. EntryStatus(c)' = "live"
      BY <2>1, <2>2, <2>3 DEF IInv, TypeOK, RunStarts, EntryStatus, Settled
    <3>2. \A f \in Calls \ {c} : EntryStatus(f)' = EntryStatus(f)
      BY <2>2, <2>3 DEF IInv, TypeOK, RunStarts, EntryStatus, Settled
    <3>3. StatusOf' = [StatusOf EXCEPT ![c] = "live"]
      BY <3>1, <3>2, StatusUpdate
    <3>4. Abstract!Start(c)
      BY <2>1, <2>3, <3>3 DEF RunStarts, Abstract!Start, StatusOf
    <3>5. QED
      BY <3>4 DEF Abstract!Next
  <2>4. CASE RunStartsAndCancels(c)
    <3>1. EntryStatus(c)' = "abandoned"
      BY <2>1, <2>2, <2>4
      DEF IInv, TypeOK, RunStartsAndCancels, EntryStatus, Settled
    <3>2. \A f \in Calls \ {c} : EntryStatus(f)' = EntryStatus(f)
      BY <2>2, <2>4
      DEF IInv, TypeOK, RunStartsAndCancels, EntryStatus, Settled
    <3>3. StatusOf' = [StatusOf EXCEPT ![c] = "abandoned"]
      BY <3>1, <3>2, StatusUpdate
    <3>4. Abstract!Start(c)
      BY <2>1, <2>4, <3>3 DEF RunStartsAndCancels, Abstract!Start, StatusOf
    <3>5. QED
      BY <3>4 DEF Abstract!Next
  <2>5. QED
    BY <1>3, <2>3, <2>4
<1>4. CASE HandleAbort(c)
  <2>1. Abstract!Leave(c)
    BY <1>4, ReleaseStatus DEF IInv, TypeOK, HandleAbort, Abstract!Leave, StatusOf
  <2>2. QED
    BY <2>1 DEF Abstract!Next
<1>5. CASE OperationSettles(c)
  <2>1. StatusOf' = StatusOf
    BY <1>5, StatusSame
    DEF IInv, TypeOK, OperationSettles, EntryStatus, Settled
  <2>2. UNCHANGED Abstract!vars
    BY <1>5, <2>1 DEF OperationSettles, Abstract!vars, StatusOf
  <2>3. QED
    BY <2>2
<1>6. CASE CleanupReaction(c)
  <2>1. \A f \in Calls \ {c} : EntryStatus(f)' = EntryStatus(f)
    BY <1>6 DEF IInv, TypeOK, CleanupReaction, EntryStatus, Settled
  <2>2. CASE c \in aborted
    <3>1. EntryStatus(c)' = EntryStatus(c)
      BY <1>6, <2>2 DEF IInv, TypeOK, CleanupReaction, EntryStatus, Settled
    <3>2. StatusOf' = StatusOf
      BY <2>1, <3>1, StatusSame
    <3>3. UNCHANGED Abstract!vars
      BY <1>6, <3>2 DEF CleanupReaction, Abstract!vars, StatusOf
    <3>4. QED
      BY <3>3
  <2>3. CASE c \notin aborted
    <3>1. EntryStatus(c)' = "done"
      BY <1>6, <2>3 DEF IInv, TypeOK, CleanupReaction, EntryStatus, Settled
    <3>2. StatusOf' = [StatusOf EXCEPT ![c] = "done"]
      BY <2>1, <3>1, StatusUpdate
    <3>3. StatusOf[c] = "live"
      BY <1>6, <2>3, StatusCases DEF CleanupReaction, InFlight
    <3>4. Abstract!Finish(c)
      BY <1>6, <3>2, <3>3 DEF CleanupReaction, Abstract!Finish, StatusOf
    <3>5. QED
      BY <3>4 DEF Abstract!Next
  <2>4. QED
    BY <2>2, <2>3
<1>7. CASE WaiterReaction(c)
  <2>1. /\ entryOf[c] \in Calls /\ entryOf[c] \notin aborted
        /\ promise[entryOf[c]] = "cleaned"
    BY <1>7 DEF IInv, TypeOK, AwaitedNotAborted, WaiterReaction, Reacting
  <2>2. StatusOf[entryOf[c]] = "done"
    BY <2>1, StatusCases
  <2>3. StatusOf' = StatusOf
    BY <1>7, <2>1, <2>2, ReleaseStatus DEF WaiterReaction
  <2>4. Abstract!Deliver(c)
    BY <1>7, <2>2, <2>3 DEF WaiterReaction, Abstract!Deliver, StatusOf
  <2>5. QED
    BY <2>4 DEF Abstract!Next
<1>8. QED
  BY <1>1, <1>2, <1>3, <1>4, <1>5, <1>6, <1>7 DEF Step

\* The registry implements independent cancellation of coalesced calls.
THEOREM ImplementsCoalescedCalls == Spec => AbstractSpec
<1>1. Init => Abstract!Init
  BY DEF Init, Abstract!Init, EntryStatus, Settled
<1>2. ASSUME IInv, IInv', [Next]_vars PROVE [Abstract!Next]_(Abstract!vars)
  <2>1. CASE \E c \in Calls : Step(c)
    BY <1>2, <2>1, StepSimulation
  <2>2. CASE UNCHANGED vars \/ Quiescent
    <3>1. StatusOf' = StatusOf
      BY <2>2, StatusSame DEF vars, Quiescent, EntryStatus, Settled
    <3>2. QED
      BY <2>2, <3>1 DEF vars, Quiescent, Abstract!vars, StatusOf
  <2>3. QED
    BY <1>2, <2>1, <2>2 DEF Next
<1>3. QED
  BY <1>1, <1>2, Invariance, PTL DEF Spec, AbstractSpec, Abstract!Spec
=============================================================================
