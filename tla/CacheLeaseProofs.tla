-------------------------- MODULE CacheLeaseProofs --------------------------
(* Theorems about the inter-process lease, for any number of contenders.     *)
EXTENDS CacheLease, TLAPS

-----------------------------------------------------------------------------
(* Types, whatever crashes.                                                 *)

\* A directory has at most one name, and none before its maker's mkdir.
OneName ==
  /\ \A p \in Processes : pc[p] \in Waiting =>
       lease # p /\ \A q \in Processes : detached[q] # p
  /\ \A p, q \in Processes : p # q /\ detached[p] # None => detached[p] # detached[q]

TypeInv == TypeOK /\ OneName

\* The initial states satisfy the type invariant.
LEMMA InitTypeInv == Init => TypeInv
<1>1. 0 \in 0..StaleAfter + 1
  BY LeaseAssumption
<1> QED BY <1>1, LeaseAssumption
        DEF Init, TypeInv, TypeOK, OneName, Waiting, Creating, Releasing, Finished

\* The steps of an acquisition preserve it.
LEMMA AcquireTypeInv ==
  ASSUME NEW p \in Processes, TypeInv, Acquire(p)
  PROVE  TypeInv'
<1> USE LeaseAssumption
    DEF TypeInv, TypeOK, OneName, Goto, clocks, Waiting, Creating, Releasing, Finished, Touch, Beat,
        LeaseToken
<1>1. CASE Begin(p)
  BY <1>1 DEF Begin
<1>2. CASE MkdirSucceeds(p)
  BY <1>2 DEF MkdirSucceeds
<1>3. CASE MkdirExists(p)
  BY <1>3 DEF MkdirExists
<1>4. CASE WriteOwner(p)
  BY <1>4 DEF WriteOwner
<1>5. CASE WriteOwnerFails(p)
  BY <1>5 DEF WriteOwnerFails
<1>6. CASE VerifyOwner(p)
  BY <1>6 DEF VerifyOwner
<1>7. CASE CleanUnlink(p)
  BY <1>7 DEF CleanUnlink
<1>8. CASE CleanRmdir(p)
  BY <1>8 DEF CleanRmdir
<1> QED BY <1>1, <1>2, <1>3, <1>4, <1>5, <1>6, <1>7, <1>8 DEF Acquire

\* The steps of an attempt to reclaim preserve it.
LEMMA ReclaimTypeInv ==
  ASSUME NEW p \in Processes, TypeInv, Reclaim(p)
  PROVE  TypeInv'
<1> USE LeaseAssumption
    DEF TypeInv, TypeOK, OneName, Goto, clocks, Waiting, Creating, Releasing, Finished
<1>1. CASE ObserveAbsent(p)
  BY <1>1 DEF ObserveAbsent
<1>2. CASE Observe(p)
  BY <1>2 DEF Observe
<1>3. CASE Detach(p)
  BY <1>3 DEF Detach
<1>4. CASE RemoveStale(p)
  BY <1>4 DEF RemoveStale
<1>5. CASE KeepFresh(p)
  BY <1>5 DEF KeepFresh
<1>6. CASE Restore(p)
  BY <1>6 DEF Restore, PutBack
<1>7. CASE ObserveOwner(p)
  BY <1>7 DEF ObserveOwner
<1> QED BY <1>1, <1>2, <1>3, <1>4, <1>5, <1>6, <1>7 DEF Reclaim

\* The steps of a release preserve it.
LEMMA ReleaseTypeInv ==
  ASSUME NEW p \in Processes, TypeInv, Release(p)
  PROVE  TypeInv'
<1> USE LeaseAssumption
    DEF TypeInv, TypeOK, OneName, Goto, clocks, Waiting, Creating, Releasing, Finished
<1>1. CASE ReleaseObserve(p)
  BY <1>1 DEF ReleaseObserve
<1>2. CASE ReleaseDetach(p)
  BY <1>2 DEF ReleaseDetach
<1>3. CASE ReleaseRemove(p)
  BY <1>3 DEF ReleaseRemove
<1>4. CASE ReleaseNotOurs(p)
  BY <1>4 DEF ReleaseNotOurs
<1>5. CASE ReleaseRestore(p)
  BY <1>5 DEF ReleaseRestore, PutBack
<1> QED BY <1>1, <1>2, <1>3, <1>4, <1>5 DEF Release

\* Every other step preserves it.
LEMMA OtherTypeInv ==
  ASSUME TypeInv,
         \/ \E p \in Processes : OperationEnds(p) \/ Retry(p) \/ GiveUp(p)
                                 \/ Heartbeat(p) \/ Crash(p)
         \/ Tick
  PROVE  TypeInv'
<1> USE LeaseAssumption
    DEF TypeInv, TypeOK, OneName, Goto, clocks, Waiting, Creating, Releasing, Finished
<1>1. ASSUME NEW p \in Processes, OperationEnds(p) PROVE TypeInv'
  BY <1>1 DEF OperationEnds
<1>2. ASSUME NEW p \in Processes, Retry(p) PROVE TypeInv'
  BY <1>2 DEF Retry
<1>3. ASSUME NEW p \in Processes, GiveUp(p) PROVE TypeInv'
  BY <1>3 DEF GiveUp
<1>4. ASSUME NEW p \in Processes, Heartbeat(p) PROVE TypeInv'
  BY <1>4 DEF Heartbeat, Touch, Beat, LeaseToken
<1>5. ASSUME NEW p \in Processes, Crash(p) PROVE TypeInv'
  BY <1>5 DEF Crash
<1>6. CASE Tick
  <2>1. 0 \in 0..StaleAfter + 1
    OBVIOUS
  <2>2. \A t \in 0..StaleAfter + 1 : Later(t) \in 0..StaleAfter + 1
    BY DEF Later
  <2>3. /\ age' \in [Processes -> 0..StaleAfter + 1]
        /\ dirAge' \in [Processes -> 0..StaleAfter + 1]
        /\ seenAge' \in [Processes -> 0..StaleAfter + 1]
    BY <1>6, <2>1, <2>2 DEF Tick
  <2> QED BY <1>6, <2>3 DEF Tick
<1> QED BY <1>1, <1>2, <1>3, <1>4, <1>5, <1>6

\* The directories and tokens are what they are said to be, whoever crashes and whatever
\* a contender reclaims (acquireLease, tryReclaimStaleLease, releaseLease, withLease).
THEOREM TypeCorrect == Spec => []TypeOK
<1>1. Init => TypeInv
  BY InitTypeInv
<1>2. TypeInv /\ [Next]_vars => TypeInv'
  <2> SUFFICES ASSUME TypeInv, [Next]_vars PROVE TypeInv'
    OBVIOUS
  <2>1. CASE UNCHANGED vars
    BY <2>1 DEF vars, clocks, TypeInv, TypeOK, OneName
  <2>2. CASE Next
    BY <2>2, AcquireTypeInv, ReclaimTypeInv, ReleaseTypeInv, OtherTypeInv DEF Next, Proceed
  <2> QED BY <2>1, <2>2
<1>3. TypeInv => TypeOK
  BY DEF TypeInv
<1> QED BY <1>1, <1>2, <1>3, PTL DEF Spec

-----------------------------------------------------------------------------
(* Exclusion, as long as nobody has crashed and no observation was misled.  *)

\* From its mkdir to the rename that releases it a call holds the lease.
Holding == {"write", "verify", "running", "release", "relDetach"}

\* Until then the lease is always the directory of the one call that holds it, with that
\* call's token in it once it is written, and never stale; and a contender between its two
\* lookups has read an old time only of a directory that has had its token since.  So
\* nobody reclaims.
NobodyReclaims ==
  /\ lost = {}
  /\ \A p \in Processes :
       /\ pc[p] \notin {"detach", "recheck", "restore", "cleanUnlink", "cleanRmdir",
                       "relRestore", "ownershipLost", "crashed"}
       /\ pc[p] \in {"idle", "mkdir", "observe", "lookup", "retry", "write"} => owner[p] = None
       /\ pc[p] \in {"verify", "running", "release", "relDetach", "relCheck"}
            => owner[p] = p
       /\ detached[p] = IF pc[p] = "relCheck" THEN p ELSE None
       /\ pc[p] \in Holding <=> lease = p
       /\ pc[p] = "write" => dirAge[p] = 0
  /\ lease # None => age[lease] \in {0, 1}
  /\ \A p, d \in Processes :
       seen[p] = d /\ owner[d] = None => pc[d] = "write" /\ seenAge[p] = 0
  /\ \A p \in Processes : seen[p] = None => seenAge[p] = 0

LiveInv == TypeOK /\ (Undisturbed => NobodyReclaims)

\* The initial states satisfy the invariant.
LEMMA InitLiveInv == Init => LiveInv
BY InitTypeInv, LeaseAssumption DEF Init, TypeInv, LiveInv, NobodyReclaims, Holding

\* The steps of an acquisition preserve it: only the holder's directory is written to.
LEMMA AcquireLive ==
  ASSUME NEW p \in Processes, TypeOK, NobodyReclaims, Acquire(p)
  PROVE  NobodyReclaims'
<1> USE LeaseAssumption
    DEF NobodyReclaims, TypeOK, Goto, clocks, Holding, Touch, Beat, LeaseToken
<1>1. CASE Begin(p)
  BY <1>1 DEF Begin
<1>2. CASE MkdirSucceeds(p)
  BY <1>2 DEF MkdirSucceeds
<1>3. CASE MkdirExists(p)
  BY <1>3 DEF MkdirExists
<1>4. CASE WriteOwner(p)
  BY <1>4 DEF WriteOwner
<1>5. CASE WriteOwnerFails(p)
  BY <1>5 DEF WriteOwnerFails
<1>6. CASE VerifyOwner(p)
  BY <1>6 DEF VerifyOwner
<1>7. CASE CleanUnlink(p)
  BY <1>7 DEF CleanUnlink
<1>8. CASE CleanRmdir(p)
  BY <1>8 DEF CleanRmdir
<1> QED BY <1>1, <1>2, <1>3, <1>4, <1>5, <1>6, <1>7, <1>8 DEF Acquire

\* The steps of a contender preserve it: what it observes is not stale.
LEMMA ReclaimLive ==
  ASSUME NEW p \in Processes, TypeOK, NobodyReclaims, Reclaim(p), ~misled'
  PROVE  NobodyReclaims'
<1> USE LeaseAssumption DEF NobodyReclaims, TypeOK, Goto, clocks, Holding, LeaseToken
<1>1. CASE ObserveAbsent(p)
  BY <1>1 DEF ObserveAbsent
<1>2. CASE Observe(p)
  <2>1. owner[lease] = None => dirAge[lease] = 0
    BY <1>2 DEF Observe
  <2> QED BY <1>2, <2>1 DEF Observe
<1>4. CASE ObserveOwner(p)
  <2>1. ~JudgedStale(p)
    <3>1. LeaseToken # None => ~TooOld(age[lease])
      BY DEF TooOld
    <3>2. ASSUME LeaseToken = None, TooOld(seenAge[p]) PROVE FALSE
      <4>1. seen[p] = lease
        BY <1>4, <3>2 DEF ObserveOwner, JudgedStale, TooOld
      <4> QED BY <3>2, <4>1 DEF TooOld
    <3> QED BY <3>1, <3>2 DEF JudgedStale
  <2> QED BY <1>4, <2>1 DEF ObserveOwner
<1>3. pc[p] \notin {"detach", "recheck", "restore"}
  OBVIOUS
<1> QED BY <1>1, <1>2, <1>3, <1>4
       DEF Reclaim, Detach, RemoveStale, KeepFresh, Restore, PutBack

\* The steps of a release preserve it: what is detached is the caller's own directory.
LEMMA ReleaseLive ==
  ASSUME NEW p \in Processes, TypeOK, NobodyReclaims, Release(p)
  PROVE  NobodyReclaims'
<1> USE LeaseAssumption DEF NobodyReclaims, TypeOK, Goto, clocks, Holding
<1>1. CASE ReleaseObserve(p)
  BY <1>1 DEF ReleaseObserve, LeaseToken
<1>2. CASE ReleaseDetach(p)
  BY <1>2 DEF ReleaseDetach
<1>3. CASE ReleaseRemove(p)
  BY <1>3 DEF ReleaseRemove
<1>4. CASE ReleaseNotOurs(p)
  BY <1>4 DEF ReleaseNotOurs
<1>5. CASE ReleaseRestore(p)
  BY <1>5 DEF ReleaseRestore, PutBack
<1> QED BY <1>1, <1>2, <1>3, <1>4, <1>5 DEF Release

\* Every other step preserves it; the clock waits for the holder's heartbeat.
LEMMA OtherLive ==
  ASSUME TypeOK, NobodyReclaims,
         \/ \E p \in Processes : OperationEnds(p) \/ Retry(p) \/ GiveUp(p)
                                 \/ Heartbeat(p)
         \/ Tick
  PROVE  NobodyReclaims'
<1> USE LeaseAssumption DEF NobodyReclaims, TypeOK, Goto, clocks, Holding
<1>1. ASSUME NEW p \in Processes, OperationEnds(p) PROVE NobodyReclaims'
  BY <1>1 DEF OperationEnds
<1>2. ASSUME NEW p \in Processes, Retry(p) PROVE NobodyReclaims'
  BY <1>2 DEF Retry
<1>3. ASSUME NEW p \in Processes, GiveUp(p) PROVE NobodyReclaims'
  BY <1>3 DEF GiveUp
<1>4. ASSUME NEW p \in Processes, Heartbeat(p) PROVE NobodyReclaims'
  BY <1>4 DEF Heartbeat, Touch, Beat, LeaseToken
<1>5. CASE Tick
  <2>1. lease # None => age[lease] = 0
    BY <1>5 DEF Tick, Timely, LeaseToken, Finished
  <2>2. lease # None => age'[lease] = 1
    BY <1>5, <2>1 DEF Tick, Later, Exists
  <2>3. \A p \in Processes : pc[p] # "write"
    BY <1>5 DEF Tick, Timely, Finished
  <2>4. \A p \in Processes : seen[p] = None => seenAge'[p] = 0
    BY <1>5 DEF Tick
  <2> QED BY <1>5, <2>2, <2>3, <2>4 DEF Tick
<1> QED BY <1>1, <1>2, <1>3, <1>4, <1>5

\* A call that has crashed takes no further step, and what has misled stays known.
LEMMA DisturbedStays ==
  ASSUME TypeOK, Next, Undisturbed'
  PROVE  Undisturbed /\ ~\E p \in Processes : Crash(p)
<1>1. ASSUME NEW p \in Processes, Crash(p) PROVE FALSE
  BY <1>1 DEF Crash, Undisturbed, TypeOK
<1>2. ASSUME misled \/ \E q \in Processes : pc[q] = "crashed" PROVE FALSE
  <2> USE <1>2 DEF Undisturbed, TypeOK, Goto, clocks
  <2>1. CASE Tick
    BY <2>1 DEF Tick
  <2>2. ASSUME NEW p \in Processes, Acquire(p) PROVE FALSE
    BY <2>2 DEF Acquire, Begin, MkdirSucceeds, MkdirExists, WriteOwner, WriteOwnerFails,
                VerifyOwner, CleanUnlink, CleanRmdir
  <2>3. ASSUME NEW p \in Processes, Reclaim(p) PROVE FALSE
    BY <2>3 DEF Reclaim, ObserveAbsent, Observe, ObserveOwner, Detach, RemoveStale,
                KeepFresh, Restore, PutBack
  <2>4. ASSUME NEW p \in Processes, Release(p) PROVE FALSE
    BY <2>4 DEF Release, ReleaseObserve, ReleaseDetach, ReleaseRemove, ReleaseNotOurs,
                ReleaseRestore, PutBack
  <2>5. ASSUME NEW p \in Processes,
               OperationEnds(p) \/ Retry(p) \/ GiveUp(p) \/ Heartbeat(p)
        PROVE  FALSE
    BY <2>5 DEF OperationEnds, Retry, GiveUp, Heartbeat
  <2> QED BY <1>1, <2>1, <2>2, <2>3, <2>4, <2>5 DEF Next, Proceed
<1> QED BY <1>1, <1>2 DEF Undisturbed

\* The invariant holds throughout.
LEMMA LiveInvariance == Spec => []LiveInv
<1>1. Init => LiveInv
  BY InitLiveInv
<1>2. LiveInv /\ TypeOK' /\ [Next]_vars => LiveInv'
  <2> SUFFICES ASSUME TypeOK, Undisturbed => NobodyReclaims, [Next]_vars, Undisturbed'
               PROVE  NobodyReclaims'
    BY DEF LiveInv
  <2>1. CASE UNCHANGED vars
    BY <2>1 DEF vars, clocks, NobodyReclaims, Undisturbed
  <2>2. CASE Next
    <3>1. NobodyReclaims /\ ~\E p \in Processes : Crash(p)
      BY <2>2, DisturbedStays
    <3>2. ~misled'
      BY DEF Undisturbed
    <3> QED BY <2>2, <3>1, <3>2, AcquireLive, ReclaimLive, ReleaseLive, OtherLive
            DEF Next, Proceed
  <2> QED BY <2>1, <2>2
<1> QED BY <1>1, <1>2, TypeCorrect, PTL DEF Spec

\* However many processes contend for a lease, until one of them crashes or the two lookups
\* of a contender span the release of a lease held for longer than the staleness threshold
\* (and unless one stalls past it), their operations under it never overlap (withLease).
THEOREM LeaseIsExclusive == Spec => []ExclusiveUntilDisturbed
<1>1. LiveInv => ExclusiveUntilDisturbed
  BY DEF LiveInv, NobodyReclaims, ExclusiveUntilDisturbed, ExclusiveOperations, Operating,
         Holding
<1> QED BY <1>1, LiveInvariance, PTL

\* ... and no call of withLease that completes its operation finds its ownership lost.
THEOREM OwnersStayOwners == Spec => []OwnershipKept
<1>1. LiveInv => OwnershipKept
  BY DEF LiveInv, NobodyReclaims, OwnershipKept
<1> QED BY <1>1, LiveInvariance, PTL

\* ... and when all have ended undisturbed neither the lease nor a detached directory is left.
THEOREM NothingIsLeftBehind == Spec => []NothingLeftBehind
<1>1. LiveInv => NothingLeftBehind
  BY DEF LiveInv, NobodyReclaims, Undisturbed, NothingLeftBehind, Holding, Finished, TypeOK
<1> QED BY <1>1, LiveInvariance, PTL
-----------------------------------------------------------------------------
(* Live leases, whatever crashes.                                           *)

\* A process acts on the directory at its own detached name.
Judging == {"recheck", "restore", "relCheck", "relRestore"}
\* The owner.json of a call is written, and its operation has not ended.
Working == {"verify", "running", "release"}

\* A call writes one owner.json; nothing is detached by a call that has yet to act; and
\* the directory a call works under is not stale as long as it has the lease name or a
\* process is still judging it.
WorkIsFresh ==
  /\ \A q, d \in Processes : owner[d] = q => pc[q] \notin Waiting \cup {"write"}
  /\ \A p \in Processes : detached[p] # None =>
       pc[p] \in Judging \cup {"failed", "ownershipLost", "crashed"}
  /\ \A d, q \in Processes :
       /\ owner[d] = q /\ pc[q] \in Working
       /\ lease = d \/ \E p \in Processes : detached[p] = d /\ pc[p] \in Judging
       => age[d] \in {0, 1}

FreshInv == TypeInv /\ WorkIsFresh

\* The initial states satisfy the invariant.
LEMMA InitFresh == Init => FreshInv
BY InitTypeInv, LeaseAssumption DEF Init, FreshInv, WorkIsFresh, Waiting, Judging, Working

\* The steps of an acquisition preserve it: a token is written with the present time.
LEMMA AcquireFresh ==
  ASSUME NEW p \in Processes, FreshInv, Acquire(p)
  PROVE  WorkIsFresh'
<1> USE LeaseAssumption
    DEF FreshInv, WorkIsFresh, TypeInv, TypeOK, OneName, Goto, clocks, Waiting, Judging, Working,
        Touch, Beat, LeaseToken
<1>1. CASE Begin(p)
  BY <1>1 DEF Begin
<1>2. CASE MkdirSucceeds(p)
  BY <1>2 DEF MkdirSucceeds
<1>3. CASE MkdirExists(p)
  BY <1>3 DEF MkdirExists
<1>4. CASE WriteOwner(p)
  BY <1>4 DEF WriteOwner
<1>5. CASE WriteOwnerFails(p)
  BY <1>5 DEF WriteOwnerFails
<1>6. CASE VerifyOwner(p)
  BY <1>6 DEF VerifyOwner
<1>7. CASE CleanUnlink(p)
  BY <1>7 DEF CleanUnlink
<1>8. CASE CleanRmdir(p)
  BY <1>8 DEF CleanRmdir
<1> QED BY <1>1, <1>2, <1>3, <1>4, <1>5, <1>6, <1>7, <1>8 DEF Acquire

\* The steps of an attempt to reclaim preserve it: what they move keeps its age.
LEMMA ReclaimFresh ==
  ASSUME NEW p \in Processes, FreshInv, Reclaim(p)
  PROVE  WorkIsFresh'
<1> USE LeaseAssumption
    DEF FreshInv, WorkIsFresh, TypeInv, TypeOK, OneName, Goto, clocks, Waiting, Judging, Working
<1>1. CASE ObserveAbsent(p)
  BY <1>1 DEF ObserveAbsent
<1>2. CASE Observe(p)
  BY <1>2 DEF Observe
<1>3. CASE Detach(p)
  BY <1>3 DEF Detach
<1>4. CASE RemoveStale(p)
  BY <1>4 DEF RemoveStale
<1>5. CASE KeepFresh(p)
  BY <1>5 DEF KeepFresh
<1>6. CASE Restore(p)
  BY <1>6 DEF Restore, PutBack
<1>7. CASE ObserveOwner(p)
  BY <1>7 DEF ObserveOwner
<1> QED BY <1>1, <1>2, <1>3, <1>4, <1>5, <1>6, <1>7 DEF Reclaim

\* The steps of a release preserve it.
LEMMA ReleaseFresh ==
  ASSUME NEW p \in Processes, FreshInv, Release(p)
  PROVE  WorkIsFresh'
<1> USE LeaseAssumption
    DEF FreshInv, WorkIsFresh, TypeInv, TypeOK, OneName, Goto, clocks, Waiting, Judging, Working
<1>1. CASE ReleaseObserve(p)
  BY <1>1 DEF ReleaseObserve
<1>2. CASE ReleaseDetach(p)
  BY <1>2 DEF ReleaseDetach
<1>3. CASE ReleaseRemove(p)
  BY <1>3 DEF ReleaseRemove
<1>4. CASE ReleaseNotOurs(p)
  BY <1>4 DEF ReleaseNotOurs
<1>5. CASE ReleaseRestore(p)
  BY <1>5 DEF ReleaseRestore, PutBack
<1> QED BY <1>1, <1>2, <1>3, <1>4, <1>5 DEF Release

\* Every other step preserves it; the clock waits for who judges, and for the heartbeat
\* of who can reach the lease.
LEMMA OtherFresh ==
  ASSUME FreshInv,
         \/ \E p \in Processes : OperationEnds(p) \/ Retry(p) \/ GiveUp(p)
                                 \/ Heartbeat(p) \/ Crash(p)
         \/ Tick
  PROVE  WorkIsFresh'
<1> USE LeaseAssumption
    DEF FreshInv, WorkIsFresh, TypeInv, TypeOK, OneName, Goto, clocks, Waiting, Judging, Working
<1>1. ASSUME NEW p \in Processes, OperationEnds(p) PROVE WorkIsFresh'
  BY <1>1 DEF OperationEnds
<1>2. ASSUME NEW p \in Processes, Retry(p) PROVE WorkIsFresh'
  BY <1>2 DEF Retry
<1>3. ASSUME NEW p \in Processes, GiveUp(p) PROVE WorkIsFresh'
  BY <1>3 DEF GiveUp
<1>4. ASSUME NEW p \in Processes, Heartbeat(p) PROVE WorkIsFresh'
  BY <1>4 DEF Heartbeat, Touch, Beat, LeaseToken
<1>5. ASSUME NEW p \in Processes, Crash(p) PROVE WorkIsFresh'
  BY <1>5 DEF Crash
<1>6. CASE Tick
  <2>1. \A p \in Processes : pc[p] \notin Judging \cup {"verify", "release"}
    BY <1>6 DEF Tick, Timely, Finished
  <2>2. \A q \in Processes : pc[q] = "running" /\ LeaseToken = q => age[lease] = 0
    BY <1>6 DEF Tick, Timely
  <2>3. \A d \in Processes : age[d] = 0 => age'[d] \in {0, 1}
    BY <1>6 DEF Tick, Later
  <2> QED BY <1>6, <2>1, <2>2, <2>3 DEF Tick, LeaseToken
<1> QED BY <1>1, <1>2, <1>3, <1>4, <1>5, <1>6

\* The invariant holds throughout.
LEMMA FreshInvariance == Spec => []FreshInv
<1>1. FreshInv /\ [Next]_vars => FreshInv'
  <2> SUFFICES ASSUME FreshInv, [Next]_vars PROVE FreshInv'
    OBVIOUS
  <2>1. CASE UNCHANGED vars
    BY <2>1 DEF vars, clocks, FreshInv, TypeInv, TypeOK, OneName, WorkIsFresh
  <2>2. CASE Next
    <3>1. TypeInv
      BY DEF FreshInv
    <3>2. TypeInv'
      BY <2>2, <3>1, AcquireTypeInv, ReclaimTypeInv, ReleaseTypeInv, OtherTypeInv
         DEF Next, Proceed
    <3>3. WorkIsFresh'
      BY <2>2, AcquireFresh, ReclaimFresh, ReleaseFresh, OtherFresh DEF Next, Proceed
    <3> QED BY <3>2, <3>3 DEF FreshInv
  <2> QED BY <2>1, <2>2
<1> QED BY <1>1, InitFresh, PTL DEF Spec

\* The property, of one step.
KeepsLiveLeases ==
  \A p, q \in Processes :
    /\ detached[p] # None /\ owner[detached[p]] = q /\ q \in Operating
    => /\ owner'[detached[p]] = q
       /\ detached'[p] = detached[p] \/ lease' = detached[p]

\* A step of an acquisition touches no detached directory.
LEMMA AcquireKeepsLive ==
  ASSUME NEW r \in Processes, FreshInv, Acquire(r)
  PROVE  KeepsLiveLeases
<1>1. detached' = detached
  BY DEF Acquire, Begin, MkdirSucceeds, MkdirExists, WriteOwner, WriteOwnerFails,
         VerifyOwner, CleanUnlink, CleanRmdir
<1>2. \A d \in Processes : d # lease => owner'[d] = owner[d]
  BY DEF Acquire, Begin, MkdirSucceeds, MkdirExists, WriteOwner, WriteOwnerFails,
         VerifyOwner, CleanUnlink, CleanRmdir, FreshInv, TypeInv, TypeOK
<1> QED BY <1>1, <1>2 DEF KeepsLiveLeases, FreshInv, TypeInv, TypeOK

\* What an attempt to reclaim removes is a directory nobody works under: it is stale when
\* it is checked again, and the owner would have touched it.
LEMMA ReclaimKeepsLive ==
  ASSUME NEW r \in Processes, FreshInv, Reclaim(r)
  PROVE  KeepsLiveLeases
<1> SUFFICES ASSUME NEW p \in Processes, NEW q \in Processes,
                    detached[p] # None, owner[detached[p]] = q, q \in Operating
             PROVE  /\ owner'[detached[p]] = q
                    /\ detached'[p] = detached[p] \/ lease' = detached[p]
  BY DEF KeepsLiveLeases
<1> USE DEF FreshInv, TypeInv, TypeOK, Goto
<1>1. owner' = owner
  BY DEF Reclaim, ObserveAbsent, Observe, ObserveOwner, Detach, RemoveStale, KeepFresh,
         Restore, PutBack
<1>2. CASE Detach(r)
  <2>1. p # r
    BY <1>2 DEF Detach, WorkIsFresh, Judging
  <2> QED BY <1>1, <1>2, <2>1 DEF Detach
<1>3. CASE RemoveStale(r)
  <2>1. ASSUME p = r PROVE FALSE
    <3>1. age[detached[p]] > StaleAfter /\ pc[p] \in Judging
      BY <1>3, <2>1, LeaseAssumption
         DEF RemoveStale, DetachedStale, Stale, TooOld, Judging
    <3>2. age[detached[p]] \in {0, 1}
      BY <3>1 DEF WorkIsFresh, Operating, Working
    <3> QED BY <3>1, <3>2, LeaseAssumption
  <2> QED BY <1>1, <1>3, <2>1 DEF RemoveStale
<1>4. CASE Restore(r)
  BY <1>1, <1>4 DEF Restore, PutBack
<1>5. CASE ObserveAbsent(r) \/ Observe(r) \/ ObserveOwner(r) \/ KeepFresh(r)
  BY <1>1, <1>5 DEF ObserveAbsent, Observe, ObserveOwner, KeepFresh
<1> QED BY <1>2, <1>3, <1>4, <1>5 DEF Reclaim

\* What a release removes is its own directory, when the operation has ended.
LEMMA ReleaseKeepsLive ==
  ASSUME NEW r \in Processes, FreshInv, Release(r)
  PROVE  KeepsLiveLeases
<1> USE DEF FreshInv, TypeInv, TypeOK, Goto
<1>1. owner' = owner
  BY DEF Release, ReleaseObserve, ReleaseDetach, ReleaseRemove, ReleaseNotOurs,
         ReleaseRestore, PutBack
<1>2. CASE ReleaseDetach(r)
  <2>1. detached[r] = None
    BY <1>2 DEF ReleaseDetach, WorkIsFresh, Judging
  <2> QED BY <1>1, <1>2, <2>1 DEF ReleaseDetach, KeepsLiveLeases
<1>3. CASE ReleaseRemove(r)
  <2>1. owner[detached[r]] = r /\ r \notin Operating
    BY <1>3 DEF ReleaseRemove, Operating
  <2> QED BY <1>1, <1>3, <2>1 DEF ReleaseRemove, KeepsLiveLeases
<1>4. CASE ReleaseRestore(r)
  BY <1>1, <1>4 DEF ReleaseRestore, PutBack, KeepsLiveLeases
<1>5. CASE ReleaseObserve(r) \/ ReleaseNotOurs(r)
  BY <1>1, <1>5 DEF ReleaseObserve, ReleaseNotOurs, KeepsLiveLeases
<1> QED BY <1>2, <1>3, <1>4, <1>5 DEF Release

\* A reclaim that has detached the directory of a call which still works under it, by
\* mistake, never removes it: it stays where it is or gets its name back, whoever crashes
\* and however many contend (tryReclaimStaleLease, releaseLease).
THEOREM LiveLeasesAreKept == Spec => LiveLeaseNotReclaimed
<1>1. FreshInv /\ [Next]_vars => [KeepsLiveLeases]_vars
  <2> SUFFICES ASSUME FreshInv, Next PROVE KeepsLiveLeases
    OBVIOUS
  <2>1. ASSUME NEW r \in Processes,
               OperationEnds(r) \/ Retry(r) \/ GiveUp(r) \/ Heartbeat(r) \/ Crash(r)
        PROVE  KeepsLiveLeases
    BY <2>1 DEF OperationEnds, Retry, GiveUp, Heartbeat, Crash, KeepsLiveLeases
  <2>2. CASE Tick
    BY <2>2 DEF Tick, KeepsLiveLeases
  <2> QED BY <2>1, <2>2, AcquireKeepsLive, ReclaimKeepsLive, ReleaseKeepsLive
          DEF Next, Proceed
<1>2. Spec => [][KeepsLiveLeases]_vars
  BY <1>1, FreshInvariance, PTL DEF Spec
<1> QED BY <1>2 DEF LiveLeaseNotReclaimed, KeepsLiveLeases
=============================================================================
