----------------------------- MODULE CacheLease -----------------------------
(***************************************************************************)
(* The inter-process lease of persistentOntologyQueryArtifactCache.js: a   *)
(* directory whose creation is the acquisition, an owner.json that names    *)
(* its owner and whose modification time is the heartbeat, and renames that *)
(* detach the directory before it is removed.                              *)
(*                                                                         *)
(* One step is one file-system call (or one read of a handle just opened); *)
(* processes interleave between them.  The file system is POSIX: a rename  *)
(* replaces an empty directory and fails with ENOTEMPTY on another.        *)
(***************************************************************************)
EXTENDS Integers, FiniteSets

CONSTANTS Processes,   \* calls of withLease for one lease name, each in a
                       \* process of its own; a directory is named by the call
                       \* whose mkdir made it
          MayCrash,    \* the processes that may crash
          StaleAfter,  \* leaseStaleAfterMilliseconds, in ticks of the clock
          None

ASSUME LeaseAssumption == /\ MayCrash \subseteq Processes
                          /\ StaleAfter \in Nat \ {0}
                          /\ None \notin Processes

VARIABLES
  pc,         \* where each process is in withLease
  lease,      \* the directory at the lease name
  detached,   \* the directory at a process's own .stale- or .release- name
  owner,      \* the token in each directory's owner.json, None if absent
  age,        \* ticks since the modification time of each directory's owner.json,
  dirAge,     \* and of the directory itself, up to the first tick at which it is stale
  seen,       \* the directory that a process in "lookup" has found at the lease name,
  seenAge,    \* and ticks since the modification time it has read
  lost,       \* processes whose heartbeatFailure is set
  misled      \* history: an observation has judged by the time of one directory what
              \* was at the lease name after it

clocks == <<age, dirAge, seenAge>>
vars == <<pc, lease, detached, owner, clocks, seen, lost, misled>>

Waiting == {"idle", "mkdir", "observe", "lookup", "detach", "recheck", "restore", "retry"}
Creating == {"write", "verify", "cleanUnlink", "cleanRmdir"}
Releasing == {"release", "relDetach", "relCheck", "relRestore"}
Finished == {"succeeded", "ownershipLost", "failed"}

Init == /\ pc = [p \in Processes |-> "idle"]
        /\ lease = None
        /\ detached = [p \in Processes |-> None]
        /\ owner = [d \in Processes |-> None]
        /\ age = [d \in Processes |-> 0]
        /\ dirAge = [d \in Processes |-> 0]
        /\ seen = [p \in Processes |-> None] /\ seenAge = [p \in Processes |-> 0]
        /\ lost = {}
        /\ misled = FALSE

Goto(p, from, to) == pc[p] = from /\ pc' = [pc EXCEPT ![p] = to]
\* Mutant: a time is not compared with the threshold.
TooOldAtOnce(ticks) == ticks >= 0
TooOld(ticks) == ticks > StaleAfter
\* A directory is judged by its owner.json, by itself if it has none.
Stale(d) == TooOld(IF owner[d] = None THEN dirAge[d] ELSE age[d])
\* The modification time of directory d's owner.json becomes the present ...
Beat(d) == age' = [age EXCEPT ![d] = 0]
\* ... and that of the directory, when an entry is made or removed.
Touch(d) == Beat(d) /\ dirAge' = [dirAge EXCEPT ![d] = 0]
\* The token at the lease name, None if there is no directory or no owner.json.
LeaseToken == IF lease = None THEN None ELSE owner[lease]
\* Whether a rename onto the lease name succeeds.
LeaseNameFree == lease = None \/ LeaseToken = None

-----------------------------------------------------------------------------
(* acquireLease                                                            *)

Begin(p) == /\ Goto(p, "idle", "mkdir")
            /\ UNCHANGED <<lease, detached, owner, clocks, seen, lost, misled>>

\* Mutant: a recursive mkdir, which does not mind a directory that is there.
MkdirRecursive(p) == /\ Goto(p, "mkdir", "write")
                     /\ lease' = IF lease = None THEN p ELSE lease
                     /\ Touch(lease')
                     /\ UNCHANGED <<detached, owner, seen, seenAge, lost, misled>>

MkdirSucceeds(p) == /\ Goto(p, "mkdir", "write")
                    /\ lease = None
                    /\ lease' = p
                    /\ Touch(p)
                    /\ UNCHANGED <<detached, owner, seen, seenAge, lost, misled>>

MkdirExists(p) == /\ Goto(p, "mkdir", "observe")
                  /\ lease # None
                  /\ UNCHANGED <<lease, detached, owner, clocks, seen, lost, misled>>

\* owner.json is created exclusively, through the lease name.
WriteOwner(p) == /\ Goto(p, "write", "verify")
                 /\ lease # None /\ LeaseToken = None
                 /\ owner' = [owner EXCEPT ![lease] = p]
                 /\ Touch(lease)
                 /\ UNCHANGED <<lease, detached, seen, seenAge, lost, misled>>

\* ENOENT or EEXIST: the directory is no longer the one this process made.
WriteOwnerFails(p) == /\ Goto(p, "write", "cleanUnlink")
                      /\ lease = None \/ LeaseToken # None
                      /\ UNCHANGED <<lease, detached, owner, clocks, seen, lost, misled>>

\* The lstat that ends writeFlushedPrivateFile finds an owner.json at the name.
VerifyOwner(p) == /\ Goto(p, "verify", IF LeaseToken # None THEN "running" ELSE "cleanUnlink")
                  /\ UNCHANGED <<lease, detached, owner, clocks, seen, lost, misled>>

\* The cleanup after a failed creation removes the tree at the lease name ...
CleanUnlink(p) == /\ Goto(p, "cleanUnlink", IF lease = None THEN "failed" ELSE "cleanRmdir")
                  /\ IF LeaseToken = None
                     THEN UNCHANGED <<owner, age, dirAge>>
                     ELSE owner' = [owner EXCEPT ![lease] = None] /\ Touch(lease)
                  /\ UNCHANGED <<lease, detached, seen, seenAge, lost, misled>>

\* ... which fails if an owner.json has appeared since; the call throws anyway.
CleanRmdir(p) == /\ Goto(p, "cleanRmdir", "failed")
                 /\ lease' = IF LeaseToken = None THEN None ELSE lease
                 /\ UNCHANGED <<detached, owner, clocks, seen, lost, misled>>

\* The acquisition deadline has passed or the caller has aborted.
GiveUp(p) == /\ Goto(p, "retry", "failed")
             /\ UNCHANGED <<lease, detached, owner, clocks, seen, lost, misled>>

Retry(p) == /\ Goto(p, "retry", "mkdir")
            /\ UNCHANGED <<lease, detached, owner, clocks, seen, lost, misled>>

-----------------------------------------------------------------------------
(* tryReclaimStaleLease                                                    *)

ObserveAbsent(p) == /\ Goto(p, "observe", "mkdir")
                    /\ lease = None
                    /\ UNCHANGED <<lease, detached, owner, clocks, seen, lost, misled>>

\* The lstat of the directory ...
Observe(p) == /\ Goto(p, "observe", "lookup")
              /\ lease # None
              /\ seen' = [seen EXCEPT ![p] = lease]
              /\ seenAge' = [seenAge EXCEPT ![p] = dirAge[lease]]
              /\ UNCHANGED <<lease, detached, owner, age, dirAge, lost, misled>>

\* Mutant: a lease whose owner crashed before it wrote owner.json is never stale.
JudgedByOwner(p) == LeaseToken # None /\ TooOld(age[lease])
\* ... and that of owner.json, by the lease name again: if it is absent, the directory
\* counts, even if it has been released since and another is at the name, or none.
JudgedStale(p) == TooOld(IF LeaseToken # None THEN age[lease] ELSE seenAge[p])
ObserveOwner(p) ==
  /\ Goto(p, "lookup", IF JudgedStale(p) THEN "detach" ELSE "retry")
  /\ seen' = [seen EXCEPT ![p] = None] /\ seenAge' = [seenAge EXCEPT ![p] = 0]
  /\ misled' = (misled \/ (JudgedStale(p) /\ LeaseToken = None /\ seen[p] # lease))
  /\ UNCHANGED <<lease, detached, owner, age, dirAge, lost>>

\* Mutant: a name that is gone is taken for a directory that was detached.
DetachIgnoresMissing(p) ==
  /\ Goto(p, "detach", "recheck")
  /\ detached' = [detached EXCEPT ![p] = lease]
  /\ lease' = None
  /\ UNCHANGED <<owner, clocks, seen, lost, misled>>

\* The exact lease name is renamed to a unique one; ENOENT means it is gone.
Detach(p) == /\ Goto(p, "detach", IF lease = None THEN "mkdir" ELSE "recheck")
             /\ detached' = [detached EXCEPT ![p] = lease]
             /\ lease' = None
             /\ UNCHANGED <<owner, clocks, seen, lost, misled>>

\* Mutant: the detached directory is not checked again.
DetachedNotRechecked(p) == TRUE
\* Whether the directory that was really detached is stale too, by the wall-clock time of
\* the observation, since when there has been no tick (Timely).
DetachedStale(p) == Stale(detached[p])

RemoveStale(p) == /\ Goto(p, "recheck", "mkdir")
                  /\ DetachedStale(p)
                  /\ detached' = [detached EXCEPT ![p] = None]
                  /\ UNCHANGED <<lease, owner, clocks, seen, lost, misled>>

KeepFresh(p) == /\ Goto(p, "recheck", "restore")
                /\ ~DetachedStale(p)
                /\ UNCHANGED <<lease, detached, owner, clocks, seen, lost, misled>>

\* The directory is renamed back, over an empty one if there is one; over another
\* the rename fails, the call throws, and the directory stays detached.
PutBack(p, from, restored, failed) ==
  /\ Goto(p, from, IF LeaseNameFree THEN restored ELSE failed)
  /\ lease' = IF LeaseNameFree THEN detached[p] ELSE lease
  /\ detached' = IF LeaseNameFree THEN [detached EXCEPT ![p] = None] ELSE detached
  /\ UNCHANGED <<owner, clocks, seen, lost, misled>>

Restore(p) == PutBack(p, "restore", "retry", "failed")

-----------------------------------------------------------------------------
(* withLease: the operation, its heartbeats, and releaseLease              *)

Heartbeat(p) ==
  /\ pc[p] = "running"
  /\ IF LeaseToken = p
     THEN Beat(lease) /\ UNCHANGED lost
     ELSE lost' = lost \cup {p} /\ UNCHANGED age
  /\ UNCHANGED <<pc, lease, detached, owner, dirAge, seen, seenAge, misled>>

OperationEnds(p) ==
  /\ Goto(p, "running", "release")
  /\ UNCHANGED <<lease, detached, owner, clocks, seen, lost, misled>>

ReleaseObserve(p) ==
  /\ Goto(p, "release", IF LeaseToken = p THEN "relDetach" ELSE "ownershipLost")
  /\ UNCHANGED <<lease, detached, owner, clocks, seen, lost, misled>>

ReleaseDetach(p) ==
  /\ Goto(p, "relDetach", IF lease = None THEN "ownershipLost" ELSE "relCheck")
  /\ detached' = [detached EXCEPT ![p] = lease]
  /\ lease' = None
  /\ UNCHANGED <<owner, clocks, seen, lost, misled>>

\* Mutant: the released directory is left at its detached name.
ReleaseLeavesDirectory(p) ==
  /\ Goto(p, "relCheck", IF p \in lost THEN "ownershipLost" ELSE "succeeded")
  /\ owner[detached[p]] = p
  /\ UNCHANGED <<lease, detached, owner, clocks, seen, lost, misled>>

ReleaseRemove(p) ==
  /\ Goto(p, "relCheck", IF p \in lost THEN "ownershipLost" ELSE "succeeded")
  /\ owner[detached[p]] = p
  /\ detached' = [detached EXCEPT ![p] = None]
  /\ UNCHANGED <<lease, owner, clocks, seen, lost, misled>>

ReleaseNotOurs(p) ==
  /\ Goto(p, "relCheck", "relRestore")
  /\ owner[detached[p]] # p
  /\ UNCHANGED <<lease, detached, owner, clocks, seen, lost, misled>>

ReleaseRestore(p) == PutBack(p, "relRestore", "ownershipLost", "ownershipLost")

-----------------------------------------------------------------------------
(* Crashes and time.                                                       *)

Crash(p) == /\ p \in MayCrash /\ pc[p] \notin Finished \cup {"idle", "crashed"}
            /\ pc' = [pc EXCEPT ![p] = "crashed"]
            /\ UNCHANGED <<lease, detached, owner, clocks, seen, lost, misled>>

\* What a process has read or made it acts upon in no time on the scale of the
\* staleness threshold (milliseconds against 30 s), and an owner that can reach its
\* owner.json beats at least once a tick (every 5 s).
Timely == \A p \in Processes :
            /\ pc[p] \in {"idle", "mkdir", "observe", "lookup", "retry", "running",
                         "crashed"}
                        \cup Finished
            /\ pc[p] = "running" /\ LeaseToken = p => age[lease] = 0

Later(ticks) == IF ticks > StaleAfter THEN ticks ELSE ticks + 1
Exists(d) == lease = d \/ \E p \in Processes : detached[p] = d
Tick == /\ Timely
        /\ age' = [d \in Processes |-> IF Exists(d) THEN Later(age[d]) ELSE 0]
        /\ dirAge' = [d \in Processes |-> IF Exists(d) THEN Later(dirAge[d]) ELSE 0]
        /\ seenAge' = [p \in Processes |-> IF seen[p] = None THEN 0 ELSE Later(seenAge[p])]
        /\ UNCHANGED <<pc, lease, detached, owner, seen, lost, misled>>

Acquire(p) == \/ Begin(p) \/ MkdirSucceeds(p) \/ MkdirExists(p)
              \/ WriteOwner(p) \/ WriteOwnerFails(p) \/ VerifyOwner(p)
              \/ CleanUnlink(p) \/ CleanRmdir(p)
Reclaim(p) == \/ ObserveAbsent(p) \/ Observe(p) \/ ObserveOwner(p) \/ Detach(p)
              \/ RemoveStale(p) \/ KeepFresh(p) \/ Restore(p)
Release(p) == \/ ReleaseObserve(p) \/ ReleaseDetach(p) \/ ReleaseRemove(p)
              \/ ReleaseNotOurs(p) \/ ReleaseRestore(p)
Proceed(p) == Acquire(p) \/ Reclaim(p) \/ OperationEnds(p) \/ Release(p)

Next == \/ \E p \in Processes : \/ Proceed(p) \/ Retry(p) \/ GiveUp(p)
                                \/ Heartbeat(p) \/ Crash(p)
        \/ Tick

Spec == Init /\ [][Next]_vars

\* A process takes its steps or crashes, operations end (a fetch has a deadline),
\* retry timers fire, heartbeat timers too; nobody has to give up.  Time passes: the
\* clock does not wait for a moment in which no process is between two steps.
Fairness == /\ \A p \in Processes : /\ WF_vars(Proceed(p) \/ Crash(p))
                                     /\ WF_vars(Retry(p))
                                     /\ WF_vars(Heartbeat(p))
            /\ WF_vars(Tick)
FairSpec == Spec /\ Fairness

-----------------------------------------------------------------------------
\* A call is inside its operation, from acquisition to release.
Operating == {p \in Processes : pc[p] \in {"running", "release"}}

\* Type invariant.
TypeOK ==
  /\ pc \in [Processes -> Waiting \cup Creating \cup Releasing \cup Finished
                          \cup {"running", "crashed"}]
  /\ lease \in Processes \cup {None}
  /\ detached \in [Processes -> Processes \cup {None}]
  /\ owner \in [Processes -> Processes \cup {None}]
  /\ age \in [Processes -> 0..StaleAfter + 1]
  /\ dirAge \in [Processes -> 0..StaleAfter + 1]
  /\ seen \in [Processes -> Processes \cup {None}]
  /\ seenAge \in [Processes -> 0..StaleAfter + 1]
  /\ lost \in SUBSET Processes
  /\ misled \in BOOLEAN
  /\ \A p \in Processes :
       /\ pc[p] \in {"recheck", "restore", "relCheck", "relRestore"} => detached[p] # None
       /\ detached[p] # None => detached[p] # lease

\* Operations under one lease never overlap.
ExclusiveOperations == \A p, q \in Operating : p = q

\* ... as long as nobody has crashed and no observation of a lease that was held for long
\* has spanned its release, however many contend, give up or find a lease that is being
\* made or released.
Undisturbed == ~misled /\ \A p \in Processes : pc[p] # "crashed"
ExclusiveUntilDisturbed == Undisturbed => ExclusiveOperations

\* Until then no owner finds its ownership lost.
OwnershipKept == Undisturbed => \A p \in Processes : pc[p] # "ownershipLost"

\* When every call has ended undisturbed, no lease and no detached directory is left behind.
NothingLeftBehind ==
  (~misled /\ \A p \in Processes : pc[p] \in Finished)
    => lease = None /\ \A p \in Processes : detached[p] = None

\* A reclaim never removes the lease of a call that is still working under it, even
\* when it has detached the directory by mistake.
LiveLeaseNotReclaimed ==
  [][\A p, q \in Processes :
       /\ detached[p] # None /\ owner[detached[p]] = q /\ q \in Operating
       => /\ owner'[detached[p]] = q
          /\ detached'[p] = detached[p] \/ lease' = detached[p]]_vars

\* A waiting call is never blocked for good, whatever crash left the lease in
\* whatever state: it gets the lease or its caller gives up.
NeverBlockedForGood ==
  \A p \in Processes \ MayCrash : (pc[p] = "mkdir") ~> (pc[p] \in Finished)
=============================================================================
