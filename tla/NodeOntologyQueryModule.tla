---------------------- MODULE NodeOntologyQueryModule ----------------------
(***************************************************************************)
(* createNodeOntologyQueryModule.js over one store execution: the calls of  *)
(* its operations, from the selection of a snapshot to the answer of the    *)
(* worker, with an admission of its own that counts requests and bytes      *)
(* before the datasets are read.                                           *)
(*                                                                         *)
(* A step is a synchronous stretch between two awaits, or one step of the   *)
(* execution.  Reads end in any order; shared ones fail together, which is  *)
(* one of the choices.                                                     *)
(***************************************************************************)
EXTENDS Integers, FiniteSets, SequencesExt

CONSTANTS Requests, ByteLength, QueueLimit, ByteLimit, None,
          PendingLimit  \* 9 in the code: what the execution's queue holds and one

NodeAssumption ==
  /\ ByteLength \in [Requests -> Nat] /\ None \notin Requests
  /\ ByteLimit \in Nat /\ QueueLimit \in Nat \ {0} /\ PendingLimit = QueueLimit + 1

VARIABLES
  outcome, queue, active, failing, warm, restarting, closing, admittedBytes,
  phase,                 \* a call: "idle", "selecting", "loading", "executing", "ended"
  cancelled,             \* the calls whose lifecycle signal has been aborted
  pendingRequests, reservedDatasetBytes,
  moduleClosed           \* closed, in the module; the execution's says it has stopped

execVars == <<outcome, queue, active, failing, warm, restarting, closing, admittedBytes>>
nodeVars == <<execVars, phase, cancelled, pendingRequests, reservedDatasetBytes,
              moduleClosed>>

Exec == INSTANCE StoreService

NodeInit == /\ Exec!Init
            /\ phase = [r \in Requests |-> "idle"]
            /\ cancelled = {}
            /\ pendingRequests = 0 /\ reservedDatasetBytes = 0
            /\ moduleClosed = FALSE

Advance(r, from, to) == phase[r] = from /\ phase' = [phase EXCEPT ![r] = to]

\* contextOperation refuses when the module is closed; searchOntologyEntities goes on
\* with a signal that is already aborted.
NodeCall(r) ==
  /\ \/ Advance(r, "idle", "selecting")
     \/ moduleClosed /\ Advance(r, "idle", "ended")
  /\ cancelled' = IF moduleClosed THEN cancelled \cup {r} ELSE cancelled
  /\ UNCHANGED <<execVars, pendingRequests, reservedDatasetBytes, moduleClosed>>

\* The selection, or the resolution of a name in it, fails; a read that is under way does
\* once the signal is aborted.
SelectionFails(r) ==
  /\ Advance(r, "selecting", "ended")
  /\ UNCHANGED <<execVars, cancelled, pendingRequests, reservedDatasetBytes, moduleClosed>>

\* Mutant of Admits: one request too many.
AdmitsOneMore(r) == /\ pendingRequests <= PendingLimit
                    /\ reservedDatasetBytes + ByteLength[r] <= ByteLimit
Admits(r) == /\ pendingRequests < PendingLimit
             /\ reservedDatasetBytes + ByteLength[r] <= ByteLimit

\* executeSnapshot up to the first read of a dataset.
Reserve(r) ==
  /\ Admits(r)
  /\ Advance(r, "selecting", "loading")
  /\ pendingRequests' = pendingRequests + 1
  /\ reservedDatasetBytes' = reservedDatasetBytes + ByteLength[r]
  /\ UNCHANGED <<execVars, cancelled, moduleClosed>>

CapacityExceeded(r) ==
  /\ ~Admits(r)
  /\ Advance(r, "selecting", "ended")
  /\ UNCHANGED <<execVars, cancelled, pendingRequests, reservedDatasetBytes, moduleClosed>>

\* Mutant of Release: a reservation is only given back with an answer.
ReleaseAnswered(r) ==
  /\ pendingRequests' = IF outcome[r] = "rows" THEN pendingRequests - 1 ELSE pendingRequests
  /\ UNCHANGED reservedDatasetBytes
\* The finally clause of executeSnapshot.
Release(r) == /\ pendingRequests' = pendingRequests - 1
              /\ reservedDatasetBytes' = reservedDatasetBytes - ByteLength[r]

\* A dataset cannot be read or does not match, or the signal is aborted.
LoadingFails(r) ==
  /\ Advance(r, "loading", "ended")
  /\ Release(r)
  /\ UNCHANGED <<execVars, cancelled, moduleClosed>>

\* The last dataset is there: the query is handed to the execution, which refuses it
\* when its signal is aborted.
HandOver(r) ==
  /\ Advance(r, "loading", "executing")
  /\ \/ r \notin cancelled /\ Exec!Admit(r)
     \/ (r \in cancelled \/ Exec!Full(r)) /\ Exec!Refuse(r)
  /\ UNCHANGED <<cancelled, pendingRequests, reservedDatasetBytes, moduleClosed>>

\* The execution has answered; the caller is answered after the finally clause.
Answered(r) ==
  /\ outcome[r] \in {"refused", "rows", "failed"}
  /\ Advance(r, "executing", "ended")
  /\ Release(r)
  /\ UNCHANGED <<execVars, cancelled, moduleClosed>>

\* Mutant of LifecycleAborts: the signal is not handed to the execution.
LifecycleUnheard(r) ==
  /\ phase[r] \in {"selecting", "loading", "executing"} /\ r \notin cancelled
  /\ cancelled' = cancelled \cup {r}
  /\ UNCHANGED <<execVars, phase, pendingRequests, reservedDatasetBytes, moduleClosed>>
\* The deadline of ten seconds, or the caller's signal: the abort reaches the execution
\* in the same step if the query is in its hands.
LifecycleAborts(r) ==
  /\ phase[r] \in {"selecting", "loading", "executing"} /\ r \notin cancelled
  /\ cancelled' = cancelled \cup {r}
  /\ \/ active = r /\ Exec!LoseWorker
     \/ Exec!Withdraw(r)
     \/ active # r /\ r \notin ToSet(queue) /\ UNCHANGED execVars
  /\ UNCHANGED <<phase, pendingRequests, reservedDatasetBytes, moduleClosed>>

\* Mutant of ModuleClose: the lifecycle signals are not aborted.
CloseExecutionOnly ==
  /\ ~moduleClosed /\ moduleClosed' = TRUE
  /\ Exec!Close
  /\ UNCHANGED <<phase, cancelled, pendingRequests, reservedDatasetBytes>>
\* close: every lifecycle signal is aborted, then the execution is closed.
ModuleClose ==
  /\ ~moduleClosed /\ moduleClosed' = TRUE
  /\ cancelled' = cancelled \cup {r \in Requests :
                                   phase[r] \in {"selecting", "loading", "executing"}}
  /\ Exec!Close
  /\ UNCHANGED <<phase, pendingRequests, reservedDatasetBytes>>

\* The worker and the timers of the execution go on by themselves.
WorkerSteps ==
  /\ Exec!Answer \/ Exec!LoseWorker \/ \E r \in Requests : Exec!Withdraw(r)
  /\ UNCHANGED <<phase, cancelled, pendingRequests, reservedDatasetBytes, moduleClosed>>

WorkerGone ==
  /\ Exec!WorkerGone
  /\ UNCHANGED <<phase, cancelled, pendingRequests, reservedDatasetBytes, moduleClosed>>

NodeNext == \/ \E r \in Requests :
                 \/ NodeCall(r) \/ SelectionFails(r) \/ Reserve(r) \/ CapacityExceeded(r)
                 \/ LoadingFails(r) \/ HandOver(r) \/ Answered(r) \/ LifecycleAborts(r)
            \/ ModuleClose \/ WorkerSteps \/ WorkerGone

NodeSpec == NodeInit /\ [][NodeNext]_nodeVars

\* The deadline fires; a read that is under way rejects once its signal is aborted; an
\* answer is passed on; terminate() completes.  Nothing is assumed of reads or worker.
NodeFairness ==
  /\ \A r \in Requests : /\ WF_nodeVars(LifecycleAborts(r))
                         /\ WF_nodeVars(r \in cancelled /\ SelectionFails(r))
                         /\ WF_nodeVars(r \in cancelled /\ LoadingFails(r))
                         /\ WF_nodeVars(Answered(r))
  /\ WF_nodeVars(WorkerGone)

-----------------------------------------------------------------------------
Held == {r \in Requests : phase[r] \in {"loading", "executing"}}

\* What the module holds for its callers is what it has counted, whichever way each call
\* ended, and it covers what the execution has admitted.
ReservationsExact ==
  /\ pendingRequests = Cardinality(Held)
  /\ reservedDatasetBytes = Exec!Bytes(Held)
  /\ admittedBytes <= reservedDatasetBytes

\* A request the module has admitted is not refused by the execution for its capacity:
\* the bytes always fit, and its queue is full only while a worker that died idle is
\* being terminated, when nothing is active.
AdmittedIsAccepted ==
  \A r \in Requests : phase[r] = "loading" =>
    /\ admittedBytes + ByteLength[r] <= ByteLimit
    /\ Len(queue) < QueueLimit \/ (restarting /\ active = None /\ failing = None)

\* Nothing goes on after close: whatever a call was doing, its signal is aborted, and a
\* query that is in the execution's hands waits for nothing but the end of its worker.
NothingOutlivesClose ==
  moduleClosed => \A r \in Requests :
    /\ phase[r] \in {"selecting", "loading", "executing"} => r \in cancelled
    /\ outcome[r] = "admitted" => r = failing

\* The accounts of the module, whatever ends first: a read, a query, a deadline, close.
AccountsKept == ReservationsExact /\ AdmittedIsAccepted /\ NothingOutlivesClose

\* Every call ends, be it that reads or the worker hang, or that the module is closed
\* while it selects, loads or executes.
EveryCallEnds == \A r \in Requests : phase[r] = "selecting" ~> phase[r] = "ended"
=============================================================================
