---------------------------- MODULE StoreService ----------------------------
(***************************************************************************)
(* What createOntologyStoreExecution.js promises those who call query() and *)
(* close(): a bounded first-come-first-served service that works for one    *)
(* request at a time, may lose its worker at any moment, and answers every  *)
(* request it has admitted exactly once.  OntologyStoreExecution, with its  *)
(* threads, messages and timers, implements it.                            *)
(***************************************************************************)
EXTENDS Integers, Sequences, SequencesExt

CONSTANTS Requests, ByteLength, QueueLimit, ByteLimit, None

VARIABLES
  outcome,       \* each request: "new", "admitted", "refused", "rows" or "failed"
  queue, active, \* admitted: those that wait, the one that is worked for
  failing,       \* the request that is answered when its worker is gone
  warm,          \* there is a worker
  restarting,    \* a worker is being terminated; none may start meanwhile
  closing, admittedBytes

serviceVars == <<outcome, queue, active, failing, warm, restarting, closing, admittedBytes>>

Init == /\ outcome = [r \in Requests |-> "new"]
        /\ queue = <<>> /\ active = None /\ failing = None
        /\ warm = FALSE /\ restarting = FALSE /\ closing = FALSE
        /\ admittedBytes = 0

Bytes(rs) == SumFunctionOnSet(ByteLength, rs)

Settle(rs, how) ==
  /\ outcome' = [r \in Requests |-> IF r \in rs THEN how ELSE outcome[r]]
  /\ admittedBytes' = admittedBytes - Bytes(rs)

\* The head of q, if the service is free to take it.
StartNext(q, a, busy) ==
  IF closing \/ busy \/ a # None \/ q = <<>>
  THEN queue' = q /\ active' = a /\ warm' = warm
  ELSE queue' = Tail(q) /\ active' = Head(q) /\ warm' = TRUE

Full(r) == \/ closing
           \/ admittedBytes + ByteLength[r] > ByteLimit
           \/ Len(queue) >= QueueLimit

Refuse(r) == /\ outcome[r] = "new"
             /\ outcome' = [outcome EXCEPT ![r] = "refused"]
             /\ UNCHANGED <<queue, active, failing, warm, restarting, closing, admittedBytes>>

Admit(r) == /\ outcome[r] = "new" /\ ~Full(r)
            /\ outcome' = [outcome EXCEPT ![r] = "admitted"]
            /\ admittedBytes' = admittedBytes + ByteLength[r]
            /\ StartNext(Append(queue, r), active, restarting)
            /\ UNCHANGED <<failing, restarting, closing>>

Answer == \E how \in {"rows", "failed"} :
            /\ active # None
            /\ Settle({active}, how)
            /\ StartNext(queue, None, restarting)
            /\ UNCHANGED <<failing, restarting, closing>>

\* The worker dies, idle or busy, or is given up for a deadline or an abort.
LoseWorker == /\ warm
              /\ active' = None /\ failing' = active
              /\ warm' = FALSE /\ restarting' = TRUE
              /\ UNCHANGED <<outcome, queue, closing, admittedBytes>>

\* A request that still waits is given up at once.
Withdraw(r) == \E i \in DOMAIN queue :
                 /\ queue[i] = r
                 /\ queue' = RemoveAt(queue, i)
                 /\ Settle({r}, "failed")
                 /\ UNCHANGED <<active, failing, warm, restarting, closing>>

\* The worker is gone: its request fails, and the next one may start.
WorkerGone == /\ restarting
              /\ restarting' = FALSE /\ failing' = None
              /\ Settle({failing} \ {None}, "failed")
              /\ StartNext(queue, active, FALSE)
              /\ UNCHANGED closing

Close == /\ ~closing /\ closing' = TRUE
         /\ Settle(ToSet(queue), "failed") /\ queue' = <<>>
         /\ active' = None
         /\ failing' = IF active # None THEN active ELSE failing
         /\ restarting' = (restarting \/ warm)
         /\ warm' = FALSE

Next == \/ \E r \in Requests : Refuse(r) \/ Admit(r) \/ Withdraw(r)
        \/ Answer \/ LoseWorker \/ WorkerGone \/ Close

Spec == Init /\ [][Next]_serviceVars
=============================================================================
