----------------------- MODULE OntologyStoreExecution -----------------------
(***************************************************************************)
(* createOntologyStoreExecution.js and the worker it drives,               *)
(* ontologyStoreWorker.cjs: one warm RDF store in one worker thread, behind *)
(* a bounded FIFO with deadlines.                                          *)
(*                                                                         *)
(* One step of the main thread is one callback of its event loop (a call,  *)
(* a message, a timer, an abort event, the completion of terminate()) with *)
(* the promise reactions it queues.  The worker thread runs concurrently   *)
(* and talks to it through a mailbox.                                      *)
(***************************************************************************)
EXTENDS Integers, Sequences, SequencesExt

CONSTANTS Requests,    \* the calls of query() in one execution
          Datasets,    \* dataset keys (digests of N-Quads)
          DatasetOf,   \* the datasetKey of each request
          ByteLength,  \* the byteLength of each request
          QueueLimit,  \* admitted but not active: 8 in the code
          ByteLimit,   \* 64 MiB in the code
          None         \* JavaScript's undefined

ASSUME ConstantsAssumption ==
  /\ DatasetOf \in [Requests -> Datasets]
  /\ ByteLength \in [Requests -> Nat]
  /\ QueueLimit \in Nat \ {0} /\ ByteLimit \in Nat
  /\ None \notin Requests /\ None \notin Datasets

VARIABLES
  outcome,       \* each request: "new", "admitted", or how query() answered it
  rowsOf,        \* the rows a request was answered with: [request, dataset]
  queue, active, worker, closing, stopping, admittedBytes,  \* as in the code;
                 \* a worker is named by the request it was created for
  failing,       \* the request failActive settles once its worker is gone
  queryTimers,   \* requests whose queryTimer is armed
  closed,        \* the promise of close() has resolved
  thread,        \* each worker thread: its job, how far it is, and its store
  mail           \* messages of each worker the main thread has not handled

mainVars == <<queue, active, worker, closing, stopping, admittedBytes, failing,
              queryTimers, closed>>
answerVars == <<outcome, rowsOf>>
vars == <<outcome, rowsOf, queue, active, worker, closing, stopping,
          admittedBytes, failing, queryTimers, closed, thread, mail>>

\* A new thread: no store, nothing to do.
FreshThread == [job |-> None, stage |-> "idle", loadedKey |-> None, store |-> None]

Init ==
  /\ outcome = [r \in Requests |-> "new"]
  /\ rowsOf = [r \in Requests |-> None]
  /\ queue = <<>> /\ active = None /\ worker = None
  /\ closing = FALSE /\ stopping = None /\ closed = FALSE
  /\ admittedBytes = 0 /\ failing = None /\ queryTimers = {}
  /\ thread = [w \in Requests |-> FreshThread]
  /\ mail = [w \in Requests |-> <<>>]

-----------------------------------------------------------------------------
(* The functions of the main thread that its callbacks share.              *)

Bytes(rs) == SumFunctionOnSet(ByteLength, rs)

\* Mutants of Settle: the account is decreased twice, not at all, or the query
\* timer stays armed.
SettleTwice(rs, how) ==
  /\ outcome' = [r \in Requests |-> IF r \in rs THEN how ELSE outcome[r]]
  /\ admittedBytes' = admittedBytes - 2 * Bytes(rs)
  /\ queryTimers' = queryTimers \ rs
SettleKeepsBytes(rs, how) ==
  /\ outcome' = [r \in Requests |-> IF r \in rs THEN how ELSE outcome[r]]
  /\ admittedBytes' = admittedBytes
  /\ queryTimers' = queryTimers \ rs
SettleKeepsTimer(rs, how) ==
  /\ outcome' = [r \in Requests |-> IF r \in rs THEN how ELSE outcome[r]]
  /\ admittedBytes' = admittedBytes - Bytes(rs)
  /\ UNCHANGED queryTimers

\* settle: every request of rs is answered with how, and its timers cleared.
Settle(rs, how) ==
  /\ outcome' = [r \in Requests |-> IF r \in rs THEN how ELSE outcome[r]]
  /\ admittedBytes' = admittedBytes - Bytes(rs)
  /\ queryTimers' = queryTimers \ rs

\* Mutant of Pump: a sibling starts while the previous worker is being terminated.
PumpWhileStopping(q, a, w, s) ==
  IF closing \/ a # None \/ q = <<>>
  THEN queue' = q /\ active' = a /\ worker' = w /\ UNCHANGED thread
  ELSE LET v == IF w = None THEN Head(q) ELSE w
       IN  /\ queue' = Tail(q) /\ active' = Head(q) /\ worker' = v
           /\ thread' = [thread EXCEPT ![v].job = Head(q), ![v].stage = "posted"]

\* pump, reached with queue q, active request a, worker w and stopping worker s.
Pump(q, a, w, s) ==
  IF closing \/ s # None \/ a # None \/ q = <<>>
  THEN queue' = q /\ active' = a /\ worker' = w /\ UNCHANGED thread
  ELSE LET v == IF w = None THEN Head(q) ELSE w
       IN  /\ queue' = Tail(q) /\ active' = Head(q) /\ worker' = v
           /\ thread' = [thread EXCEPT ![v].job = Head(q), ![v].stage = "posted"]

\* Mutant of FailActive: the request is forgotten with the worker.
FailActiveForgets ==
  /\ active' = None /\ failing' = None
  /\ worker' = None /\ stopping' = worker
  /\ UNCHANGED <<answerVars, queue, admittedBytes, closing, closed, thread, mail>>

\* failActive with a worker: ownership is given up before the worker stops, and
\* the request, if there is one, is settled when it has.
FailActive ==
  /\ active' = None /\ failing' = active
  /\ worker' = None /\ stopping' = worker
  /\ UNCHANGED <<answerVars, queue, admittedBytes, closing, closed, thread, mail>>

\* cancel of a request that is active or queued; of any other it does nothing.
Cancel(r) ==
  \/ active = r /\ FailActive /\ UNCHANGED queryTimers
  \/ \E i \in DOMAIN queue :
       /\ active # r /\ queue[i] = r
       /\ queue' = RemoveAt(queue, i)
       /\ Settle({r}, "failed")
       /\ UNCHANGED <<rowsOf, active, worker, closing, stopping, failing, closed,
                      thread, mail>>

-----------------------------------------------------------------------------
(* query()                                                                 *)

\* Closing, a limit on bytes, or a full queue.
Refused(r) == \/ closing
              \/ admittedBytes + ByteLength[r] > ByteLimit
              \/ Len(queue) >= QueueLimit

\* A request is refused without any effect for those reasons, and for reasons of
\* its own: an aborted signal, an oversized source, a digest that does not match.
QueryRefused(r) ==
  /\ outcome[r] = "new"
  /\ outcome' = [outcome EXCEPT ![r] = "refused"]
  /\ UNCHANGED <<rowsOf, mainVars, thread, mail>>

QueryAdmitted(r) ==
  /\ outcome[r] = "new" /\ ~Refused(r)
  /\ outcome' = [outcome EXCEPT ![r] = "admitted"]
  /\ admittedBytes' = admittedBytes + ByteLength[r]
  /\ Pump(Append(queue, r), active, worker, stopping)
  /\ UNCHANGED <<rowsOf, closing, stopping, failing, queryTimers, closed, mail>>

\* The lifecycle timer of r fires, or its caller aborts: until r is settled both
\* are armed, and they differ in the error code only.
DeadlineOrAbort(r) == outcome[r] = "admitted" /\ Cancel(r)

\* The queryTimer armed for r cancels whatever request is active when it fires.
QueryDeadline(r) ==
  /\ r \in queryTimers
  /\ queryTimers' = queryTimers \ {r}
  /\ IF active # None
     THEN FailActive
     ELSE UNCHANGED <<answerVars, queue, active, worker, closing, stopping,
                      admittedBytes, failing, closed, thread, mail>>

-----------------------------------------------------------------------------
(* Events of the worker, seen by the main thread.                          *)

\* The guard of the "message" handler: the sender is the current worker and the
\* message is about the active request.
IsCurrent(w, m) == worker = w /\ active # None /\ m.request = active

Message(w) ==
  /\ mail[w] # <<>>
  /\ mail' = [mail EXCEPT ![w] = Tail(@)]
  /\ LET m == Head(mail[w])
     IN  CASE ~IsCurrent(w, m) ->
                UNCHANGED <<answerVars, mainVars, thread>>
           [] IsCurrent(w, m) /\ m.kind = "query_started" ->
                /\ queryTimers' = queryTimers \cup {active}
                /\ UNCHANGED <<answerVars, queue, active, worker, closing, stopping,
                               admittedBytes, failing, closed, thread>>
           [] IsCurrent(w, m) /\ m.kind = "rows" ->
                /\ Settle({active}, "rows")
                /\ rowsOf' = [rowsOf EXCEPT ![active] =
                                [request |-> m.request, dataset |-> m.dataset]]
                /\ Pump(queue, None, worker, stopping)
                /\ UNCHANGED <<closing, stopping, failing, closed>>
           [] IsCurrent(w, m) /\ m.kind = "error" ->
                /\ Settle({active}, "failed")
                /\ Pump(queue, None, worker, stopping)
                /\ UNCHANGED <<rowsOf, closing, stopping, failing, closed>>

\* "error" or "exit" of the current worker, busy or idle: the thread is gone.
WorkerDies == worker # None /\ FailActive /\ UNCHANGED queryTimers

\* Mutants of WorkerTerminated: no pump, no settlement, stopping never cleared.
WorkerTerminatedNoPump ==
  /\ stopping # None
  /\ stopping' = None /\ failing' = None
  /\ Settle({failing} \ {None}, "failed")
  /\ UNCHANGED <<rowsOf, queue, active, worker, thread, closing, closed, mail>>
WorkerTerminatedNoSettle ==
  /\ stopping # None
  /\ stopping' = None /\ failing' = None
  /\ Pump(queue, active, worker, None)
  /\ UNCHANGED <<outcome, admittedBytes, queryTimers, rowsOf, closing, closed, mail>>
WorkerTerminatedStays ==
  /\ stopping # None /\ failing # None
  /\ failing' = None
  /\ Settle({failing} \ {None}, "failed")
  /\ UNCHANGED <<rowsOf, queue, active, worker, stopping, thread, closing, closed, mail>>

\* terminate() has finished: the finally reaction pumps, then the failed request
\* is settled.
WorkerTerminated ==
  /\ stopping # None
  /\ stopping' = None /\ failing' = None
  /\ Pump(queue, active, worker, None)
  /\ Settle({failing} \ {None}, "failed")
  /\ UNCHANGED <<rowsOf, closing, closed, mail>>

-----------------------------------------------------------------------------
(* close()                                                                 *)

Close ==
  /\ ~closing
  /\ closing' = TRUE
  /\ Settle(ToSet(queue), "failed") /\ queue' = <<>>
  /\ active' = None /\ worker' = None
  /\ stopping' = IF worker # None THEN worker ELSE stopping
  /\ failing' = IF active # None THEN active ELSE failing
  /\ UNCHANGED <<rowsOf, closed, thread, mail>>

\* The termination that close() awaits is over.
CloseResolves ==
  /\ closing /\ ~closed /\ stopping = None
  /\ closed' = TRUE
  /\ UNCHANGED <<answerVars, queue, active, worker, closing, stopping,
                 admittedBytes, failing, queryTimers, thread, mail>>

-----------------------------------------------------------------------------
(* The worker thread: its handler posts messages while it runs.            *)

Alive(w) == w # None /\ w \in {worker, stopping}
Post(w, m) == mail' = [mail EXCEPT ![w] = Append(@, m)]
Started(r) == [kind |-> "query_started", request |-> r, dataset |-> None]
Rows(r, d) == [kind |-> "rows", request |-> r, dataset |-> d]
Error(r) == [kind |-> "error", request |-> r, dataset |-> None]

\* Mutant of KeyWhileLoading: the previous key stays while the store is replaced.
KeyKept(t) == t.loadedKey

\* loadedDatasetKey while a store is being filled, and when that has failed.
KeyWhileLoading(t) == None

\* The request's dataset is not the loaded one: the store is freed and refilled,
\* which may fail half-way (a parse error, or the 200 000-quad limit).
WorkerLoads(w) ==
  LET t == thread[w] IN
  /\ Alive(w) /\ t.stage = "posted" /\ t.loadedKey # DatasetOf[t.job]
  /\ \/ /\ thread' = [thread EXCEPT ![w] =
             [t EXCEPT !.loadedKey = DatasetOf[t.job], !.store = DatasetOf[t.job]]]
        /\ UNCHANGED mail
     \/ /\ thread' = [thread EXCEPT ![w] =
             [t EXCEPT !.loadedKey = KeyWhileLoading(t), !.store = "partial",
                       !.job = None, !.stage = "idle"]]
        /\ Post(w, Error(t.job))
  /\ UNCHANGED <<answerVars, mainVars>>

WorkerStarts(w) ==
  LET t == thread[w] IN
  /\ Alive(w) /\ t.stage = "posted" /\ t.loadedKey = DatasetOf[t.job]
  /\ thread' = [thread EXCEPT ![w].stage = "executing"]
  /\ Post(w, Started(t.job))
  /\ UNCHANGED <<answerVars, mainVars>>

\* The query returns rows, exceeds the row limit or throws; or it never returns.
WorkerReplies(w) ==
  LET t == thread[w] IN
  /\ Alive(w) /\ t.stage = "executing"
  /\ thread' = [thread EXCEPT ![w].stage = "idle", ![w].job = None]
  /\ \E m \in {Rows(t.job, t.store), Error(t.job)} : Post(w, m)
  /\ UNCHANGED <<answerVars, mainVars>>

-----------------------------------------------------------------------------
Next ==
  \/ \E r \in Requests : \/ QueryRefused(r) \/ QueryAdmitted(r)
                         \/ DeadlineOrAbort(r) \/ QueryDeadline(r)
  \/ \E w \in Requests : \/ Message(w) \/ WorkerLoads(w)
                         \/ WorkerStarts(w) \/ WorkerReplies(w)
  \/ WorkerDies \/ WorkerTerminated \/ Close \/ CloseResolves

Spec == Init /\ [][Next]_vars

\* The lifecycle timer fires and terminate() completes; nothing is assumed of the
\* worker (a query may never return) or of the caller (it may never abort).
Fairness == /\ \A r \in Requests : WF_vars(DeadlineOrAbort(r))
            /\ WF_vars(WorkerTerminated) /\ WF_vars(CloseResolves)
FairSpec == Spec /\ Fairness

-----------------------------------------------------------------------------
Waiting == ToSet(queue)
Unsettled == {r \in Requests : outcome[r] = "admitted"}
MessageSet == [kind : {"query_started", "rows", "error"}, request : Requests,
               dataset : Datasets \cup {None, "partial"}]

\* Type invariant.
TypeOK ==
  /\ outcome \in [Requests -> {"new", "admitted", "refused", "rows", "failed"}]
  /\ rowsOf \in [Requests -> [request : Requests,
                              dataset : Datasets \cup {None, "partial"}] \cup {None}]
  /\ queue \in Seq(Requests)
  /\ {active, worker, stopping, failing} \subseteq Requests \cup {None}
  /\ closing \in BOOLEAN /\ closed \in BOOLEAN
  /\ admittedBytes \in Nat /\ queryTimers \in SUBSET Requests
  /\ thread \in [Requests -> [job : Requests \cup {None},
                              stage : {"idle", "posted", "executing"},
                              loadedKey : Datasets \cup {None},
                              store : Datasets \cup {None, "partial"}]]
  /\ mail \in [Requests -> Seq(MessageSet)]

\* Every admitted request that has no answer yet is in exactly one place: queued
\* once, active, or waiting for its worker to be gone.  The admission account is the
\* bytes of just these requests, so the limit holds for what is really in memory.
UnsettledIsHeld ==
  /\ Unsettled = Waiting \cup ({active, failing} \ {None})
  /\ IsInjective(queue) /\ Waiting \cap {active, failing} = {}
  /\ active = failing => active = None
  /\ admittedBytes = Bytes(Unsettled) /\ admittedBytes <= ByteLimit

\* A sibling starts only after the failed request's worker is gone, no thread works for
\* a request that has been answered, and yet nothing waits for a free worker: the
\* queue is empty unless a request is active or a worker is being terminated, whose
\* completion pumps again.
OneAtATime ==
  /\ stopping # None => active = None /\ worker = None
  /\ \A w \in Requests : Alive(w) /\ thread[w].job # None =>
       thread[w].job \in {active, failing}
  /\ queue # <<>> => active # None \/ stopping # None

\* A query timer belongs to the active request or to the one being failed, so it
\* never cancels a sibling that became active later; and a request is answered with
\* rows of its own query, computed over exactly its own dataset: late messages of a
\* terminated worker and half-loaded stores never show.
AnswersAreOwn ==
  /\ queryTimers \subseteq {active, failing}
  /\ \A r \in Requests : outcome[r] = "rows" =>
       rowsOf[r] = [request |-> r, dataset |-> DatasetOf[r]]

\* Every admitted request is eventually answered and close() eventually resolves, even
\* if the worker hangs.
EventuallyAnswered ==
  /\ \A r \in Requests : (outcome[r] = "admitted") ~> (outcome[r] # "admitted")
  /\ closing ~> closed

\* Whatever the threads, messages and timers do, callers see the bounded service of
\* StoreService: admission, order, one request at a time, one answer for each.
Service == INSTANCE StoreService WITH warm <- worker # None, restarting <- stopping # None
ImplementsService == Service!Spec
=============================================================================
