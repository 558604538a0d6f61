-------------------- MODULE OntologyStoreExecutionProofs --------------------
(* Theorems about the store execution, for any requests, datasets and limits. *)
EXTENDS OntologyStoreExecution, CollectionTheorems

-----------------------------------------------------------------------------
(* The inductive invariant.                                                 *)

\* The first parts of UnsettledIsHeld: where an admitted request is.
Placed ==
  /\ Unsettled = Waiting \cup ({active, failing} \ {None})
  /\ IsInjective(queue) /\ Waiting \cap {active, failing} = {}
  /\ active = failing => active = None

\* Its last part; the sum is over a finite set.
Account ==
  /\ IsFiniteSet(Unsettled)
  /\ admittedBytes = Bytes(Unsettled) /\ admittedBytes <= ByteLimit

\* Who owns the worker: the active request has one, a failed one waits for one, and
\* after close() nothing waits or runs.
Owned ==
  /\ active # None => worker # None
  /\ failing # None => stopping # None
  /\ closing => queue = <<>> /\ worker = None

\* A thread has a job until it replies, its key names what its store holds, and it
\* executes over its request's dataset only.
ThreadsKnow ==
  \A w \in Requests :
    /\ thread[w].stage = "idle" <=> thread[w].job = None
    /\ thread[w].loadedKey # None => thread[w].store = thread[w].loadedKey
    /\ thread[w].stage = "executing" => thread[w].loadedKey = DatasetOf[thread[w].job]

\* A message is about a request that has left the queue; rows are of its dataset; and
\* its sender does not work for it any more when it has replied.
MailIsTrue ==
  \A w \in Requests : \A m \in ToSet(mail[w]) :
    /\ outcome[m.request] # "new" /\ m.request \notin Waiting
    /\ m.kind = "rows" => m.dataset = DatasetOf[m.request]
    /\ m.kind \in {"rows", "error"} => thread[w].job # m.request

StoreInv == /\ TypeOK /\ Placed /\ Account /\ Owned /\ OneAtATime
            /\ ThreadsKnow /\ MailIsTrue /\ AnswersAreOwn

-----------------------------------------------------------------------------
(* What the shared functions do.                                            *)

Threads == [job : Requests \cup {None}, stage : {"idle", "posted", "executing"},
            loadedKey : Datasets \cup {None}, store : Datasets \cup {None, "partial"}]

\* What pump may do: nothing, or it hands the head of the queue to a worker.
PumpsNothing(q, a, w, s) ==
  /\ closing \/ s # None \/ a # None \/ q = <<>>
  /\ queue' = q /\ active' = a /\ worker' = w /\ thread' = thread
PumpsHead(q, a, w, s) ==
  /\ ~closing /\ s = None /\ a = None /\ q # <<>>
  /\ queue' = Tail(q) /\ active' = Head(q)
  /\ worker' \in Requests
  /\ w # None => worker' = w
  /\ thread' = [thread EXCEPT ![worker'] =
                  [@ EXCEPT !.job = active', !.stage = "posted"]]

\* Either way what it was given to hold is held, and no request twice.
LEMMA PumpEffect ==
  ASSUME NEW q \in Seq(Requests), IsInjective(q), NEW a \in Requests \cup {None},
         NEW w \in Requests \cup {None}, NEW s, thread \in [Requests -> Threads],
         a \notin ToSet(q), Pump(q, a, w, s)
  PROVE  /\ PumpsNothing(q, a, w, s) \/ PumpsHead(q, a, w, s)
         /\ queue' \in Seq(Requests) /\ IsInjective(queue')
         /\ active' \in Requests \cup {None} /\ worker' \in Requests \cup {None}
         /\ thread' \in [Requests -> Threads]
         /\ active' \notin ToSet(queue')
         /\ ToSet(q) \cup ({a} \ {None}) = ToSet(queue') \cup ({active'} \ {None})
<1>1. CASE closing \/ s # None \/ a # None \/ q = <<>>
  BY <1>1 DEF Pump, PumpsNothing
<1>2. CASE ~(closing \/ s # None \/ a # None \/ q = <<>>)
  <2> DEFINE v == IF w = None THEN Head(q) ELSE w
  <2>1. /\ Head(q) \in Requests /\ Tail(q) \in Seq(Requests)
        /\ ToSet(q) = ToSet(Tail(q)) \cup {Head(q)}
        /\ IsInjective(Tail(q)) /\ Head(q) \notin ToSet(Tail(q))
    BY <1>2, TailElements
  <2>2. /\ queue' = Tail(q) /\ active' = Head(q) /\ worker' = v /\ v \in Requests
        /\ thread' = [thread EXCEPT ![v].job = Head(q), ![v].stage = "posted"]
    BY <1>2, <2>1 DEF Pump
  <2>3. thread' = [thread EXCEPT ![worker'] =
                     [@ EXCEPT !.job = active', !.stage = "posted"]]
    BY <2>2 DEF Threads
  <2>4. thread' \in [Requests -> Threads]
    <3> DEFINE t == [thread[v] EXCEPT !.job = active', !.stage = "posted"]
    <3>1. thread[v] \in Threads /\ active' \in Requests
      BY <2>1, <2>2
    <3>2. t \in Threads
      BY <3>1 DEF Threads
    <3>3. thread' = [thread EXCEPT ![v] = t]
      BY <2>2, <2>3
    <3> HIDE DEF t
    <3> QED BY <2>2, <3>2, <3>3
  <2>5. PumpsHead(q, a, w, s)
    BY <1>2, <2>2, <2>3 DEF PumpsHead
  <2> QED BY <1>2, <2>1, <2>2, <2>4, <2>5, ConstantsAssumption
<1> QED BY <1>1, <1>2

\* Requests that are settled leave the account with just their bytes.
LEMMA SettleEffect ==
  ASSUME TypeOK, Account, NEW rs \in SUBSET Unsettled, NEW how \in {"rows", "failed"},
         Settle(rs, how)
  PROVE  /\ outcome' \in [Requests -> {"new", "admitted", "refused", "rows", "failed"}]
         /\ admittedBytes' \in Nat /\ queryTimers' \in SUBSET Requests
         /\ Unsettled' = Unsettled \ rs
         /\ Account'
         /\ \A r \in Requests : outcome[r] # "new" => outcome'[r] # "new"
         /\ \A r \in Requests : outcome'[r] = "rows" =>
              outcome[r] = "rows" \/ (r \in rs /\ how = "rows")
<1>1. outcome' \in [Requests -> {"new", "admitted", "refused", "rows", "failed"}]
  BY DEF Settle, TypeOK
<1>2. Unsettled' = Unsettled \ rs
  BY DEF Settle, TypeOK, Unsettled
<1>3. /\ IsFiniteSet(Unsettled) /\ Unsettled \subseteq Requests
      /\ \A r \in Unsettled : ByteLength[r] \in Nat
  BY ConstantsAssumption DEF Account, Unsettled
<1>4. /\ SumFunctionOnSet(ByteLength, Unsettled \ rs)
           = SumFunctionOnSet(ByteLength, Unsettled) - SumFunctionOnSet(ByteLength, rs)
      /\ SumFunctionOnSet(ByteLength, rs) <= SumFunctionOnSet(ByteLength, Unsettled)
  BY <1>3, SumRemove
<1>5. IsFiniteSet(rs) /\ IsFiniteSet(Unsettled \ rs)
  BY <1>3, FS_Subset
<1>6. SumFunctionOnSet(ByteLength, rs) \in Nat
  BY <1>3, <1>5, SumNat
<1>7. /\ admittedBytes = SumFunctionOnSet(ByteLength, Unsettled)
      /\ admittedBytes \in Nat /\ admittedBytes <= ByteLimit
      /\ admittedBytes' = admittedBytes - SumFunctionOnSet(ByteLength, rs)
  BY DEF Account, Bytes, Settle, TypeOK
<1>8. admittedBytes' \in Nat /\ admittedBytes' <= ByteLimit
  BY <1>4, <1>6, <1>7, ConstantsAssumption
<1>9. Account'
  BY <1>2, <1>4, <1>5, <1>7, <1>8 DEF Account, Bytes
<1>10. queryTimers' \in SUBSET Requests
  BY DEF Settle, TypeOK
<1> QED BY <1>1, <1>2, <1>8, <1>9, <1>10 DEF Settle, TypeOK

\* pump keeps a sibling from starting before the previous worker is gone, and starts
\* one whenever it may.
LEMMA PumpKeepsOrder ==
  ASSUME NEW q \in Seq(Requests), NEW a \in Requests \cup {None},
         NEW w \in Requests \cup {None}, NEW s, thread \in [Requests -> Threads],
         PumpsNothing(q, a, w, s) \/ PumpsHead(q, a, w, s),
         active' \in Requests \cup {None}, worker' \in Requests \cup {None},
         q # <<>> => Head(q) \in Requests,
         stopping' = s, closing' = closing, closing => q = <<>> /\ w = None,
         a # None => w # None, failing' # None => s # None,
         s # None => a = None /\ w = None,
         \A v \in Requests : v \in {w, s} /\ thread[v].job # None
                               => thread[v].job \in {a, failing'}
  PROVE  OneAtATime' /\ Owned'
<1> USE ConstantsAssumption
<1>1. CASE PumpsNothing(q, a, w, s)
  BY <1>1 DEF PumpsNothing, OneAtATime, Owned, Alive
<1>2. CASE PumpsHead(q, a, w, s)
  <2>1. thread'[worker'].job = active' /\ active' # None
    BY <1>2 DEF PumpsHead, Threads
  <2>2. \A v \in Requests : Alive(v)' => v = worker'
    BY <1>2 DEF PumpsHead, Alive
  <2> QED BY <1>2, <2>1, <2>2 DEF PumpsHead, OneAtATime, Owned
<1> QED BY <1>1, <1>2

\* pump gives a thread a job of the queue only, and leaves what its store holds.
LEMMA PumpKeepsThreads ==
  ASSUME TypeOK, ThreadsKnow, NEW q \in Seq(Requests), NEW a, NEW w, NEW s,
         PumpsNothing(q, a, w, s) \/ PumpsHead(q, a, w, s)
  PROVE  /\ ThreadsKnow'
         /\ \A v \in Requests :
              thread'[v].job = thread[v].job \/ thread'[v].job \in ToSet(q)
<1>1. CASE PumpsNothing(q, a, w, s)
  BY <1>1 DEF PumpsNothing, ThreadsKnow
<1>2. CASE PumpsHead(q, a, w, s)
  <2>1. active' \in ToSet(q) /\ active' \in Requests
    BY <1>2, TailElements DEF PumpsHead
  <2>2. thread \in [Requests -> Threads]
    BY DEF TypeOK, Threads
  <2>3. ASSUME NEW v \in Requests
        PROVE  /\ v # worker' => thread'[v] = thread[v]
               /\ v = worker' => /\ thread'[v].job = active' /\ thread'[v].stage = "posted"
                                 /\ thread'[v].loadedKey = thread[v].loadedKey
                                 /\ thread'[v].store = thread[v].store
    BY <1>2, <2>2 DEF PumpsHead, Threads
  <2>4. ThreadsKnow'
    BY <2>1, <2>3, ConstantsAssumption DEF ThreadsKnow
  <2> QED BY <2>1, <2>3, <2>4
<1> QED BY <1>1, <1>2

\* Mail stays true while nothing is posted: a request does not come back.
LEMMA MailStaysTrue ==
  ASSUME TypeOK, MailIsTrue,
         \A w \in Requests : ToSet(mail'[w]) \subseteq ToSet(mail[w]),
         \A r \in Requests : outcome[r] # "new" => outcome'[r] # "new",
         \A r \in Requests : r \in Waiting' => r \in Waiting \/ outcome[r] = "new",
         \A w \in Requests : \/ thread'[w].job = thread[w].job
                             \/ thread'[w].job = None
                             \/ thread'[w].job \in Waiting
                             \/ /\ thread'[w].job \in Requests
                                /\ outcome[thread'[w].job] = "new"
  PROVE  MailIsTrue'
<1> SUFFICES ASSUME NEW w \in Requests, NEW m \in ToSet(mail'[w])
             PROVE  /\ outcome'[m.request] # "new" /\ m.request \notin Waiting'
                    /\ m.kind = "rows" => m.dataset = DatasetOf[m.request]
                    /\ m.kind \in {"rows", "error"} => thread'[w].job # m.request
  BY DEF MailIsTrue
<1>1. m \in ToSet(mail[w])
  OBVIOUS
<1>2. m.request \in Requests
  <2>1. mail[w] \in Seq(MessageSet)
    BY DEF TypeOK
  <2>2. m \in MessageSet
    BY <1>1, <2>1, ElementsType
  <2> QED BY <2>2 DEF MessageSet
<1>3. /\ outcome[m.request] # "new" /\ m.request \notin Waiting
      /\ m.kind = "rows" => m.dataset = DatasetOf[m.request]
      /\ m.kind \in {"rows", "error"} => thread[w].job # m.request
  BY <1>1 DEF MailIsTrue
<1> QED BY <1>2, <1>3, ConstantsAssumption

-----------------------------------------------------------------------------
(* The invariant holds.                                                     *)

\* It holds initially.
LEMMA StoreInit == Init => StoreInv
<1> SUFFICES ASSUME Init PROVE StoreInv
  OBVIOUS
<1>1. TypeOK
  <2>1. FreshThread \in Threads
    BY DEF FreshThread, Threads
  <2>2. thread \in [Requests -> Threads]
    BY <2>1 DEF Init
  <2>3. <<>> \in Seq(MessageSet) /\ <<>> \in Seq(Requests)
    OBVIOUS
  <2>4. mail \in [Requests -> Seq(MessageSet)] /\ queue \in Seq(Requests)
    BY <2>3 DEF Init
  <2> QED BY <2>2, <2>4 DEF Init, TypeOK, Threads
<1>2. Unsettled = {} /\ Waiting = {} /\ \A w \in Requests : ToSet(mail[w]) = {}
  BY ElementsEmpty DEF Init, Unsettled, Waiting
<1>3. Account
  BY <1>2, SumEmpty, FS_EmptySet, ConstantsAssumption DEF Account, Bytes, Init
<1>4. Placed
  BY <1>2, ElementsEmpty DEF Placed, Init
<1>5. ThreadsKnow /\ MailIsTrue /\ Owned
  BY <1>2 DEF ThreadsKnow, MailIsTrue, Owned, Init, FreshThread
<1>6. OneAtATime /\ AnswersAreOwn
  BY DEF OneAtATime, AnswersAreOwn, Alive, Init
<1> QED BY <1>1, <1>3, <1>4, <1>5, <1>6 DEF StoreInv

\* query() admits a request.
LEMMA AdmittedKeeps ==
  ASSUME StoreInv, NEW r \in Requests, QueryAdmitted(r)
  PROVE  StoreInv'
<1> USE ConstantsAssumption DEF StoreInv
<1> DEFINE q == Append(queue, r)
<1>1. /\ outcome[r] = "new" /\ ~closing /\ admittedBytes + ByteLength[r] <= ByteLimit
      /\ outcome' = [outcome EXCEPT ![r] = "admitted"]
      /\ admittedBytes' = admittedBytes + ByteLength[r]
      /\ Pump(q, active, worker, stopping)
      /\ UNCHANGED <<rowsOf, closing, stopping, failing, queryTimers, closed, mail>>
  BY DEF QueryAdmitted, Refused, TypeOK
<1>2. r \notin Unsettled /\ r \notin Waiting /\ r # active /\ r # failing
  BY <1>1 DEF Placed, Unsettled
<1>3. /\ q \in Seq(Requests) /\ q # <<>> /\ ToSet(q) = Waiting \cup {r} /\ IsInjective(q)
  BY <1>2, AppendElements DEF TypeOK, Placed, Waiting
<1> HIDE DEF q
<1>4. active \notin ToSet(q)
  BY <1>2, <1>3 DEF Placed
<1>5. thread \in [Requests -> Threads]
  BY DEF TypeOK, Threads
<1>6. /\ PumpsNothing(q, active, worker, stopping) \/ PumpsHead(q, active, worker, stopping)
      /\ queue' \in Seq(Requests) /\ IsInjective(queue')
      /\ active' \in Requests \cup {None} /\ worker' \in Requests \cup {None}
      /\ thread' \in [Requests -> Threads]
      /\ active' \notin ToSet(queue')
      /\ ToSet(q) \cup ({active} \ {None}) = ToSet(queue') \cup ({active'} \ {None})
  <2>1. active \in Requests \cup {None} /\ worker \in Requests \cup {None}
    BY DEF TypeOK
  <2> QED BY <1>1, <1>3, <1>4, <1>5, <2>1, PumpEffect
<1>7. Unsettled' = Unsettled \cup {r}
  BY <1>1 DEF Unsettled, TypeOK
<1>8. Account' /\ admittedBytes' \in Nat
  <2>1. IsFiniteSet(Unsettled) /\ \A x \in Unsettled \cup {r} : ByteLength[x] \in Int
    BY DEF Account, Unsettled
  <2>2. SumFunctionOnSet(ByteLength, Unsettled \cup {r})
        = ByteLength[r] + SumFunctionOnSet(ByteLength, Unsettled)
    BY <1>2, <2>1, SumAdd
  <2>3. IsFiniteSet(Unsettled \cup {r})
    BY <2>1, FS_AddElement
  <2>4. /\ admittedBytes = SumFunctionOnSet(ByteLength, Unsettled)
        /\ admittedBytes \in Nat /\ ByteLength[r] \in Nat
    BY DEF Account, Bytes, TypeOK
  <2> QED BY <1>1, <1>7, <2>2, <2>3, <2>4 DEF Account, Bytes
<1>9. TypeOK'
  BY <1>1, <1>6, <1>8 DEF TypeOK, Threads
<1>10. Placed'
  <2>1. failing' = failing /\ Waiting' = ToSet(queue')
    BY <1>1 DEF Waiting
  <2>2. active' \in ToSet(q) \cup {active} /\ failing \notin ToSet(q)
    BY <1>2, <1>3, <1>6 DEF Placed, PumpsNothing, PumpsHead
  <2>3. ToSet(queue') \subseteq ToSet(q) \cup {active}
    BY <1>6
  <2>4. failing = active => active = None
    BY DEF Placed
  <2>5. active' = failing => active' = None
    BY <2>2, <2>4, <1>6
  <2>6. failing \notin ToSet(queue')
    BY <1>6, <2>2, <2>4, TailElements DEF PumpsNothing, PumpsHead
  <2> QED BY <1>3, <1>6, <1>7, <2>1, <2>5, <2>6 DEF Placed
<1>11. OneAtATime' /\ Owned'
  <2>1. q # <<>> => Head(q) \in Requests
    BY <1>3, TailElements
  <2>2. /\ active \in Requests \cup {None} /\ worker \in Requests \cup {None}
        /\ active # None => worker # None
        /\ failing' # None => stopping # None
        /\ stopping # None => active = None /\ worker = None
    BY <1>1 DEF TypeOK, Owned, OneAtATime
  <2>3. \A v \in Requests : v \in {worker, stopping} /\ thread[v].job # None
                              => thread[v].job \in {active, failing'}
    BY <1>1 DEF OneAtATime, Alive
  <2> QED BY <1>1, <1>3, <1>5, <1>6, <2>1, <2>2, <2>3, PumpKeepsOrder
<1>12. ThreadsKnow' /\ \A v \in Requests :
         thread'[v].job = thread[v].job \/ thread'[v].job \in ToSet(q)
  BY <1>3, <1>6, PumpKeepsThreads
<1>13. MailIsTrue'
  <2>1. \A x \in Requests : x \in Waiting' => x \in Waiting \/ outcome[x] = "new"
    BY <1>1, <1>3, <1>6, TailElements DEF Waiting, PumpsNothing, PumpsHead
  <2>2. \A x \in Requests : outcome[x] # "new" => outcome'[x] # "new"
    BY <1>1 DEF TypeOK
  <2> QED BY <1>1, <1>3, <1>12, <2>1, <2>2, MailStaysTrue
<1>14. AnswersAreOwn'
  BY <1>1, <1>6 DEF AnswersAreOwn, TypeOK, PumpsNothing, PumpsHead, OneAtATime
<1> QED BY <1>8, <1>9, <1>10, <1>11, <1>12, <1>13, <1>14

\* query() refuses a request.
LEMMA RefusedKeeps ==
  ASSUME StoreInv, NEW r \in Requests, QueryRefused(r)
  PROVE  StoreInv'
<1> USE DEF StoreInv
<1>1. /\ outcome[r] = "new" /\ outcome' = [outcome EXCEPT ![r] = "refused"]
      /\ UNCHANGED <<rowsOf, mainVars, thread, mail>>
  BY DEF QueryRefused
<1>2. Unsettled' = Unsettled /\ Waiting' = Waiting
  BY <1>1 DEF Unsettled, Waiting, TypeOK, mainVars
<1>3. TypeOK'
  BY <1>1 DEF TypeOK, mainVars
<1>4. Placed' /\ Account' /\ Owned'
  BY <1>1, <1>2 DEF Placed, Account, Owned, mainVars, Bytes
<1>5. OneAtATime' /\ ThreadsKnow'
  BY <1>1 DEF OneAtATime, ThreadsKnow, Alive, mainVars
<1>6. MailIsTrue'
  <2>1. /\ \A x \in Requests : outcome[x] # "new" => outcome'[x] # "new"
        /\ mail' = mail /\ thread' = thread
    BY <1>1 DEF TypeOK
  <2> QED BY <1>2, <2>1, MailStaysTrue
<1>7. AnswersAreOwn'
  BY <1>1 DEF AnswersAreOwn, TypeOK, mainVars
<1> QED BY <1>3, <1>4, <1>5, <1>6, <1>7

\* The worker is given up: for a deadline, an abort, or because it died.
LEMMA FailActiveKeeps ==
  ASSUME StoreInv, worker # None, FailActive, queryTimers' \in SUBSET queryTimers
  PROVE  StoreInv'
<1> USE DEF StoreInv
<1>1. /\ active' = None /\ failing' = active /\ worker' = None /\ stopping' = worker
      /\ UNCHANGED <<outcome, rowsOf, queue, admittedBytes, closing, closed, thread, mail>>
  BY DEF FailActive, answerVars
<1>2. stopping = None /\ failing = None
  BY DEF OneAtATime, Owned
<1>3. Unsettled' = Unsettled /\ Waiting' = Waiting
  BY <1>1 DEF Unsettled, Waiting
<1>4. TypeOK'
  BY <1>1 DEF TypeOK
<1>5. Placed' /\ Account' /\ Owned'
  BY <1>1, <1>2, <1>3 DEF Placed, Account, Owned, Bytes
<1>6. OneAtATime' /\ ThreadsKnow'
  BY <1>1, <1>2 DEF OneAtATime, ThreadsKnow, Alive
<1>7. MailIsTrue'
  BY <1>1, <1>3, MailStaysTrue
<1>8. AnswersAreOwn'
  BY <1>1, <1>2 DEF AnswersAreOwn, TypeOK
<1> QED BY <1>4, <1>5, <1>6, <1>7, <1>8

\* A request that waits is given up.
LEMMA CancelKeeps ==
  ASSUME StoreInv, NEW r \in Requests, DeadlineOrAbort(r)
  PROVE  StoreInv'
<1> USE DEF StoreInv
<1>1. CASE active = r /\ FailActive /\ UNCHANGED queryTimers
  BY <1>1, FailActiveKeeps, ConstantsAssumption DEF Owned
<1>2. ASSUME NEW i \in DOMAIN queue, active # r, queue[i] = r,
             queue' = RemoveAt(queue, i), Settle({r}, "failed"),
             UNCHANGED <<rowsOf, active, worker, closing, stopping, failing, closed,
                         thread, mail>>
      PROVE  StoreInv'
  <2>1. /\ queue' \in Seq(Requests) /\ ToSet(queue') = Waiting \ {r} /\ IsInjective(queue')
    BY <1>2, RemoveElements DEF TypeOK, Placed, Waiting
  <2>2. r \in Waiting
    BY <1>2 DEF Waiting, ToSet
  <2>3. {r} \in SUBSET Unsettled
    BY <2>2 DEF Placed
  <2>4. /\ outcome' \in [Requests -> {"new", "admitted", "refused", "rows", "failed"}]
        /\ admittedBytes' \in Nat /\ queryTimers' \in SUBSET Requests
        /\ Unsettled' = Unsettled \ {r}
        /\ Account'
        /\ \A x \in Requests : outcome[x] # "new" => outcome'[x] # "new"
        /\ \A x \in Requests : outcome'[x] = "rows" => outcome[x] = "rows"
    BY <1>2, <2>3, SettleEffect
  <2>5. Waiting' = Waiting \ {r}
    BY <2>1 DEF Waiting
  <2>6. TypeOK'
    BY <1>2, <2>1, <2>4 DEF TypeOK
  <2>7. Placed'
    BY <1>2, <2>1, <2>2, <2>4, <2>5 DEF Placed
  <2>8. OneAtATime' /\ ThreadsKnow' /\ Owned'
    <3>1. queue = <<>> => queue' = <<>>
      BY <2>2, ElementsEmpty DEF Waiting
    <3> QED BY <1>2, <3>1, <2>2, ElementsEmpty
              DEF OneAtATime, ThreadsKnow, Alive, Owned, Waiting
  <2>9. MailIsTrue'
    BY <1>2, <2>4, <2>5, MailStaysTrue
  <2>10. AnswersAreOwn'
    BY <1>2, <2>4 DEF AnswersAreOwn, Settle
  <2> QED BY <2>4, <2>6, <2>7, <2>8, <2>9, <2>10
<1> QED BY <1>1, <1>2 DEF DeadlineOrAbort, Cancel

\* The timer of a query fires.
LEMMA QueryDeadlineKeeps ==
  ASSUME StoreInv, NEW r \in Requests, QueryDeadline(r)
  PROVE  StoreInv'
<1>1. CASE active # None
  BY <1>1, FailActiveKeeps DEF QueryDeadline, StoreInv, Owned
<1>2. CASE active = None
  <2> USE DEF StoreInv
  <2>1. /\ queryTimers' = queryTimers \ {r}
        /\ UNCHANGED <<outcome, rowsOf, queue, active, worker, closing, stopping,
                       admittedBytes, failing, closed, thread, mail>>
    BY <1>2 DEF QueryDeadline, answerVars
  <2>2. Unsettled' = Unsettled /\ Waiting' = Waiting
    BY <2>1 DEF Unsettled, Waiting
  <2>3. TypeOK'
    BY <2>1 DEF TypeOK
  <2>4. Placed' /\ Account' /\ Owned' /\ OneAtATime' /\ ThreadsKnow'
    BY <2>1, <2>2
       DEF Placed, Account, Owned, Bytes, OneAtATime, ThreadsKnow, Alive
  <2>5. MailIsTrue'
    BY <2>1, <2>2, MailStaysTrue
  <2>6. AnswersAreOwn'
    BY <2>1 DEF AnswersAreOwn
  <2> QED BY <2>3, <2>4, <2>5, <2>6
<1> QED BY <1>1, <1>2

\* Handling a message takes it out of the sender's mailbox.
LEMMA MailShrinks ==
  ASSUME TypeOK, NEW w \in Requests, mail[w] # <<>>,
         mail' = [mail EXCEPT ![w] = Tail(@)]
  PROVE  /\ mail' \in [Requests -> Seq(MessageSet)]
         /\ \A v \in Requests : ToSet(mail'[v]) \subseteq ToSet(mail[v])
         /\ Head(mail[w]) \in MessageSet /\ Head(mail[w]) \in ToSet(mail[w])
<1>1. mail[w] \in Seq(MessageSet)
  BY DEF TypeOK
<1>2. /\ Head(mail[w]) \in MessageSet /\ Tail(mail[w]) \in Seq(MessageSet)
      /\ ToSet(mail[w]) = ToSet(Tail(mail[w])) \cup {Head(mail[w])}
  BY <1>1, TailElements
<1> QED BY <1>2 DEF TypeOK

\* A message that is not about the active request of the current worker, or one that
\* says the query has started.
LEMMA NoteKeeps ==
  ASSUME StoreInv, NEW w \in Requests, mail[w] # <<>>,
         mail' = [mail EXCEPT ![w] = Tail(@)],
         queryTimers' \in SUBSET (queryTimers \cup ({active} \ {None})),
         UNCHANGED <<outcome, rowsOf, queue, active, worker, closing, stopping,
                     admittedBytes, failing, closed, thread>>
  PROVE  StoreInv'
<1> USE DEF StoreInv
<1>1. /\ mail' \in [Requests -> Seq(MessageSet)]
      /\ \A v \in Requests : ToSet(mail'[v]) \subseteq ToSet(mail[v])
  BY MailShrinks
<1>2. Unsettled' = Unsettled /\ Waiting' = Waiting
  BY DEF Unsettled, Waiting
<1>3. TypeOK'
  BY <1>1 DEF TypeOK
<1>4. Placed' /\ Account' /\ Owned' /\ OneAtATime' /\ ThreadsKnow'
  BY <1>2 DEF Placed, Account, Owned, Bytes, OneAtATime, ThreadsKnow, Alive
<1>5. MailIsTrue'
  BY <1>1, <1>2, MailStaysTrue
<1>6. AnswersAreOwn'
  BY DEF AnswersAreOwn
<1> QED BY <1>3, <1>4, <1>5, <1>6

\* The current worker answers the active request, and the next one starts.
LEMMA AnswerKeeps ==
  ASSUME StoreInv, NEW w \in Requests, mail[w] # <<>>,
         mail' = [mail EXCEPT ![w] = Tail(@)],
         NEW m, m = Head(mail[w]), IsCurrent(w, m), NEW how \in {"rows", "failed"},
         \/ /\ m.kind = "rows" /\ how = "rows"
            /\ rowsOf' = [rowsOf EXCEPT ![active] =
                            [request |-> m.request, dataset |-> m.dataset]]
         \/ m.kind = "error" /\ how = "failed" /\ rowsOf' = rowsOf,
         Settle({active}, how), Pump(queue, None, worker, stopping),
         UNCHANGED <<closing, stopping, failing, closed>>
  PROVE  StoreInv'
<1> USE ConstantsAssumption DEF StoreInv
<1>1. /\ mail' \in [Requests -> Seq(MessageSet)]
      /\ \A v \in Requests : ToSet(mail'[v]) \subseteq ToSet(mail[v])
      /\ m \in MessageSet /\ m \in ToSet(mail[w])
  BY MailShrinks
<1>2. /\ worker = w /\ active # None /\ m.request = active /\ active \in Requests
      /\ stopping = None /\ failing = None
  BY DEF IsCurrent, TypeOK, OneAtATime, Owned
<1>3. /\ m.kind = "rows" => m.dataset = DatasetOf[active]
      /\ thread[w].job # active
  BY <1>1, <1>2 DEF MailIsTrue
<1>4. thread[w].job = None
  BY <1>2, <1>3 DEF OneAtATime, Alive
<1>5. {active} \in SUBSET Unsettled
  BY <1>2 DEF Placed
<1>6. /\ outcome' \in [Requests -> {"new", "admitted", "refused", "rows", "failed"}]
      /\ admittedBytes' \in Nat /\ queryTimers' \in SUBSET Requests
      /\ Unsettled' = Unsettled \ {active}
      /\ Account'
      /\ \A x \in Requests : outcome[x] # "new" => outcome'[x] # "new"
      /\ \A x \in Requests : outcome'[x] = "rows" =>
           outcome[x] = "rows" \/ (x \in {active} /\ how = "rows")
  BY <1>5, SettleEffect
<1>7. /\ queue \in Seq(Requests) /\ IsInjective(queue) /\ None \notin ToSet(queue)
      /\ worker \in Requests \cup {None} /\ thread \in [Requests -> Threads]
  <2>1. queue \in Seq(Requests)
    BY DEF TypeOK
  <2>2. None \notin ToSet(queue)
    BY <2>1, ElementsType
  <2> QED BY <2>1, <2>2 DEF TypeOK, Placed, Threads
<1>8. /\ PumpsNothing(queue, None, worker, stopping) \/ PumpsHead(queue, None, worker, stopping)
      /\ queue' \in Seq(Requests) /\ IsInjective(queue')
      /\ active' \in Requests \cup {None} /\ worker' \in Requests \cup {None}
      /\ thread' \in [Requests -> Threads]
      /\ active' \notin ToSet(queue')
      /\ ToSet(queue) \cup ({None} \ {None}) = ToSet(queue') \cup ({active'} \ {None})
  BY <1>7, PumpEffect
<1>9. rowsOf' \in [Requests -> [request : Requests,
                                dataset : Datasets \cup {None, "partial"}] \cup {None}]
  <2>1. [request |-> m.request, dataset |-> m.dataset]
          \in [request : Requests, dataset : Datasets \cup {None, "partial"}]
    BY <1>1 DEF MessageSet
  <2>2. rowsOf \in [Requests -> [request : Requests,
                                dataset : Datasets \cup {None, "partial"}] \cup {None}]
    BY DEF TypeOK
  <2> QED BY <1>2, <2>1, <2>2
<1>10. TypeOK'
  BY <1>1, <1>6, <1>8, <1>9 DEF TypeOK, Threads
<1>11. Waiting' = ToSet(queue') /\ Waiting' \subseteq Waiting
  BY <1>8 DEF Waiting
<1>12. Placed'
  <2>1. None \notin ToSet(queue')
    BY <1>8, ElementsType
  <2> QED BY <1>2, <1>6, <1>8, <1>11, <2>1 DEF Placed, Waiting
<1>13. OneAtATime' /\ Owned'
  <2>1. /\ queue # <<>> => Head(queue) \in Requests
        /\ closing => queue = <<>> /\ worker = None
    BY <1>7, TailElements DEF Owned
  <2>2. \A v \in Requests : v \in {worker, stopping} /\ thread[v].job # None
                              => thread[v].job \in {None, failing'}
    BY <1>2, <1>4
  <2> QED BY <1>2, <1>7, <1>8, <2>1, <2>2, PumpKeepsOrder
<1>14. ThreadsKnow' /\ \A v \in Requests :
         thread'[v].job = thread[v].job \/ thread'[v].job \in ToSet(queue)
  BY <1>7, <1>8, PumpKeepsThreads
<1>15. MailIsTrue'
  BY <1>1, <1>6, <1>11, <1>14, MailStaysTrue DEF Waiting
<1>16. AnswersAreOwn'
  BY <1>2, <1>3, <1>6 DEF AnswersAreOwn, Settle, TypeOK
<1> QED BY <1>6, <1>10, <1>12, <1>13, <1>14, <1>15, <1>16

\* The main thread handles a message.
LEMMA MessageKeeps ==
  ASSUME StoreInv, NEW w \in Requests, Message(w)
  PROVE  StoreInv'
<1> DEFINE m == Head(mail[w])
<1>1. mail[w] # <<>> /\ mail' = [mail EXCEPT ![w] = Tail(@)]
  BY DEF Message
<1>2. m \in MessageSet
  BY <1>1, MailShrinks DEF StoreInv
<1>3. CASE ~IsCurrent(w, m)
  BY <1>1, <1>3, NoteKeeps DEF Message, answerVars, mainVars
<1>4. CASE IsCurrent(w, m) /\ m.kind = "query_started"
  <2>1. active # None
    BY <1>4 DEF IsCurrent
  <2>2. /\ queryTimers' = queryTimers \cup {active}
        /\ UNCHANGED <<outcome, rowsOf, queue, active, worker, closing, stopping,
                       admittedBytes, failing, closed, thread>>
    BY <1>4 DEF Message, answerVars
  <2> QED BY <1>1, <2>1, <2>2, NoteKeeps
<1>5. CASE IsCurrent(w, m) /\ m.kind = "rows"
  <2>1. /\ Settle({active}, "rows") /\ Pump(queue, None, worker, stopping)
        /\ rowsOf' = [rowsOf EXCEPT ![active] =
                        [request |-> m.request, dataset |-> m.dataset]]
        /\ UNCHANGED <<closing, stopping, failing, closed>>
    BY <1>5 DEF Message
  <2> QED BY <1>1, <1>5, <2>1, AnswerKeeps
<1>6. CASE IsCurrent(w, m) /\ m.kind = "error"
  <2>1. /\ Settle({active}, "failed") /\ Pump(queue, None, worker, stopping)
        /\ UNCHANGED <<rowsOf, closing, stopping, failing, closed>>
    BY <1>6 DEF Message
  <2> QED BY <1>1, <1>6, <2>1, AnswerKeeps
<1> QED BY <1>2, <1>3, <1>4, <1>5, <1>6 DEF MessageSet

\* The worker that was given up is gone.
LEMMA TerminatedKeeps == ASSUME StoreInv, WorkerTerminated PROVE StoreInv'
<1> USE ConstantsAssumption DEF StoreInv
<1>1. /\ stopping # None /\ stopping' = None /\ failing' = None
      /\ Pump(queue, active, worker, None) /\ Settle({failing} \ {None}, "failed")
      /\ UNCHANGED <<rowsOf, closing, closed, mail>>
  BY DEF WorkerTerminated
<1>2. active = None /\ worker = None
  BY <1>1 DEF OneAtATime
<1>3. {failing} \ {None} \in SUBSET Unsettled
  BY DEF Placed
<1>4. /\ outcome' \in [Requests -> {"new", "admitted", "refused", "rows", "failed"}]
      /\ admittedBytes' \in Nat /\ queryTimers' \in SUBSET Requests
      /\ Unsettled' = Unsettled \ ({failing} \ {None})
      /\ Account'
      /\ \A x \in Requests : outcome[x] # "new" => outcome'[x] # "new"
      /\ \A x \in Requests : outcome'[x] = "rows" => outcome[x] = "rows"
  BY <1>1, <1>3, SettleEffect
<1>5. /\ queue \in Seq(Requests) /\ IsInjective(queue) /\ None \notin ToSet(queue)
      /\ thread \in [Requests -> Threads]
  <2>1. queue \in Seq(Requests)
    BY DEF TypeOK
  <2>2. None \notin ToSet(queue)
    BY <2>1, ElementsType
  <2> QED BY <2>1, <2>2 DEF TypeOK, Placed, Threads
<1>6. /\ PumpsNothing(queue, None, None, None) \/ PumpsHead(queue, None, None, None)
      /\ queue' \in Seq(Requests) /\ IsInjective(queue')
      /\ active' \in Requests \cup {None} /\ worker' \in Requests \cup {None}
      /\ thread' \in [Requests -> Threads]
      /\ active' \notin ToSet(queue')
      /\ ToSet(queue) \cup ({None} \ {None}) = ToSet(queue') \cup ({active'} \ {None})
  BY <1>1, <1>2, <1>5, PumpEffect
<1>7. TypeOK'
  BY <1>1, <1>4, <1>6 DEF TypeOK, Threads
<1>8. Waiting' = ToSet(queue') /\ Waiting' \subseteq Waiting
  BY <1>6 DEF Waiting
<1>9. Placed'
  <2>1. None \notin ToSet(queue')
    BY <1>6, ElementsType
  <2>2. failing \notin ToSet(queue)
    BY DEF Placed, Waiting
  <2>3. Unsettled' = ToSet(queue)
    BY <1>2, <1>4, <1>5, <2>2 DEF Placed, Waiting
  <2>4. Unsettled' = Waiting' \cup ({active', failing'} \ {None})
    BY <1>1, <1>6, <1>8, <2>3
  <2> QED BY <1>1, <1>6, <1>8, <2>1, <2>4 DEF Placed
<1>10. OneAtATime' /\ Owned'
  <2>1. /\ queue # <<>> => Head(queue) \in Requests
        /\ closing => queue = <<>>
    BY <1>5, TailElements DEF Owned
  <2> QED BY <1>1, <1>5, <1>6, <2>1, PumpKeepsOrder
<1>11. ThreadsKnow' /\ \A v \in Requests :
         thread'[v].job = thread[v].job \/ thread'[v].job \in ToSet(queue)
  BY <1>5, <1>6, PumpKeepsThreads
<1>12. MailIsTrue'
  BY <1>1, <1>4, <1>8, <1>11, MailStaysTrue DEF Waiting
<1>13. AnswersAreOwn'
  BY <1>1, <1>2, <1>4 DEF AnswersAreOwn, Settle, TypeOK
<1> QED BY <1>4, <1>7, <1>9, <1>10, <1>11, <1>12, <1>13

\* close() is called.
LEMMA CloseKeeps == ASSUME StoreInv, Close PROVE StoreInv'
<1> USE ConstantsAssumption DEF StoreInv
<1>1. /\ closing' = TRUE /\ Settle(Waiting, "failed") /\ queue' = <<>>
      /\ active' = None /\ worker' = None
      /\ stopping' = IF worker # None THEN worker ELSE stopping
      /\ failing' = IF active # None THEN active ELSE failing
      /\ UNCHANGED <<rowsOf, closed, thread, mail>>
  BY DEF Close, Waiting
<1>2. Waiting \in SUBSET Unsettled
  BY DEF Placed
<1>3. /\ outcome' \in [Requests -> {"new", "admitted", "refused", "rows", "failed"}]
      /\ admittedBytes' \in Nat /\ queryTimers' \in SUBSET Requests
      /\ Unsettled' = Unsettled \ Waiting
      /\ Account'
      /\ \A x \in Requests : outcome[x] # "new" => outcome'[x] # "new"
      /\ \A x \in Requests : outcome'[x] = "rows" => outcome[x] = "rows"
  BY <1>1, <1>2, SettleEffect
<1>4. Waiting' = {} /\ IsInjective(queue')
  BY <1>1, ElementsEmpty DEF Waiting
<1>5. active # None => worker # None /\ stopping = None /\ failing = None
  BY DEF Owned, OneAtATime
<1>6. worker # None => stopping = None /\ failing = None
  BY DEF Owned, OneAtATime
<1>7. TypeOK'
  BY <1>1, <1>3 DEF TypeOK
<1>8. Placed'
  BY <1>1, <1>3, <1>4, <1>5 DEF Placed
<1>9. Owned' /\ ThreadsKnow'
  BY <1>1, <1>5 DEF Owned, ThreadsKnow
<1>10. OneAtATime'
  <2>1. ASSUME NEW v \in Requests, Alive(v)', thread[v].job # None
        PROVE  thread[v].job = failing'
    <3>1. Alive(v)
      BY <1>1, <2>1 DEF Alive
    <3> QED BY <1>1, <1>5, <1>6, <2>1, <3>1 DEF OneAtATime, Alive
  <2> QED BY <1>1, <2>1 DEF OneAtATime
<1>11. MailIsTrue'
  BY <1>1, <1>3, <1>4, MailStaysTrue
<1>12. AnswersAreOwn'
  BY <1>1, <1>3, <1>5 DEF AnswersAreOwn, Settle, TypeOK
<1> QED BY <1>3, <1>7, <1>8, <1>9, <1>10, <1>11, <1>12

\* The promise of close() resolves.
LEMMA ClosedKeeps == ASSUME StoreInv, CloseResolves PROVE StoreInv'
<1> USE DEF StoreInv
<1>1. /\ closed' = TRUE
      /\ UNCHANGED <<outcome, rowsOf, queue, active, worker, closing, stopping,
                     admittedBytes, failing, queryTimers, thread, mail>>
  BY DEF CloseResolves, answerVars
<1>2. Unsettled' = Unsettled /\ Waiting' = Waiting
  BY <1>1 DEF Unsettled, Waiting
<1>3. TypeOK'
  BY <1>1 DEF TypeOK
<1>4. Placed' /\ Account' /\ Owned' /\ OneAtATime' /\ ThreadsKnow' /\ AnswersAreOwn'
  BY <1>1, <1>2
     DEF Placed, Account, Owned, Bytes, OneAtATime, ThreadsKnow, Alive, AnswersAreOwn
<1>5. MailIsTrue'
  BY <1>1, <1>2, MailStaysTrue
<1> QED BY <1>3, <1>4, <1>5

\* A step of a worker thread: it changes its own record, gives up its job or keeps it,
\* and may post a message about it.
LEMMA ThreadStepKeeps ==
  ASSUME StoreInv, NEW w \in Requests, Alive(w), NEW t \in Threads,
         thread[w].job # None, t.job \in {None, thread[w].job},
         t.stage = "idle" <=> t.job = None,
         t.loadedKey # None => t.store = t.loadedKey,
         t.stage = "executing" => t.loadedKey = DatasetOf[t.job],
         thread' = [thread EXCEPT ![w] = t],
         \/ mail' = mail
         \/ \E m \in MessageSet :
              /\ mail' = [mail EXCEPT ![w] = Append(@, m)]
              /\ m.request = thread[w].job
              /\ m.kind = "rows" => m.dataset = DatasetOf[m.request]
              /\ m.kind \in {"rows", "error"} => t.job = None,
         UNCHANGED <<answerVars, mainVars>>
  PROVE  StoreInv'
<1> USE ConstantsAssumption DEF StoreInv
<1>1. UNCHANGED <<outcome, rowsOf, queue, active, worker, closing, stopping,
                  admittedBytes, failing, queryTimers, closed>>
  BY DEF answerVars, mainVars
<1>2. Unsettled' = Unsettled /\ Waiting' = Waiting
  BY <1>1 DEF Unsettled, Waiting
<1>3. /\ thread \in [Requests -> Threads] /\ mail \in [Requests -> Seq(MessageSet)]
      /\ thread[w].job \in Requests
  BY DEF TypeOK, Threads
<1>4. thread[w].job \in Unsettled /\ thread[w].job \notin Waiting
  BY <1>3 DEF OneAtATime, Placed
<1>5. outcome[thread[w].job] = "admitted"
  BY <1>4 DEF Unsettled
<1>6. mail' \in [Requests -> Seq(MessageSet)]
      /\ \A v \in Requests : \A m \in ToSet(mail'[v]) : \/ m \in ToSet(mail[v])
           \/ /\ v = w /\ m.request = thread[w].job
              /\ m.kind = "rows" => m.dataset = DatasetOf[m.request]
              /\ m.kind \in {"rows", "error"} => t.job = None
  <2>1. CASE mail' = mail
    BY <1>3, <2>1
  <2>2. ASSUME NEW m \in MessageSet,
               mail' = [mail EXCEPT ![w] = Append(@, m)],
               m.request = thread[w].job,
               m.kind = "rows" => m.dataset = DatasetOf[m.request],
               m.kind \in {"rows", "error"} => t.job = None
        PROVE  <1>6!:
    <3>1. mail[w] \in Seq(MessageSet)
      BY <1>3
    <3>2. /\ Append(mail[w], m) \in Seq(MessageSet)
          /\ ToSet(Append(mail[w], m)) = ToSet(mail[w]) \cup {m}
      BY <3>1, AppendElements
    <3> QED BY <1>3, <2>2, <3>2
  <2> QED BY <2>1, <2>2
<1>7. TypeOK'
  <2>1. thread' \in [Requests -> Threads]
    BY <1>3
  <2> QED BY <1>1, <1>6, <2>1 DEF TypeOK, Threads
<1>8. Placed' /\ Account' /\ Owned' /\ AnswersAreOwn'
  BY <1>1, <1>2 DEF Placed, Account, Owned, Bytes, AnswersAreOwn
<1>9. OneAtATime' /\ ThreadsKnow'
  BY <1>1, <1>3 DEF OneAtATime, ThreadsKnow, Alive
<1>10. MailIsTrue'
  <2> SUFFICES ASSUME NEW v \in Requests, NEW m \in ToSet(mail'[v])
               PROVE  /\ outcome[m.request] # "new" /\ m.request \notin Waiting
                      /\ m.kind = "rows" => m.dataset = DatasetOf[m.request]
                      /\ m.kind \in {"rows", "error"} => thread'[v].job # m.request
    BY <1>1, <1>2 DEF MailIsTrue
  <2>1. thread'[v].job \in {None, thread[v].job}
    BY <1>3
  <2>2. CASE m \in ToSet(mail[v])
    <3>1. mail[v] \in Seq(MessageSet)
      BY <1>3
    <3>2. m \in MessageSet
      BY <2>2, <3>1, ElementsType
    <3>3. m.request \in Requests
      BY <3>2 DEF MessageSet
    <3> QED BY <2>1, <2>2, <3>3 DEF MailIsTrue
  <2>3. CASE m \notin ToSet(mail[v])
    <3>1. /\ v = w /\ m.request = thread[w].job
          /\ m.kind = "rows" => m.dataset = DatasetOf[m.request]
          /\ m.kind \in {"rows", "error"} => t.job = None
      BY <1>6, <2>3
    <3> QED BY <1>3, <1>4, <1>5, <3>1
  <2> QED BY <2>2, <2>3
<1> QED BY <1>7, <1>8, <1>9, <1>10

\* The thread fills its store, or fails to.
LEMMA LoadsKeeps ==
  ASSUME StoreInv, NEW w \in Requests, WorkerLoads(w)
  PROVE  StoreInv'
<1> USE ConstantsAssumption
<1> DEFINE t == thread[w]
           full == [t EXCEPT !.loadedKey = DatasetOf[t.job], !.store = DatasetOf[t.job]]
           partial == [t EXCEPT !.loadedKey = KeyWhileLoading(t), !.store = "partial",
                                !.job = None, !.stage = "idle"]
<1>1. /\ Alive(w) /\ t.stage = "posted" /\ t.loadedKey # DatasetOf[t.job]
      /\ UNCHANGED <<answerVars, mainVars>>
  BY DEF WorkerLoads
<1>2. t \in Threads /\ t.job # None /\ t.job \in Requests /\ DatasetOf[t.job] \in Datasets
  BY <1>1 DEF StoreInv, TypeOK, ThreadsKnow, Threads
<1>3. CASE thread' = [thread EXCEPT ![w] = full] /\ mail' = mail
  <2>1. /\ full \in Threads /\ full.job = t.job /\ full.stage = "posted"
        /\ full.store = full.loadedKey
    BY <1>1, <1>2 DEF Threads
  <2> HIDE DEF full
  <2> QED BY <1>1, <1>2, <1>3, <2>1, ThreadStepKeeps
<1>4. CASE thread' = [thread EXCEPT ![w] = partial] /\ Post(w, Error(t.job))
  <2>1. /\ partial \in Threads /\ partial.job = None /\ partial.stage = "idle"
        /\ partial.loadedKey = None
    BY <1>1, <1>2 DEF Threads, KeyWhileLoading
  <2>2. /\ Error(t.job) \in MessageSet /\ Error(t.job).request = t.job
        /\ Error(t.job).kind = "error"
    BY <1>2 DEF Error, MessageSet
  <2>3. mail' = [mail EXCEPT ![w] = Append(@, Error(t.job))]
    BY <1>4 DEF Post
  <2> HIDE DEF partial
  <2> QED BY <1>1, <1>2, <1>4, <2>1, <2>2, <2>3, ThreadStepKeeps
<1> QED BY <1>3, <1>4 DEF WorkerLoads

\* The thread starts its query and says so.
LEMMA StartsKeeps ==
  ASSUME StoreInv, NEW w \in Requests, WorkerStarts(w)
  PROVE  StoreInv'
<1> USE ConstantsAssumption
<1> DEFINE t == thread[w]
           u == [t EXCEPT !.stage = "executing"]
           m == Started(t.job)
<1>1. /\ Alive(w) /\ t.stage = "posted" /\ t.loadedKey = DatasetOf[t.job]
      /\ thread' = [thread EXCEPT ![w] = u]
      /\ mail' = [mail EXCEPT ![w] = Append(@, m)]
      /\ UNCHANGED <<answerVars, mainVars>>
  BY DEF WorkerStarts, Post
<1>2. /\ t \in Threads /\ t.job # None /\ t.job \in Requests
      /\ t.loadedKey # None => t.store = t.loadedKey
  BY <1>1 DEF StoreInv, TypeOK, ThreadsKnow, Threads
<1>3. /\ u \in Threads /\ u.job = t.job /\ u.stage = "executing"
      /\ u.loadedKey = t.loadedKey /\ u.store = t.store
  BY <1>2 DEF Threads
<1>4. m \in MessageSet /\ m.request = t.job /\ m.kind = "query_started"
  BY <1>2 DEF Started, MessageSet
<1> HIDE DEF u, m
<1> QED BY <1>1, <1>2, <1>3, <1>4, ThreadStepKeeps

\* The thread replies: with rows over its store, or with an error.
LEMMA RepliesKeeps ==
  ASSUME StoreInv, NEW w \in Requests, WorkerReplies(w)
  PROVE  StoreInv'
<1> USE ConstantsAssumption
<1> DEFINE t == thread[w]
           u == [t EXCEPT !.stage = "idle", !.job = None]
<1>1. PICK m \in {Rows(t.job, t.store), Error(t.job)} :
        mail' = [mail EXCEPT ![w] = Append(@, m)]
  BY DEF WorkerReplies, Post
<1>2. /\ Alive(w) /\ t.stage = "executing" /\ thread' = [thread EXCEPT ![w] = u]
      /\ UNCHANGED <<answerVars, mainVars>>
  BY DEF WorkerReplies
<1>3. /\ t \in Threads /\ t.job # None /\ t.job \in Requests
      /\ t.loadedKey # None => t.store = t.loadedKey
      /\ t.loadedKey = DatasetOf[t.job] /\ DatasetOf[t.job] \in Datasets
  BY <1>2 DEF StoreInv, TypeOK, ThreadsKnow, Threads
<1>4. /\ u \in Threads /\ u.job = None /\ u.stage = "idle"
      /\ u.loadedKey = t.loadedKey /\ u.store = t.store
  BY <1>3 DEF Threads
<1>5. /\ m \in MessageSet /\ m.request = t.job
      /\ m.kind = "rows" => m.dataset = DatasetOf[m.request]
  <2>1. CASE m = Rows(t.job, t.store)
    BY <1>3, <2>1 DEF Rows, MessageSet, Threads
  <2>2. CASE m = Error(t.job)
    BY <1>3, <2>2 DEF Error, MessageSet
  <2> QED BY <1>1, <2>1, <2>2
<1> HIDE DEF u
<1> QED BY <1>1, <1>2, <1>3, <1>4, <1>5, ThreadStepKeeps

\* Every step preserves the invariant.
LEMMA StoreStep == StoreInv /\ [Next]_vars => StoreInv'
<1> SUFFICES ASSUME StoreInv, [Next]_vars PROVE StoreInv'
  OBVIOUS
<1>1. ASSUME NEW r \in Requests, QueryRefused(r) PROVE StoreInv'
  BY <1>1, RefusedKeeps
<1>2. ASSUME NEW r \in Requests, QueryAdmitted(r) PROVE StoreInv'
  BY <1>2, AdmittedKeeps
<1>3. ASSUME NEW r \in Requests, DeadlineOrAbort(r) PROVE StoreInv'
  BY <1>3, CancelKeeps
<1>4. ASSUME NEW r \in Requests, QueryDeadline(r) PROVE StoreInv'
  BY <1>4, QueryDeadlineKeeps
<1>5. ASSUME NEW w \in Requests, Message(w) PROVE StoreInv'
  BY <1>5, MessageKeeps
<1>6. ASSUME NEW w \in Requests, WorkerLoads(w) PROVE StoreInv'
  BY <1>6, LoadsKeeps
<1>7. ASSUME NEW w \in Requests, WorkerStarts(w) PROVE StoreInv'
  BY <1>7, StartsKeeps
<1>8. ASSUME NEW w \in Requests, WorkerReplies(w) PROVE StoreInv'
  BY <1>8, RepliesKeeps
<1>9. CASE WorkerDies
  BY <1>9, FailActiveKeeps DEF WorkerDies
<1>10. CASE WorkerTerminated
  BY <1>10, TerminatedKeeps
<1>11. CASE Close
  BY <1>11, CloseKeeps
<1>12. CASE CloseResolves
  BY <1>12, ClosedKeeps
<1>13. CASE UNCHANGED vars
  BY <1>13
     DEF StoreInv, vars, TypeOK, Placed, Account, Owned, OneAtATime, ThreadsKnow,
         MailIsTrue, AnswersAreOwn, Unsettled, Waiting, Alive, Bytes
<1> QED BY <1>1, <1>2, <1>3, <1>4, <1>5, <1>6, <1>7, <1>8, <1>9, <1>10, <1>11, <1>12,
           <1>13 DEF Next

-----------------------------------------------------------------------------
(* What follows.                                                            *)

\* The inductive invariant holds in every reachable state.
THEOREM StoreInvariance == Spec => []StoreInv
BY StoreInit, StoreStep, PTL DEF Spec

\* Types: no message, thread or account leaves its range, and admittedBytes is never
\* negative (settle releases what query() admitted, once).
THEOREM StoreTypeCorrect == Spec => []TypeOK
<1>1. StoreInv => TypeOK
  BY DEF StoreInv
<1> QED BY <1>1, StoreInvariance, PTL

\* An admitted request without an answer is in exactly one place, and the admission
\* account is the bytes of these requests and within its limit.
THEOREM StoreHoldsUnsettled == Spec => []UnsettledIsHeld
<1>1. StoreInv => UnsettledIsHeld
  BY DEF StoreInv, Placed, Account, UnsettledIsHeld
<1> QED BY <1>1, StoreInvariance, PTL

\* No sibling starts before the failed worker is gone, no thread works for an answered
\* request, and nothing waits for a free worker.
THEOREM StoreOneAtATime == Spec => []OneAtATime
<1>1. StoreInv => OneAtATime
  BY DEF StoreInv
<1> QED BY <1>1, StoreInvariance, PTL

\* Rows are of the request's own query over its own dataset, and a query timer never
\* outlives its request.
THEOREM StoreAnswersAreOwn == Spec => []AnswersAreOwn
<1>1. StoreInv => AnswersAreOwn
  BY DEF StoreInv
<1> QED BY <1>1, StoreInvariance, PTL

\* Once a request has its answer it keeps it: settle is reached once for each.
Answered(r) == outcome[r] \in {"refused", "rows", "failed"}
KeepsAnswer(r) == outcome'[r] = outcome[r] /\ rowsOf'[r] = rowsOf[r]
AnsweredOnce == [][\A r \in Requests : Answered(r) => KeepsAnswer(r)]_vars

\* settle only reaches requests that have no answer yet.
LEMMA SettleOnce ==
  ASSUME TypeOK, NEW rs \in SUBSET Unsettled, NEW how, Settle(rs, how),
         NEW r \in Requests, outcome[r] \in {"refused", "rows", "failed"}
  PROVE  outcome'[r] = outcome[r] /\ r \notin rs
BY DEF Settle, Unsettled, TypeOK

\* No answer is ever given twice, nor taken back: not by a late message, a deadline
\* that fires while the worker answers, or close().
THEOREM StoreAnswersOnce == Spec => AnsweredOnce
<1>1. ASSUME StoreInv, [Next]_vars, NEW r \in Requests,
             Answered(r)
      PROVE  KeepsAnswer(r)
  <2> USE <1>1 DEF StoreInv, Answered, KeepsAnswer
  <2>1. r \notin Unsettled /\ active # r
    BY ConstantsAssumption DEF Placed, Unsettled
  <2>2. ASSUME NEW x \in Requests, QueryRefused(x) PROVE KeepsAnswer(r)
    BY <2>2 DEF QueryRefused, TypeOK
  <2>3. ASSUME NEW x \in Requests, QueryAdmitted(x) PROVE KeepsAnswer(r)
    BY <2>3 DEF QueryAdmitted, TypeOK
  <2>4. ASSUME NEW x \in Requests, DeadlineOrAbort(x) PROVE KeepsAnswer(r)
    <3>1. CASE FailActive
      BY <3>1 DEF FailActive, answerVars
    <3>2. ASSUME NEW i \in DOMAIN queue, queue[i] = x, Settle({x}, "failed"),
                 rowsOf' = rowsOf
          PROVE  KeepsAnswer(r)
      <4>1. {x} \in SUBSET Unsettled
        BY <3>2 DEF Placed, Waiting, ToSet
      <4> QED BY <1>1, <3>2, <4>1, SettleOnce
    <3> QED BY <2>4, <3>1, <3>2 DEF DeadlineOrAbort, Cancel
  <2>5. ASSUME NEW x \in Requests, QueryDeadline(x) PROVE KeepsAnswer(r)
    BY <2>5 DEF QueryDeadline, FailActive, answerVars
  <2>6. ASSUME NEW w \in Requests, Message(w) PROVE KeepsAnswer(r)
    <3>1. CASE UNCHANGED answerVars
      BY <3>1 DEF answerVars
    <3>2. ASSUME NEW how, active # None, Settle({active}, how),
                 rowsOf' = rowsOf \/ \E v : rowsOf' = [rowsOf EXCEPT ![active] = v]
          PROVE  KeepsAnswer(r)
      <4>1. {active} \in SUBSET Unsettled
        BY <3>2 DEF Placed
      <4>2. outcome'[r] = outcome[r]
        BY <1>1, <3>2, <4>1, SettleOnce
      <4>3. rowsOf'[r] = rowsOf[r]
        BY <2>1, <3>2 DEF TypeOK
      <4> QED BY <4>2, <4>3
    <3>3. Head(mail[w]).kind \in {"query_started", "rows", "error"}
      BY <2>6, MailShrinks DEF Message, MessageSet
    <3> QED BY <2>6, <3>1, <3>2, <3>3 DEF Message, IsCurrent
  <2>7. ASSUME NEW w \in Requests, WorkerLoads(w) \/ WorkerStarts(w) \/ WorkerReplies(w)
        PROVE  KeepsAnswer(r)
    BY <2>7 DEF WorkerLoads, WorkerStarts, WorkerReplies, answerVars
  <2>8. CASE WorkerDies
    BY <2>8 DEF WorkerDies, FailActive, answerVars
  <2>9. CASE WorkerTerminated
    <3>1. {failing} \ {None} \in SUBSET Unsettled
      BY DEF Placed
    <3> QED BY <1>1, <2>9, <3>1, SettleOnce DEF WorkerTerminated
  <2>10. CASE Close
    <3>1. ToSet(queue) \in SUBSET Unsettled
      BY DEF Placed, Waiting
    <3> QED BY <1>1, <2>10, <3>1, SettleOnce DEF Close
  <2>11. CASE CloseResolves
    BY <2>11 DEF CloseResolves, answerVars
  <2>12. CASE UNCHANGED vars
    BY <2>12 DEF vars
  <2> QED BY <1>1, <2>2, <2>3, <2>4, <2>5, <2>6, <2>7, <2>8, <2>9, <2>10, <2>11, <2>12
          DEF Next
<1>2. StoreInv /\ [Next]_vars => \A r \in Requests : Answered(r) => KeepsAnswer(r)
  BY <1>1
<1> QED BY <1>2, StoreInvariance, PTL DEF Spec, AnsweredOnce

-----------------------------------------------------------------------------
(* The execution implements the service.                                    *)

\* The start of the service is the start of the execution.
LEMMA ServiceInit == Init => Service!Init
BY DEF Init, Service!Init

\* The service's account is the same sum.
LEMMA ServiceBytes == ASSUME NEW rs PROVE Service!Bytes(rs) = Bytes(rs)
BY DEF Bytes, Service!Bytes, SumFunctionOnSet, Service!SumFunctionOnSet,
       FoldFunctionOnSet, Service!FoldFunctionOnSet, MapThenFoldSet, Service!MapThenFoldSet

\* What settle does is what the service does.
LEMMA ServiceSettle ==
  ASSUME NEW rs, NEW how, Settle(rs, how)
  PROVE  Service!Settle(rs, how)
BY ServiceBytes DEF Settle, Service!Settle

\* What pump does is to start the next request.
LEMMA ServiceStartNext ==
  ASSUME NEW q \in Seq(Requests), NEW a \in Requests \cup {None}, NEW s,
         Pump(q, a, worker, s)
  PROVE  Service!StartNext(q, a, s # None)
<1>1. CASE closing \/ s # None \/ a # None \/ q = <<>>
  BY <1>1 DEF Pump, Service!StartNext
<1>2. CASE ~(closing \/ s # None \/ a # None \/ q = <<>>)
  <2>1. Head(q) \in Requests
    BY <1>2, TailElements
  <2>2. queue' = Tail(q) /\ active' = Head(q) /\ worker' # None
    BY <1>2, <2>1, ConstantsAssumption DEF Pump
  <2> QED BY <1>2, <2>2 DEF Service!StartNext
<1> QED BY <1>1, <1>2

\* Giving the worker up is losing it.
LEMMA ServiceLoseWorker ==
  ASSUME worker # None, FailActive
  PROVE  Service!LoseWorker
BY DEF FailActive, Service!LoseWorker, answerVars

\* Each step of the execution is a step of the service, or leaves what its callers see
\* unchanged.
LEMMA ServiceStep == StoreInv /\ [Next]_vars => [Service!Next]_(Service!serviceVars)
<1> SUFFICES ASSUME StoreInv, [Next]_vars
             PROVE  Service!Next \/ UNCHANGED Service!serviceVars
  OBVIOUS
<1> USE ConstantsAssumption
<1>1. ASSUME NEW r \in Requests, QueryRefused(r) PROVE Service!Refuse(r)
  BY <1>1 DEF QueryRefused, Service!Refuse, mainVars
<1>2. ASSUME NEW r \in Requests, QueryAdmitted(r) PROVE Service!Admit(r)
  <2>1. Append(queue, r) \in Seq(Requests) /\ active \in Requests \cup {None}
    BY DEF StoreInv, TypeOK
  <2>2. Pump(Append(queue, r), active, worker, stopping)
    BY <1>2 DEF QueryAdmitted
  <2>3. Service!StartNext(Append(queue, r), active, stopping # None)
    BY <2>1, <2>2, ServiceStartNext
  <2> QED BY <1>2, <2>3 DEF QueryAdmitted, Refused, Service!Admit, Service!Full
<1>3. ASSUME NEW r \in Requests, DeadlineOrAbort(r)
      PROVE  Service!LoseWorker \/ Service!Withdraw(r)
  <2>1. CASE active = r /\ FailActive
    BY <2>1, ServiceLoseWorker DEF StoreInv, Owned
  <2>2. ASSUME NEW i \in DOMAIN queue, queue[i] = r, queue' = RemoveAt(queue, i),
               Settle({r}, "failed"),
               UNCHANGED <<rowsOf, active, worker, closing, stopping, failing, closed,
                           thread, mail>>
        PROVE  Service!Withdraw(r)
    BY <2>2, ServiceSettle DEF Service!Withdraw, RemoveAt, Service!RemoveAt
  <2> QED BY <1>3, <2>1, <2>2 DEF DeadlineOrAbort, Cancel
<1>4. ASSUME NEW r \in Requests, QueryDeadline(r)
      PROVE  Service!LoseWorker \/ UNCHANGED Service!serviceVars
  BY <1>4, ServiceLoseWorker
     DEF QueryDeadline, StoreInv, Owned, Service!serviceVars, answerVars
<1>5. ASSUME NEW w \in Requests, Message(w)
      PROVE  Service!Answer \/ UNCHANGED Service!serviceVars
  <2> DEFINE m == Head(mail[w])
  <2>1. CASE ~IsCurrent(w, m)
    BY <1>5, <2>1 DEF Message, Service!serviceVars, answerVars, mainVars
  <2>2. CASE IsCurrent(w, m) /\ m.kind = "query_started"
    BY <1>5, <2>2 DEF Message, Service!serviceVars, answerVars
  <2>3. CASE IsCurrent(w, m) /\ m.kind \in {"rows", "error"}
    <3>1. PICK how \in {"rows", "failed"} : Settle({active}, how)
      BY <1>5, <2>3 DEF Message
    <3>2. /\ Pump(queue, None, worker, stopping) /\ active # None
          /\ UNCHANGED <<closing, stopping, failing>>
      BY <1>5, <2>3 DEF Message, IsCurrent
    <3>3. Service!StartNext(queue, None, stopping # None)
      BY <3>2, ServiceStartNext DEF StoreInv, TypeOK
    <3> QED BY <3>1, <3>2, <3>3, ServiceSettle DEF Service!Answer
  <2>4. m.kind \in {"query_started", "rows", "error"}
    BY <1>5, MailShrinks DEF Message, StoreInv, MessageSet
  <2> QED BY <2>1, <2>2, <2>3, <2>4
<1>6. ASSUME NEW w \in Requests, WorkerLoads(w) \/ WorkerStarts(w) \/ WorkerReplies(w)
      PROVE  UNCHANGED Service!serviceVars
  BY <1>6 DEF WorkerLoads, WorkerStarts, WorkerReplies, Service!serviceVars, answerVars,
              mainVars
<1>7. ASSUME WorkerDies PROVE Service!LoseWorker
  BY <1>7, ServiceLoseWorker DEF WorkerDies
<1>8. ASSUME WorkerTerminated PROVE Service!WorkerGone
  <2>1. Service!StartNext(queue, active, None # None)
    BY <1>8, ServiceStartNext DEF WorkerTerminated, StoreInv, TypeOK
  <2> QED BY <1>8, <2>1, ServiceSettle DEF WorkerTerminated, Service!WorkerGone
<1>9. ASSUME Close PROVE Service!Close
  <2>1. Service!Settle(Service!ToSet(queue), "failed")
    BY <1>9, ServiceSettle DEF Close, ToSet, Service!ToSet
  <2>2. /\ ~closing /\ closing' = TRUE /\ queue' = <<>> /\ active' = None
        /\ failing' = IF active # None THEN active ELSE failing
        /\ (worker # None)' = FALSE
        /\ worker # None => stopping' = worker
        /\ worker = None => stopping' = stopping
    BY <1>9 DEF Close
  <2> QED BY <2>1, <2>2 DEF Service!Close
<1>10. ASSUME CloseResolves PROVE UNCHANGED Service!serviceVars
  BY <1>10 DEF CloseResolves, Service!serviceVars, answerVars
<1>11. ASSUME UNCHANGED vars PROVE UNCHANGED Service!serviceVars
  BY <1>11 DEF vars, Service!serviceVars
<1> QED BY <1>1, <1>2, <1>3, <1>4, <1>5, <1>6, <1>7, <1>8, <1>9, <1>10, <1>11
        DEF Next, Service!Next

\* The threads, messages and timers implement the bounded first-come-first-served
\* service of StoreService.
THEOREM StoreImplementsService == Spec => ImplementsService
<1>1. Init => Service!Init
  BY ServiceInit
<1>2. StoreInv /\ [Next]_vars => [Service!Next]_(Service!serviceVars)
  BY ServiceStep
<1> QED BY <1>1, <1>2, StoreInvariance, PTL DEF Spec, ImplementsService, Service!Spec
=============================================================================
