---------------------- MODULE OntologyAssetWorkerPool ----------------------
(***************************************************************************)
(* The pool of scripts/build/ontologyAssetWorkerPool.js, which renders the *)
(* assets of every ontology of a build, with the workers it starts         *)
(* (ontologyAssetWorker.js).  Every worker has its own queue of tasks,     *)
(* balanced by size.  The first failure stops the dispatch; the promise    *)
(* settles once all is done, or once the tasks under way have ended.       *)
(*                                                                         *)
(* A task is its input, numbered in the order of the output paths.  The    *)
(* posts of a worker and the events of its thread reach the pool in order. *)
(***************************************************************************)
EXTENDS Naturals, FiniteSets, SequencesExt

CONSTANTS
  TaskCount,    \* inputs of the build
  TaskSizes,    \* sizes an input may have
  PoolSize      \* Math.min(workerCount, inputs.length)

PoolAssumption ==
  /\ TaskSizes \subseteq Nat /\ TaskCount \in Nat /\ PoolSize \in 1..TaskCount

Tasks == 1..TaskCount
PoolWorkers == 1..PoolSize
NoTask == 0
Kinds == {"display", "query", "both"}   \* requestedAssetKinds, grouped

VARIABLES
  poolKinds,        \* requestedAssetKinds, or "unset" before the call
  sizeOf,           \* input.size of every task
  taskQueue,        \* state.queue of every worker
  poolTask,         \* state.task
  poolAlive,        \* state.alive
  deadline,         \* state.deadline is armed
  thread,           \* what the worker's thread is doing
  posted,           \* messages and events on their way to the pool
  rendered, failures, dispatchStopped, poolSettled, poolOutcome,
  activeTasks, completedTasks

poolVars == <<poolKinds, sizeOf, taskQueue, poolTask, poolAlive, deadline,
              thread, posted, rendered, failures, dispatchStopped,
              poolSettled, poolOutcome, activeTasks, completedTasks>>

(* The thread of a worker and its posts. *)
threadVars == <<thread, posted>>

PoolInit ==
  /\ poolKinds = "unset"
  /\ sizeOf = [t \in Tasks |-> 0]
  /\ taskQueue = [w \in PoolWorkers |-> <<>>]
  /\ poolTask = [w \in PoolWorkers |-> NoTask]
  /\ poolAlive = [w \in PoolWorkers |-> TRUE]
  /\ deadline = [w \in PoolWorkers |-> FALSE]
  /\ thread = [w \in PoolWorkers |-> "idle"]
  /\ posted = [w \in PoolWorkers |-> <<>>]
  /\ rendered = {} /\ failures = {}
  /\ dispatchStopped = FALSE /\ poolSettled = FALSE
  /\ poolOutcome = "pending"
  /\ activeTasks = 0 /\ completedTasks = 0

---------------------------------------------------------------------------
(* The distribution of the tasks. *)

(* The order of the tasks is largest first; the paths decide between equal *)
(* sizes.                                                                  *)
LastBySize(tasks, sizes) ==
  CHOOSE t \in tasks : \A s \in tasks :
    sizes[s] > sizes[t] \/ (sizes[s] = sizes[t] /\ s <= t)

ScheduledSize(queue, sizes) == SumFunctionOnSet(sizes, ToSet(queue))

Lightest(queues, sizes) ==
  CHOOSE w \in PoolWorkers : \A v \in PoolWorkers :
    LET a == ScheduledSize(queues[w], sizes)
        b == ScheduledSize(queues[v], sizes)
    IN  a < b \/ (a = b /\ w <= v)

(* In that order, each goes to the first of the lightest queues.           *)
SizeBalancedQueues(sizes) ==
  MapThenFoldSet(LAMBDA t, queues :
                   [queues EXCEPT ![Lightest(queues, sizes)] = Append(@, t)],
                 [w \in PoolWorkers |-> <<>>],
                 LAMBDA t : t, LAMBDA tasks : LastBySize(tasks, sizes), Tasks)

---------------------------------------------------------------------------
(* The pool. *)

(* The deadline is armed with every task whose query index is asked for.   *)
HasDeadline(kinds) == kinds # "display"

(* The pool hands its next task to every worker at the start.              *)
Render ==
  /\ poolKinds = "unset"
  /\ poolKinds' \in Kinds
  /\ sizeOf' \in [Tasks -> TaskSizes]
  /\ LET queues == SizeBalancedQueues(sizeOf')
         busy == {w \in PoolWorkers : queues[w] # <<>>}
     IN  /\ taskQueue' = [w \in PoolWorkers |-> IF w \in busy THEN Tail(queues[w])
                                                          ELSE <<>>]
         /\ poolTask' = [w \in PoolWorkers |-> IF w \in busy THEN Head(queues[w])
                                                         ELSE NoTask]
         /\ deadline' = [w \in PoolWorkers |->
                           w \in busy /\ HasDeadline(poolKinds')]
         /\ thread' = [w \in PoolWorkers |-> IF w \in busy THEN "parsing"
                                                       ELSE "idle"]
         /\ activeTasks' = Cardinality(busy)
  /\ UNCHANGED <<poolAlive, posted, rendered, failures, dispatchStopped,
                 poolSettled, poolOutcome, completedTasks>>

(* Mutants of Finish: it settles at the first failure, or only once every  *)
(* task is complete.                                                       *)
FinishAtFirstFailure ==
  poolSettled' = (poolSettled \/ completedTasks' = TaskCount \/ dispatchStopped')

FinishWhenComplete ==
  poolSettled' = (poolSettled \/ completedTasks' = TaskCount)

(* finish(), with the values the handler leaves. *)
Finish ==
  poolSettled' = \/ poolSettled
                 \/ completedTasks' = TaskCount
                 \/ dispatchStopped' /\ activeTasks' = 0

(* dispatch(), after the task of w has been answered. *)
Dispatch(w) ==
  IF taskQueue[w] = <<>> \/ ~poolAlive[w]
    THEN /\ poolTask' = [poolTask EXCEPT ![w] = NoTask]
         /\ deadline' = [deadline EXCEPT ![w] = FALSE]
         /\ activeTasks' = activeTasks - 1
         /\ UNCHANGED <<taskQueue, thread>>
    ELSE /\ poolTask' = [poolTask EXCEPT ![w] = Head(taskQueue[w])]
         /\ taskQueue' = [taskQueue EXCEPT ![w] = Tail(@)]
         /\ deadline' = [deadline EXCEPT ![w] = HasDeadline(poolKinds)]
         /\ thread' = [thread EXCEPT ![w] =
                         IF @ = "idle" THEN "parsing" ELSE @]
         /\ UNCHANGED activeTasks

(* The task of w ends without a result. *)
Fail(w) ==
  /\ failures' = failures \union {poolTask[w]}
  /\ poolTask' = [poolTask EXCEPT ![w] = NoTask]
  /\ deadline' = [deadline EXCEPT ![w] = FALSE]
  /\ activeTasks' = activeTasks - 1
  /\ dispatchStopped' = TRUE
  /\ UNCHANGED <<taskQueue, rendered, completedTasks>>

FailState(w) ==
  IF poolTask[w] = NoTask
    THEN UNCHANGED <<failures, poolTask, deadline, activeTasks,
                     dispatchStopped, taskQueue, rendered, completedTasks,
                     poolSettled>>
    ELSE Fail(w) /\ Finish

Ignored == UNCHANGED <<failures, poolTask, deadline, activeTasks,
                       dispatchStopped, taskQueue, rendered, completedTasks,
                       poolSettled, poolAlive, thread>>

(* A message of worker w, about the task it was posted for. *)
OnMessage(w, message) ==
  IF poolSettled \/ poolTask[w] = NoTask \/ message.task # poolTask[w]
    THEN Ignored
  ELSE /\ UNCHANGED poolAlive
       /\ CASE message.kind = "query-index-complete" ->
                 /\ deadline' = [deadline EXCEPT ![w] = FALSE]
                 /\ UNCHANGED <<failures, poolTask, activeTasks,
                                dispatchStopped, taskQueue, rendered,
                                completedTasks, poolSettled, thread>>
            [] message.kind = "error" -> Fail(w) /\ Finish /\ UNCHANGED thread
            [] message.kind = "content" ->
                 /\ rendered' = rendered \union {message.task}
                 /\ completedTasks' = completedTasks + 1
                 /\ IF dispatchStopped
                      THEN /\ poolTask' = [poolTask EXCEPT ![w] = NoTask]
                           /\ deadline' = [deadline EXCEPT ![w] = FALSE]
                           /\ activeTasks' = activeTasks - 1
                           /\ UNCHANGED <<taskQueue, thread>>
                      ELSE Dispatch(w)
                 /\ UNCHANGED <<failures, dispatchStopped>>
                 /\ Finish

(* The events of the thread: an uncaught error, and the exit that follows  *)
(* it or comes by itself.                                                  *)
OnThreadEvent(w, event) ==
  /\ poolAlive' = [poolAlive EXCEPT ![w] = FALSE]
  /\ IF event.kind = "uncaught"
          \/ (event.kind = "exited non-zero" /\ ~poolSettled)
       THEN FailState(w)
       ELSE UNCHANGED <<failures, poolTask, deadline, activeTasks,
                        dispatchStopped, taskQueue, rendered, completedTasks,
                        poolSettled>>
  /\ UNCHANGED thread

Receive(w) ==
  /\ posted[w] # <<>>
  /\ LET m == Head(posted[w])
     IN  IF m.kind \in {"query-index-complete", "error", "content"}
           THEN OnMessage(w, m) ELSE OnThreadEvent(w, m)
  /\ posted' = [posted EXCEPT ![w] = Tail(@)]
  /\ UNCHANGED <<poolKinds, sizeOf, poolOutcome>>

(* The thread is terminated; whatever it posted afterwards is ignored. *)
DeadlineExpires(w) ==
  /\ deadline[w]
  /\ poolAlive' = [poolAlive EXCEPT ![w] = FALSE]
  /\ thread' = [thread EXCEPT ![w] = "gone"]
  /\ posted' = [posted EXCEPT ![w] =
                  Append(@, [kind |-> "exited non-zero", task |-> NoTask])]
  /\ FailState(w)
  /\ UNCHANGED <<poolKinds, sizeOf, poolOutcome>>

(* Every worker is terminated, then the promise of the caller settles.     *)
Terminated ==
  /\ poolSettled /\ poolOutcome = "pending"
  /\ poolOutcome' = IF failures # {} THEN "rejected" ELSE "resolved"
  /\ thread' = [w \in PoolWorkers |-> "gone"]
  /\ UNCHANGED <<poolKinds, sizeOf, taskQueue, poolTask, poolAlive, deadline,
                 posted, rendered, failures, dispatchStopped, poolSettled,
                 activeTasks, completedTasks>>

---------------------------------------------------------------------------
(* The threads. *)

Post(w, kind) ==
  posted' = [posted EXCEPT ![w] = Append(@, [kind |-> kind, task |-> poolTask[w]])]

WorkerUnchanged ==
  UNCHANGED <<poolKinds, sizeOf, taskQueue, poolTask, poolAlive, deadline,
              rendered, failures, dispatchStopped, poolSettled, poolOutcome,
              activeTasks, completedTasks>>

(* The query index is made before the display assets, and says so. *)
IndexComplete(w) ==
  /\ thread[w] = "parsing" /\ poolKinds = "both"
  /\ thread' = [thread EXCEPT ![w] = "rendering"]
  /\ Post(w, "query-index-complete")
  /\ WorkerUnchanged

Answer(w) ==
  /\ thread[w] \in {"parsing", "rendering"}
  /\ thread' = [thread EXCEPT ![w] = "idle"]
  /\ \/ (poolKinds = "both" => thread[w] = "rendering") /\ Post(w, "content")
     \/ Post(w, "error")
  /\ WorkerUnchanged

(* The thread runs out of memory, calls process.exit(), or never ends.     *)
Die(w) ==
  /\ thread[w] \in {"parsing", "rendering"}
  /\ \/ /\ thread' = [thread EXCEPT ![w] = "gone"]
        /\ posted' = [posted EXCEPT ![w] =
             @ \o <<[kind |-> "uncaught", task |-> NoTask],
                    [kind |-> "exited non-zero", task |-> NoTask]>>]
     \/ /\ thread' = [thread EXCEPT ![w] = "gone"]
        /\ \E code \in {"exited", "exited non-zero"} :
             posted' = [posted EXCEPT ![w] =
                          Append(@, [kind |-> code, task |-> NoTask])]
     \/ /\ thread' = [thread EXCEPT ![w] = "hung"]
        /\ UNCHANGED posted
  /\ WorkerUnchanged

PoolNext ==
  \/ Render
  \/ Terminated
  \/ \E w \in PoolWorkers : \/ Receive(w) \/ DeadlineExpires(w)
                            \/ IndexComplete(w) \/ Answer(w) \/ Die(w)

(* The event loop of the pool delivers what was posted and its timers; a   *)
(* thread that hangs does so by Die.                                       *)
PoolProgress ==
  \/ Terminated
  \/ \E w \in PoolWorkers : Receive(w) \/ DeadlineExpires(w)

ThreadProgress(w) == IndexComplete(w) \/ Answer(w) \/ Die(w)

---------------------------------------------------------------------------
(* Properties. *)

Places(t) ==
  {<<"queue", w>> : w \in {v \in PoolWorkers : t \in ToSet(taskQueue[v])}}
    \union {<<"active", w>> : w \in {v \in PoolWorkers : poolTask[v] = t}}
    \union {<<"rendered", 0>> : r \in rendered \intersect {t}}
    \union {<<"failed", 0>> : r \in failures \intersect {t}}

(* Whatever the order in which workers answer, die and run into their      *)
(* deadline: every task is in exactly one place, the two counters are what *)
(* they count, and the caller is answered only when no task is under way,  *)
(* with all results or with a failure.                                     *)
PoolAccountsExact ==
  poolKinds # "unset" =>
    /\ \A t \in Tasks : Cardinality(Places(t)) = 1
    /\ activeTasks = Cardinality({w \in PoolWorkers : poolTask[w] # NoTask})
    /\ completedTasks = Cardinality(rendered)
    /\ poolOutcome # "pending" => activeTasks = 0
    /\ poolOutcome = "resolved" => rendered = Tasks
    /\ poolOutcome = "rejected" => failures # {}

(* A worker that will never be heard of again, with a task and no deadline *)
(* to recover it: it hangs, or has exited with code 0, in a build that did *)
(* not ask for a query index or after the index was complete.              *)
StoppedSilently(w) ==
  /\ poolTask[w] # NoTask /\ ~deadline[w]
  /\ thread[w] \in {"gone", "hung"} /\ posted[w] = <<>>

(* The call settles, unless a worker stops silently without a deadline.    *)
PoolSettles ==
  poolKinds # "unset" ~>
    (poolOutcome # "pending" \/ \E w \in PoolWorkers : StoppedSilently(w))
===========================================================================
