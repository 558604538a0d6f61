------------------------------- MODULE Services -------------------------------
(***************************************************************************)
(* The components of which something must eventually come, side by side:   *)
(* a behaviour is one of the component named by "service", while the       *)
(* others stay where they start.  Each has its own variables, so that one  *)
(* run checks what each promises, with the fairness of each.               *)
(***************************************************************************)
EXTENDS Integers, FiniteSets

VARIABLE service

\* None is no request, no holder, no result.
CONSTANT None

CONSTANTS Requests, ByteLength, QueueLimit, ByteLimit, PendingLimit
VARIABLES outcome, queue, active, failing, warm, restarting, closing, admittedBytes,
          phase, cancelled, pendingRequests, reservedDatasetBytes, moduleClosed
nodeVars == <<outcome, queue, active, failing, warm, restarting, closing,
              admittedBytes, phase, cancelled, pendingRequests, reservedDatasetBytes,
              moduleClosed>>
Node == INSTANCE NodeOntologyQueryModule

CONSTANT Connections
VARIABLES sourceKind, ontologyQueryPromise, connection, toolCall, lifecycleAborted,
          stdioHandle, queryClose, stdioShutdown, stdioExit
stdioVars == <<sourceKind, ontologyQueryPromise, connection, toolCall,
               lifecycleAborted, stdioHandle, queryClose, stdioShutdown, stdioExit>>
Stdio == INSTANCE McpStdioServer

CONSTANTS HttpRequests, MaximumConcurrent, Burst, Scale, Refill, LastTick
VARIABLES clock, latest, bucket, accepted, promisedAt, setBack, request, permits,
          holding, controllers, cut, localDrain, forcedEnd
localVars == <<clock, latest, bucket, accepted, promisedAt, setBack, request, permits,
               holding, controllers, cut, localDrain, forcedEnd>>
Local == INSTANCE LocalMcpServer

CONSTANTS TaskCount, TaskSizes, PoolSize
VARIABLES poolKinds, sizeOf, taskQueue, poolTask, poolAlive, deadline, thread, posted,
          rendered, failures, dispatchStopped, poolSettled, poolOutcome, activeTasks,
          completedTasks
poolVars == <<poolKinds, sizeOf, taskQueue, poolTask, poolAlive, deadline, thread,
              posted, rendered, failures, dispatchStopped, poolSettled, poolOutcome,
              activeTasks, completedTasks>>
Pool == INSTANCE OntologyAssetWorkerPool

CONSTANTS MaximumBytes, LongestBody
VARIABLES adapter, readStage, conditional, answer, receivedBytes, body, timer,
          abortReason, readOutcome
readVars == <<adapter, readStage, conditional, answer, receivedBytes, body, timer,
              abortReason, readOutcome>>
Read == INSTANCE ArtifactHttpRead

CONSTANTS Reads, ProcessOf, Releases, DigestOf, Fitting, Room
VARIABLES call, callKey, shares, status, release, step, withdrawn, population, result,
          leaseHolder, stored, troubled, evictions, installations, listed, overtaken
readsVars == <<call, callKey, shares, status, release, step, withdrawn, population,
               result, leaseHolder, stored, troubled, evictions, installations, listed,
               overtaken>>
IndexReads == INSTANCE ReleaseIndexReads

ASSUME ServicesAssumption ==
  /\ Node!NodeAssumption /\ Local!LimiterAssumption /\ Pool!PoolAssumption
  /\ Read!BodyAssumption /\ IndexReads!HolderAssumption

-----------------------------------------------------------------------------
ServicesInit ==
  /\ service \in {"node", "stdio", "local", "pool", "http read", "index reads"}
  /\ Node!NodeInit /\ Stdio!StdioInit /\ Local!LocalInit /\ Pool!PoolInit
  /\ Read!ReadInit /\ IndexReads!ReadsInit

NodeStep == /\ service = "node" /\ Node!NodeNext
            /\ UNCHANGED <<stdioVars, localVars, poolVars, readVars, readsVars>>
StdioStep == /\ service = "stdio" /\ Stdio!StdioNext
             /\ UNCHANGED <<nodeVars, localVars, poolVars, readVars, readsVars>>
LocalStep == /\ service = "local" /\ Local!LocalNext
             /\ UNCHANGED <<nodeVars, stdioVars, poolVars, readVars, readsVars>>
PoolStep == /\ service = "pool" /\ Pool!PoolNext
            /\ UNCHANGED <<nodeVars, stdioVars, localVars, readVars, readsVars>>
ReadStep == /\ service = "http read" /\ Read!ReadNext
            /\ UNCHANGED <<nodeVars, stdioVars, localVars, poolVars, readsVars>>
ReadsStep == /\ service = "index reads" /\ IndexReads!ReadsNext
             /\ UNCHANGED <<nodeVars, stdioVars, localVars, poolVars, readVars>>

ServicesNext ==
  /\ UNCHANGED service
  /\ NodeStep \/ StdioStep \/ LocalStep \/ PoolStep \/ ReadStep \/ ReadsStep

servicesVars == <<service, nodeVars, stdioVars, localVars, poolVars, readVars, readsVars>>

\* Timers fire and messages are delivered; a tool call that has been told to stop ends; a
\* worker's thread goes on, if only to hang; a read and a population go on.  None of these
\* is enabled where a component starts, so those that stay there are free of them.
ServicesFairness ==
  /\ Node!NodeFairness
  /\ WF_stdioVars(Stdio!StdioProgress)
  /\ WF_stdioVars(\E c \in Connections : Stdio!Signalled(c) /\ Stdio!ToolEnds(c))
  /\ WF_localVars(Local!LocalProgress)
  /\ WF_poolVars(Pool!PoolProgress)
  /\ \A w \in Pool!PoolWorkers : WF_poolVars(Pool!ThreadProgress(w))
  /\ WF_readVars(Read!ReadProgress)
  /\ \A r \in Reads : /\ WF_readsVars(IndexReads!ReadProceeds(r))
                     /\ WF_readsVars(IndexReads!PopulationProceeds(r))

ServicesSpec == ServicesInit /\ [][ServicesNext]_servicesVars /\ ServicesFairness

-----------------------------------------------------------------------------
\* The accounts of the query module, and the places of the tasks of the pool: see
\* NodeOntologyQueryModule and OntologyAssetWorkerPool.
AccountsExact == Node!AccountsKept /\ Pool!PoolAccountsExact

\* Every call of the query module ends, and the pool settles unless a worker stops
\* silently: see the same modules.
WorkEnds == Node!EveryCallEnds /\ Pool!PoolSettles

\* A graceful end of the stdio server, and what the local server holds and lets pass: see
\* McpStdioServer and LocalMcpServer.
ServersSafe == Stdio!GracefulMeansClosed /\ Local!LocalServerSafe

\* Both servers shut down, whatever the shutdown meets: see the same modules.
ServersShutDown == Stdio!ShutdownReachesAll /\ Local!LocalShutdownEnds

\* What a read of an artifact reports is so, and a read of an index fails for a reason
\* that can be named and populates the cache once: see ArtifactHttpRead and ReleaseIndexReads.
ReadsSafe == Read!ReadHonest /\ IndexReads!FailuresExplained /\ IndexReads!PopulatedOnce

\* Reads of artifacts and of indexes end: see the same modules.
ReadsEnd == Read!ReadEnds /\ IndexReads!ReadsEnd
=============================================================================
