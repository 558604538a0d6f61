--------------------------- MODULE McpStdioServer ---------------------------
(***************************************************************************)
(* The installed MCP process: runUniversalOntologyMcpStdioServer.js and    *)
(* the tool calls of createUniversalOntologyMcpServer.js.  The query       *)
(* module is constructed once, lazily, by the first opening of the         *)
(* transport that needs it; a signal, the end of the input or close()      *)
(* shuts the process down, at any moment of that construction.             *)
(*                                                                         *)
(* External: the SDK, which owns the transport and decides when it calls   *)
(* the factory and the tools, and the close() of the query module.         *)
(***************************************************************************)
EXTENDS Naturals

CONSTANTS Connections   \* openings of the transport, each with one tool call

VARIABLES
  sourceKind,            \* configured source, or "unset" before the start
  ontologyQueryPromise,  \* the shared construction of the query module
  connection,            \* what became of buildMcpServer() of each opening
  toolCall,              \* the tool call of each opening
  lifecycleAborted,      \* serverLifecycleSignal.aborted
  stdioHandle,           \* the handle that serveStdio returned
  queryClose,            \* the second operand of Promise.all in the shutdown
  stdioShutdown,         \* shutdownPromise
  stdioExit              \* process.exitCode

stdioVars == <<sourceKind, ontologyQueryPromise, connection, toolCall,
               lifecycleAborted, stdioHandle, queryClose, stdioShutdown,
               stdioExit>>

StdioInit ==
  /\ sourceKind = "unset"
  /\ ontologyQueryPromise = "none"
  /\ connection = [c \in Connections |-> "idle"]
  /\ toolCall = [c \in Connections |-> "none"]
  /\ lifecycleAborted = FALSE
  /\ stdioHandle = "none"
  /\ queryClose = "none"
  /\ stdioShutdown = "none"
  /\ stdioExit = 0

Serving == stdioHandle # "none"

(* serveStdio returns a handle, or the start fails. *)
Start ==
  /\ sourceKind = "unset"
  /\ sourceKind' \in {"file_system", "http"}
  /\ \/ stdioHandle' = "open" /\ UNCHANGED <<lifecycleAborted, stdioExit>>
     \/ /\ lifecycleAborted' = TRUE
        /\ stdioExit' = 1
        /\ UNCHANGED stdioHandle
  /\ UNCHANGED <<ontologyQueryPromise, connection, toolCall, queryClose,
                 stdioShutdown>>

(* createSharedOntologyQuery up to its first await: the constructor of the *)
(* file-system variant is synchronous.                                     *)
CreateSharedOntologyQuery ==
  IF lifecycleAborted THEN "failed"
  ELSE IF sourceKind = "file_system" THEN "open" ELSE "hashing"

BuildMcpServer(c) ==
  /\ Serving
  /\ connection[c] = "idle"
  /\ connection' = [connection EXCEPT ![c] = "waiting"]
  /\ ontologyQueryPromise' = IF ontologyQueryPromise = "none"
                               THEN CreateSharedOntologyQuery
                               ELSE ontologyQueryPromise
  /\ UNCHANGED <<sourceKind, toolCall, lifecycleAborted, stdioHandle,
                 queryClose, stdioShutdown, stdioExit>>

(* The digest of the base URL, then the cache directory: the signal is     *)
(* looked at again after each await.                                       *)
ContinueConstruction ==
  /\ \/ /\ ontologyQueryPromise = "hashing"
        /\ ontologyQueryPromise' =
             IF lifecycleAborted THEN "failed" ELSE "caching"
     \/ /\ ontologyQueryPromise = "caching"
        /\ \/ ontologyQueryPromise' =
                IF lifecycleAborted THEN "failed" ELSE "open"
           \/ ontologyQueryPromise' = "failed"
  /\ UNCHANGED <<sourceKind, connection, toolCall, lifecycleAborted,
                 stdioHandle, queryClose, stdioShutdown, stdioExit>>

ServerBuilt(c) ==
  /\ connection[c] = "waiting"
  /\ ontologyQueryPromise \in {"open", "closed", "failed"}
  /\ connection' = [connection EXCEPT ![c] =
                      IF ontologyQueryPromise = "failed" \/ lifecycleAborted
                        THEN "refused" ELSE "served"]
  /\ UNCHANGED <<sourceKind, ontologyQueryPromise, toolCall, lifecycleAborted,
                 stdioHandle, queryClose, stdioShutdown, stdioExit>>

(* A tool call runs under AbortSignal.any([request, serverLifecycle]).     *)
CallTool(c) ==
  /\ connection[c] = "served"
  /\ stdioHandle = "open"
  /\ toolCall[c] = "none"
  /\ toolCall' = [toolCall EXCEPT ![c] = "running"]
  /\ UNCHANGED <<sourceKind, ontologyQueryPromise, connection,
                 lifecycleAborted, stdioHandle, queryClose, stdioShutdown,
                 stdioExit>>

CancelTool(c) ==
  /\ toolCall[c] = "running"
  /\ toolCall' = [toolCall EXCEPT ![c] = "cancelled"]
  /\ UNCHANGED <<sourceKind, ontologyQueryPromise, connection,
                 lifecycleAborted, stdioHandle, queryClose, stdioShutdown,
                 stdioExit>>

(* Mutant: a tool call hears the request's signal only. *)
SignalledByRequest(c) == toolCall[c] = "cancelled"

Signalled(c) == toolCall[c] = "cancelled" \/ lifecycleAborted

(* Every error becomes a structured failure; nothing is thrown to the SDK. *)
ToolEnds(c) ==
  /\ toolCall[c] \in {"running", "cancelled"}
  /\ toolCall' = [toolCall EXCEPT ![c] =
                    IF Signalled(c) THEN "failure" ELSE "result"]
  /\ UNCHANGED <<sourceKind, ontologyQueryPromise, connection,
                 lifecycleAborted, stdioHandle, queryClose, stdioShutdown,
                 stdioExit>>

(* handleShutdownRequest and close(). *)
BeginShutdown ==
  /\ Serving
  /\ stdioShutdown = "none"
  /\ lifecycleAborted' = TRUE
  /\ stdioShutdown' = "racing"
  /\ UNCHANGED <<sourceKind, ontologyQueryPromise, connection, toolCall,
                 stdioHandle, queryClose, stdioExit>>

(* Mutant: the close operation closes the transport and forgets the query  *)
(* module.                                                                 *)
CloseTransportOnly ==
  /\ stdioShutdown # "none"
  /\ stdioHandle = "open"
  /\ stdioHandle' = "closing"
  /\ queryClose' = "closed"
  /\ UNCHANGED <<sourceKind, ontologyQueryPromise, connection, toolCall,
                 lifecycleAborted, stdioShutdown, stdioExit>>

(* The microtask of the close operation: a query module that was never     *)
(* asked for is not waited for.                                            *)
CloseStarts ==
  /\ stdioShutdown # "none"
  /\ stdioHandle = "open"
  /\ stdioHandle' = "closing"
  /\ queryClose' = IF ontologyQueryPromise = "none" THEN "closed"
                                                    ELSE "waiting"
  /\ UNCHANGED <<sourceKind, ontologyQueryPromise, connection, toolCall,
                 lifecycleAborted, stdioShutdown, stdioExit>>

HandleCloses ==
  /\ stdioHandle = "closing"
  /\ stdioHandle' \in {"closed", "failed"}
  /\ UNCHANGED <<sourceKind, ontologyQueryPromise, connection, toolCall,
                 lifecycleAborted, queryClose, stdioShutdown, stdioExit>>

QueryCloses ==
  /\ queryClose = "waiting"
  /\ \/ /\ ontologyQueryPromise = "open"
        /\ ontologyQueryPromise' = "closed"
        /\ queryClose' = "closed"
     \/ /\ ontologyQueryPromise = "failed"
        /\ queryClose' = "failed"
        /\ UNCHANGED ontologyQueryPromise
  /\ UNCHANGED <<sourceKind, connection, toolCall, lifecycleAborted,
                 stdioHandle, stdioShutdown, stdioExit>>

(* The first of: both closed, one of them rejected, the deadline. *)
ShutdownSettles ==
  /\ stdioShutdown = "racing"
  /\ \/ /\ stdioHandle = "closed" /\ queryClose = "closed"
        /\ stdioShutdown' = "graceful"
        /\ UNCHANGED stdioExit
     \/ /\ "failed" \in {stdioHandle, queryClose}
        /\ stdioShutdown' = "failed"
        /\ stdioExit' = 1
     \/ /\ stdioShutdown' = "deadline_exceeded"
        /\ stdioExit' = 1
  /\ UNCHANGED <<sourceKind, ontologyQueryPromise, connection, toolCall,
                 lifecycleAborted, stdioHandle, queryClose>>

StdioProgress ==
  \/ ContinueConstruction \/ CloseStarts \/ HandleCloses \/ QueryCloses
  \/ ShutdownSettles

StdioNext ==
  \/ Start \/ BeginShutdown \/ StdioProgress
  \/ \E c \in Connections :
       BuildMcpServer(c) \/ ServerBuilt(c) \/ CallTool(c) \/ CancelTool(c)
         \/ ToolEnds(c)

-----------------------------------------------------------------------------

(* A process that has reported a graceful end leaves no query module open  *)
(* and none under construction, and never constructs one later; the exit   *)
(* code tells every other end.                                             *)
GracefulMeansClosed ==
  stdioShutdown = "graceful" =>
    /\ stdioHandle = "closed"
    /\ ontologyQueryPromise \in {"none", "failed", "closed"}
    /\ stdioExit = 0

Unfinished(c) == toolCall[c] \in {"running", "cancelled"}

(* However the shutdown meets the construction of the query module, the    *)
(* shutdown ends, and so does, even after the deadline has won, the close  *)
(* of the query module; no tool call outlives it.                          *)
ShutdownReachesAll ==
  (stdioShutdown = "racing") ~>
    /\ stdioShutdown # "racing"
    /\ ontologyQueryPromise \in {"none", "failed", "closed"}
    /\ \A c \in Connections : ~ Unfinished(c)
=============================================================================
