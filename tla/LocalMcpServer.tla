--------------------------- MODULE LocalMcpServer ---------------------------
(***************************************************************************)
(* The loopback HTTP server of runLocalOntologyMcpServer.js: the token     *)
(* bucket, the permits that bound concurrent requests, the drain and the   *)
(* forced shutdown at its deadline.                                        *)
(*                                                                         *)
(* Time is a clock in abstract ticks; a token is Scale units, of which a   *)
(* tick earns Refill.  One client address is modelled: buckets of several  *)
(* addresses share nothing.  External: node's HTTP server, which delivers  *)
(* bodies, closes sockets and reports the close of a response; its         *)
(* requests abort their signal when their response is closed early.        *)
(***************************************************************************)
EXTENDS Integers, FiniteSets

CONSTANTS HttpRequests, MaximumConcurrent,
          Burst, Scale, Refill,   \* the bucket
          LastTick                \* bound on the clock

LimiterAssumption ==
  /\ MaximumConcurrent \in Nat \ {0} /\ Burst \in Nat \ {0}
  /\ Scale \in Nat \ {0} /\ Refill \in Nat \ {0} /\ LastTick \in Nat

VARIABLES
  clock,       \* readMonotonicMilliseconds(), which a faulty clock may turn back
  latest,      \* history: the latest clock reading
  bucket,      \* tokens (in units) and observedAt, or the empty sequence
  accepted,    \* history: how many requests the bucket has let pass
  promisedAt,  \* history: when the last refusal said a retry would pass, or -1
  setBack,     \* history: how far behind the bucket's last reading the clock was then
  request,     \* what became of each request
  permits,     \* activeMcpRequestCount
  holding,     \* the requests whose releasePermit has not run
  controllers, \* activeQueryControllers
  cut,         \* requests whose signal has been aborted
  localDrain,  \* "no", "draining", "forced", "drained", "closed"
  forcedEnd    \* the result of shutdown()

localVars == <<clock, latest, bucket, accepted, promisedAt, setBack, request, permits,
               holding, controllers, cut, localDrain, forcedEnd>>
bucketVars == <<clock, latest, bucket, accepted, promisedAt, setBack>>

LocalInit ==
  /\ clock = 0 /\ latest = 0
  /\ bucket = <<>>
  /\ accepted = 0
  /\ promisedAt = -1
  /\ setBack = 0
  /\ request = [r \in HttpRequests |-> "unsent"]
  /\ permits = 0
  /\ holding = {}
  /\ controllers = {}
  /\ cut = {}
  /\ localDrain = "no"
  /\ forcedEnd = FALSE

-----------------------------------------------------------------------------
(* The token bucket. *)

Lesser(a, b) == IF a < b THEN a ELSE b
Greater(a, b) == IF a > b THEN a ELSE b
CeilDiv(a, b) == (a + b - 1) \div b

(* The bucket a call of take() finds, refilled for the time elapsed. *)
Refilled ==
  IF bucket = <<>> THEN [tokens |-> Burst * Scale, observedAt |-> clock]
  ELSE LET elapsed == Greater(0, clock - bucket.observedAt)
       IN [tokens |-> Lesser(Burst * Scale, bucket.tokens + elapsed * Refill),
           observedAt |-> Greater(bucket.observedAt, clock)]

RetryAfter(found) == Greater(1, CeilDiv(Scale - found.tokens, Refill))

TokenAvailable == Refilled.tokens >= Scale

Take ==
  /\ bucket' = IF TokenAvailable
                 THEN [Refilled EXCEPT !.tokens = @ - Scale] ELSE Refilled
  /\ accepted' = IF TokenAvailable THEN accepted + 1 ELSE accepted
  /\ promisedAt' = IF TokenAvailable THEN -1
                   ELSE clock + RetryAfter(Refilled)
  /\ setBack' = IF TokenAvailable THEN 0 ELSE Refilled.observedAt - clock
  /\ UNCHANGED <<clock, latest>>

Tick ==
  /\ clock' \in {clock + 1, clock - 1} \cap (0 .. LastTick)
  /\ latest' = Greater(latest, clock')
  /\ UNCHANGED <<bucket, accepted, promisedAt, setBack, request, permits, holding,
                 controllers, cut, localDrain, forcedEnd>>

-----------------------------------------------------------------------------
(* Requests. *)

Listening == localDrain = "no"
SocketsClosed == localDrain \in {"forced", "closed"}

(* routeRequest up to its first await, for a POST to /mcp that has passed  *)
(* the host and origin guards.  A connection kept alive can still deliver  *)
(* a request while the server drains.                                      *)
RouteRequest(r) ==
  /\ request[r] = "unsent"
  /\ ~ SocketsClosed
  /\ \/ /\ localDrain = "draining"
        /\ request' = [request EXCEPT ![r] = "rejected"]
        /\ UNCHANGED <<bucket, accepted, promisedAt, setBack, permits, holding>>
     \/ /\ Listening
        /\ Take
        /\ IF TokenAvailable /\ permits < MaximumConcurrent
             THEN /\ request' = [request EXCEPT ![r] = "reading"]
                  /\ permits' = permits + 1
                  /\ holding' = holding \cup {r}
             ELSE /\ request' = [request EXCEPT ![r] = "rejected"]
                  /\ UNCHANGED <<permits, holding>>
  /\ UNCHANGED <<clock, latest, controllers, cut, localDrain, forcedEnd>>

(* Mutant: a permit is given back by the close event and by the handler. *)
ReleaseAgain(r) ==
  /\ holding' = holding \ {r}
  /\ permits' = permits - 1

(* releasePermit: at most once, whoever calls it. *)
ReleasePermit(r) ==
  /\ holding' = holding \ {r}
  /\ permits' = IF r \in holding THEN permits - 1 ELSE permits

(* readBoundedNodeJsonBody finds the body too large or no JSON, or the      *)
(* socket fails.                                                           *)
BodyRefused(r) ==
  /\ request' = [request EXCEPT ![r] = "ended"]
  /\ ReleasePermit(r)
  /\ UNCHANGED controllers

(* The handler starts, under a controller of its own. *)
HandlerStarts(r) ==
  /\ r \notin cut
  /\ request' = [request EXCEPT ![r] = "querying"]
  /\ controllers' = controllers \cup {r}
  /\ UNCHANGED <<permits, holding>>

BodyRead(r) ==
  /\ request[r] = "reading"
  /\ BodyRefused(r) \/ HandlerStarts(r)
  /\ UNCHANGED <<bucketVars, cut, localDrain, forcedEnd>>

(* The client goes away: the response's close event. *)
ClientCloses(r) ==
  /\ request[r] \in {"reading", "querying"}
  /\ r \notin cut
  /\ cut' = cut \cup {r}
  /\ ReleasePermit(r)
  /\ UNCHANGED <<bucketVars, request, controllers, localDrain, forcedEnd>>

(* The query answers, fails or is aborted: the handler's finally blocks. *)
QueryAnswers(r) ==
  /\ request[r] = "querying"
  /\ request' = [request EXCEPT ![r] = "ended"]
  /\ controllers' = controllers \ {r}
  /\ ReleasePermit(r)
  /\ UNCHANGED <<bucketVars, cut, localDrain, forcedEnd>>

-----------------------------------------------------------------------------
(* Shutdown. *)

Shutdown ==
  /\ localDrain = "no"
  /\ localDrain' = "draining"
  /\ UNCHANGED <<bucketVars, request, permits, holding, controllers, cut,
                 forcedEnd>>

Connected(r) == request[r] \in {"reading", "querying"} /\ r \notin cut

(* The server closes when its last connection does. *)
Drained ==
  /\ localDrain = "draining"
  /\ \A r \in HttpRequests : ~ Connected(r)
  /\ localDrain' = "drained"
  /\ UNCHANGED <<bucketVars, request, permits, holding, controllers, cut,
                 forcedEnd>>

(* Mutant: the deadline aborts the queries and leaves the sockets alone. *)
DeadlineAbortsQueries ==
  /\ localDrain = "draining"
  /\ controllers \ cut # {}
  /\ forcedEnd' = TRUE
  /\ cut' = cut \cup controllers
  /\ UNCHANGED <<bucketVars, request, permits, holding, controllers, localDrain>>

(* The deadline: the active queries are aborted, then all sockets closed,  *)
(* which ends the reading of bodies and closes every response.             *)
DeadlineExceeded ==
  /\ localDrain = "draining"
  /\ localDrain' = "forced"
  /\ forcedEnd' = TRUE
  /\ cut' = cut \cup controllers \cup {r \in HttpRequests : Connected(r)}
  /\ holding' = {}
  /\ permits' = permits - Cardinality(holding)
  /\ UNCHANGED <<bucketVars, request, controllers>>

(* await serverClosure, then the query module is closed. *)
CloseOntologyQuery ==
  /\ localDrain \in {"drained", "forced"}
  /\ localDrain' = "closed"
  /\ UNCHANGED <<bucketVars, request, permits, holding, controllers, cut,
                 forcedEnd>>

LocalProgress == DeadlineExceeded \/ Drained \/ CloseOntologyQuery

LocalNext ==
  \/ Tick \/ Shutdown \/ LocalProgress
  \/ \E r \in HttpRequests :
       RouteRequest(r) \/ BodyRead(r) \/ ClientCloses(r) \/ QueryAnswers(r)

-----------------------------------------------------------------------------

(* The permits in use are those of the admitted requests whose response is *)
(* still open: each is given back exactly once, by whichever of the close  *)
(* event and the handler's end comes first.                                *)
PermitsExact ==
  /\ permits = Cardinality(holding)
  /\ holding = {r \in HttpRequests : Connected(r)}
  /\ permits <= MaximumConcurrent

(* Whatever the clock does, the bucket lets at most its burst pass, and    *)
(* what the furthest progress of the clock has earned; and who was told    *)
(* when to retry, and does so then, is not refused by the bucket, unless   *)
(* the clock had been turned back when it was told: then the clock has     *)
(* first to make up for that, which what the client is told leaves out.    *)
BucketHonest ==
  /\ accepted * Scale <= Burst * Scale + latest * Refill
  /\ (promisedAt # -1 /\ clock >= promisedAt + setBack) => TokenAvailable

(* When the query module is closed, every handler that still runs has been *)
(* aborted.                                                                *)
QueriesCutBeforeClose ==
  localDrain = "closed" =>
    \A r \in HttpRequests : request[r] \in {"reading", "querying"} => r \in cut

LocalServerSafe == PermitsExact /\ BucketHonest /\ QueriesCutBeforeClose

(* A shutdown ends, with every socket closed, whatever the queries do. *)
LocalShutdownEnds == (localDrain = "draining") ~> (localDrain = "closed")
=============================================================================
