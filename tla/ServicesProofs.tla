---------------------------- MODULE ServicesProofs ----------------------------
(* Theorems about the services, for any number of calls, connections and     *)
(* requests, any byte limits, buckets and bodies.                            *)
EXTENDS Services, CollectionTheorems

\* A step of the composition is a step of one component; the others stay as they are.
LEMMA OneServiceSteps ==
  ASSUME [ServicesNext]_servicesVars
  PROVE  /\ Stdio!StdioNext \/ UNCHANGED stdioVars
         /\ Local!LocalNext \/ UNCHANGED localVars
         /\ Read!ReadNext \/ UNCHANGED readVars
         /\ IndexReads!ReadsNext \/ UNCHANGED readsVars
         /\ Node!NodeNext \/ UNCHANGED nodeVars
         /\ Pool!PoolNext \/ UNCHANGED poolVars
BY DEF ServicesNext, servicesVars, NodeStep, StdioStep, LocalStep, PoolStep, ReadStep,
       ReadsStep

-----------------------------------------------------------------------------
(* The stdio server.                                                        *)

\* A shutdown has aborted the lifecycle signal and keeps it so: a query module that has
\* been closed, or was never asked for when the close began, is never constructed again.
StdioInv ==
  /\ stdioHandle = "none" => stdioShutdown = "none"
  /\ stdioShutdown # "none" => lifecycleAborted
  /\ stdioHandle \in {"none", "open"} => queryClose = "none"
  /\ stdioHandle # "none" /\ stdioShutdown \in {"none", "racing"} => stdioExit = 0
  /\ queryClose # "none" => stdioShutdown # "none"
  /\ queryClose = "closed" => ontologyQueryPromise \in {"none", "failed", "closed"}
  /\ stdioShutdown = "graceful" =>
       stdioHandle = "closed" /\ queryClose = "closed" /\ stdioExit = 0
  /\ sourceKind = "unset" => stdioHandle = "none" /\ stdioExit = 0

\* The start of the process satisfies the invariant.
LEMMA StdioInitial == Stdio!StdioInit => StdioInv
BY DEF Stdio!StdioInit, StdioInv

\* Every step of the process preserves it.
LEMMA StdioStepKeeps ==
  ASSUME StdioInv, Stdio!StdioNext PROVE StdioInv'
<1> USE DEF StdioInv
<1>1. CASE Stdio!Start
  BY <1>1 DEF Stdio!Start
<1>2. CASE Stdio!BeginShutdown
  BY <1>2 DEF Stdio!BeginShutdown, Stdio!Serving
<1>3. CASE Stdio!ContinueConstruction
  BY <1>3 DEF Stdio!ContinueConstruction
<1>4. CASE Stdio!CloseStarts
  BY <1>4 DEF Stdio!CloseStarts
<1>5. CASE Stdio!HandleCloses
  BY <1>5 DEF Stdio!HandleCloses
<1>6. CASE Stdio!QueryCloses
  BY <1>6 DEF Stdio!QueryCloses
<1>7. CASE Stdio!ShutdownSettles
  BY <1>7 DEF Stdio!ShutdownSettles
<1>8. ASSUME NEW c \in Connections, Stdio!BuildMcpServer(c) PROVE StdioInv'
  BY <1>8 DEF Stdio!BuildMcpServer, Stdio!CreateSharedOntologyQuery, Stdio!Serving
<1>9. ASSUME NEW c \in Connections,
             Stdio!ServerBuilt(c) \/ Stdio!CallTool(c) \/ Stdio!CancelTool(c)
               \/ Stdio!ToolEnds(c)
      PROVE  StdioInv'
  BY <1>9 DEF Stdio!ServerBuilt, Stdio!CallTool, Stdio!CancelTool, Stdio!ToolEnds
<1> QED BY <1>1, <1>2, <1>3, <1>4, <1>5, <1>6, <1>7, <1>8, <1>9
        DEF Stdio!StdioNext, Stdio!StdioProgress

-----------------------------------------------------------------------------
(* The local server: permits and shutdown.                                  *)

\* A permit is held by every request whose response is open, and by nobody else; none is
\* open once the server has drained or its sockets have been closed.
PermitInv ==
  /\ request \in [HttpRequests ->
                    {"unsent", "reading", "querying", "rejected", "ended"}]
  /\ IsFiniteSet(holding) /\ permits = Cardinality(holding)
  /\ \A r : r \in holding <=> r \in HttpRequests /\ Local!Connected(r)
  /\ permits <= MaximumConcurrent
  /\ \A r \in cut : request[r] # "unsent"
  /\ \A r \in controllers : r \in HttpRequests /\ request[r] = "querying"
  /\ localDrain \in {"drained", "forced", "closed"} => holding = {}

\* An instance counts as its module does.
LEMMA LocalCardinality == ASSUME NEW S PROVE Local!Cardinality(S) = Cardinality(S)
BY DEF Local!Cardinality, Cardinality

\* The limit is a number.
LEMMA LimitType == MaximumConcurrent \in Nat \ {0}
BY ServicesAssumption DEF Local!LimiterAssumption

\* The start of the server satisfies the invariant.
LEMMA PermitInitial == Local!LocalInit => PermitInv
<1> SUFFICES ASSUME Local!LocalInit PROVE PermitInv
  OBVIOUS
<1>1. IsFiniteSet({}) /\ Cardinality({}) = 0
  BY FS_EmptySet
<1> QED BY <1>1, LimitType DEF Local!LocalInit, PermitInv, Local!Connected

\* A permit is given back once, whoever gives it back.
LEMMA PermitReleased ==
  ASSUME IsFiniteSet(holding), permits = Cardinality(holding),
         permits <= MaximumConcurrent, NEW r, Local!ReleasePermit(r)
  PROVE  /\ IsFiniteSet(holding') /\ permits' = Cardinality(holding')
         /\ permits' <= MaximumConcurrent
         /\ holding' = holding \ {r}
<1>1. IsFiniteSet(holding \ {r})
      /\ Cardinality(holding \ {r}) =
           IF r \in holding THEN Cardinality(holding) - 1 ELSE Cardinality(holding)
  BY FS_RemoveElement
<1>2. Cardinality(holding) \in Nat
  BY FS_CardinalityType
<1>3. holding' = holding \ {r}
      /\ permits' = IF r \in holding THEN permits - 1 ELSE permits
  BY DEF Local!ReleasePermit
<1> QED BY <1>1, <1>2, <1>3, LimitType

\* Every step of the server preserves it.
LEMMA PermitStepKeeps ==
  ASSUME PermitInv, Local!LocalNext PROVE PermitInv'
<1> USE DEF PermitInv, Local!Connected
<1>1. CASE Local!Tick
  BY <1>1 DEF Local!Tick
<1>2. CASE Local!Shutdown
  BY <1>2 DEF Local!Shutdown
<1>3. CASE Local!Drained
  BY <1>3 DEF Local!Drained
<1>4. CASE Local!DeadlineExceeded
  <2>1. IsFiniteSet({}) /\ Cardinality({}) = 0 /\ Cardinality(holding) \in Nat
    BY FS_EmptySet, FS_CardinalityType
  <2>2. /\ holding' = {} /\ permits' = permits - Cardinality(holding)
        /\ request' = request /\ controllers' = controllers
    BY <1>4, LocalCardinality DEF Local!DeadlineExceeded
  <2>. HIDE DEF Local!Connected, PermitInv
  <2>6. cut' = cut \cup controllers \cup {r \in HttpRequests : Local!Connected(r)}
    BY <1>4, Zenon DEF Local!DeadlineExceeded
  <2>. USE DEF Local!Connected, PermitInv
  <2>3. \A r \in HttpRequests : request[r] \in {"reading", "querying"} => r \in cut'
    BY <2>6
  <2>4. \A r \in cut' : \/ r \in cut \/ r \in controllers
                        \/ r \in HttpRequests /\ request[r] # "unsent"
    BY <2>6
  <2>5. permits' = 0
    BY <2>1, <2>2
  <2> QED BY <2>1, <2>2, <2>3, <2>4, <2>5, LimitType
<1>5. CASE Local!CloseOntologyQuery
  BY <1>5 DEF Local!CloseOntologyQuery
<1>6. ASSUME NEW r \in HttpRequests, Local!RouteRequest(r) PROVE PermitInv'
  <2>1. UNCHANGED <<controllers, cut, localDrain>> /\ request[r] = "unsent"
    BY <1>6 DEF Local!RouteRequest
  <2>2. r \notin holding /\ r \notin cut
    BY <2>1
  <2>3. CASE /\ localDrain = "no" /\ permits < MaximumConcurrent
             /\ request' = [request EXCEPT ![r] = "reading"]
             /\ permits' = permits + 1 /\ holding' = holding \cup {r}
    <3>1. IsFiniteSet(holding \cup {r})
          /\ Cardinality(holding \cup {r}) = Cardinality(holding) + 1
      BY <2>2, FS_AddElement
    <3>2. Cardinality(holding) \in Nat
      BY FS_CardinalityType
    <3>3. permits' = Cardinality(holding') /\ permits' <= MaximumConcurrent
      BY <2>3, <3>1, <3>2, LimitType
    <3> QED BY <2>1, <2>2, <2>3, <3>1, <3>3
  <2>4. CASE /\ request' = [request EXCEPT ![r] = "rejected"]
             /\ UNCHANGED <<permits, holding>>
    BY <2>1, <2>4
  <2> QED BY <1>6, <2>3, <2>4 DEF Local!RouteRequest, Local!Listening
<1>7. ASSUME NEW r \in HttpRequests, Local!BodyRead(r) PROVE PermitInv'
  <2>1. UNCHANGED <<cut, localDrain>> /\ request[r] = "reading"
    BY <1>7 DEF Local!BodyRead
  <2>2. CASE Local!BodyRefused(r)
    <3>1. Local!ReleasePermit(r) /\ UNCHANGED controllers
          /\ request' = [request EXCEPT ![r] = "ended"]
      BY <2>2 DEF Local!BodyRefused
    <3>2. /\ IsFiniteSet(holding') /\ permits' = Cardinality(holding')
          /\ permits' <= MaximumConcurrent /\ holding' = holding \ {r}
      BY <3>1, PermitReleased
    <3> QED BY <2>1, <3>1, <3>2
  <2>3. CASE Local!HandlerStarts(r)
    BY <2>1, <2>3 DEF Local!HandlerStarts
  <2> QED BY <1>7, <2>2, <2>3 DEF Local!BodyRead
<1>8. ASSUME NEW r \in HttpRequests, Local!ClientCloses(r) PROVE PermitInv'
  <2>1. /\ UNCHANGED <<request, controllers, localDrain>>
        /\ request[r] \in {"reading", "querying"}
        /\ cut' = cut \cup {r} /\ Local!ReleasePermit(r)
    BY <1>8 DEF Local!ClientCloses
  <2>2. /\ IsFiniteSet(holding') /\ permits' = Cardinality(holding')
        /\ permits' <= MaximumConcurrent /\ holding' = holding \ {r}
    BY <2>1, PermitReleased
  <2> QED BY <2>1, <2>2
<1>9. ASSUME NEW r \in HttpRequests, Local!QueryAnswers(r) PROVE PermitInv'
  <2>1. /\ UNCHANGED <<cut, localDrain>>
        /\ request' = [request EXCEPT ![r] = "ended"]
        /\ controllers' = controllers \ {r} /\ Local!ReleasePermit(r)
    BY <1>9 DEF Local!QueryAnswers
  <2>2. /\ IsFiniteSet(holding') /\ permits' = Cardinality(holding')
        /\ permits' <= MaximumConcurrent /\ holding' = holding \ {r}
    BY <2>1, PermitReleased
  <2> QED BY <2>1, <2>2
<1> QED BY <1>1, <1>2, <1>3, <1>4, <1>5, <1>6, <1>7, <1>8, <1>9
        DEF Local!LocalNext, Local!LocalProgress
-----------------------------------------------------------------------------
(* The local server: the token bucket.                                      *)

\* What was promised, and what the clock has to make up for before that.
Due == promisedAt + setBack

\* What has passed and what is in the bucket was there at the start or has been earned
\* since; after a refusal a token will have been earned by the time that is due.
BucketInv ==
  /\ clock \in Nat /\ latest \in Nat /\ clock <= latest /\ accepted \in Nat
  /\ promisedAt \in Int /\ setBack \in Int
  /\ bucket # <<>> => bucket \in [tokens : Nat, observedAt : Nat]
  /\ IF bucket = <<>> THEN accepted = 0 /\ promisedAt = -1
     ELSE /\ bucket.observedAt <= latest
          /\ accepted * Scale + bucket.tokens
               <= Burst * Scale + bucket.observedAt * Refill
          /\ promisedAt # -1 =>
               /\ bucket.observedAt <= Due
               /\ bucket.tokens + (Due - bucket.observedAt) * Refill >= Scale

\* The parameters of the bucket are numbers.
LEMMA BucketTypes ==
  /\ Burst \in Nat \ {0} /\ Scale \in Nat \ {0} /\ Refill \in Nat \ {0}
  /\ Burst * Scale \in Nat /\ Burst * Scale >= Scale
<1>1. Burst \in Nat \ {0} /\ Scale \in Nat \ {0} /\ Refill \in Nat \ {0}
  BY ServicesAssumption DEF Local!LimiterAssumption
<1>2. Burst * Scale = Scale + (Burst - 1) * Scale /\ (Burst - 1) * Scale \in Nat
  BY <1>1
<1> QED BY <1>1, <1>2

\* A quotient that is rounded up, times the divisor, is no less than the dividend.
LEMMA RoundedUp ==
  ASSUME NEW x \in Int, NEW d \in Nat \ {0}
  PROVE  /\ Local!CeilDiv(x, d) \in Int
         /\ Local!CeilDiv(x, d) * d >= x
<1> DEFINE y == x + d - 1
<1>1. y \in Int /\ y \div d \in Int /\ y % d \in 0..(d - 1)
      /\ y = d * (y \div d) + (y % d)
  OBVIOUS
<1>2. (y \div d) * d = d * (y \div d)
  BY <1>1
<1>3. (y \div d) * d >= x
  BY <1>1, <1>2
<1> QED BY <1>1, <1>3 DEF Local!CeilDiv

\* A bucket is not the empty sequence.
LEMMA BucketIsThere ==
  ASSUME NEW t, NEW o PROVE [tokens |-> t, observedAt |-> o] # <<>>
<1>1. "tokens" \in DOMAIN [tokens |-> t, observedAt |-> o]
  OBVIOUS
<1>2. DOMAIN <<>> = {}
  OBVIOUS
<1> QED BY <1>1, <1>2

\* The bucket that a call finds holds what has been earned, and no more than its size.
LEMMA RefilledBucket ==
  ASSUME BucketInv
  PROVE  /\ Local!Refilled \in [tokens : Nat, observedAt : Nat]
         /\ Local!Refilled.observedAt <= latest
         /\ Local!Refilled.observedAt >= clock
         /\ accepted * Scale + Local!Refilled.tokens
              <= Burst * Scale + Local!Refilled.observedAt * Refill
<1> USE DEF Local!Lesser, Local!Greater
<1>1. CASE bucket = <<>>
  <2>1. Local!Refilled = [tokens |-> Burst * Scale, observedAt |-> clock]
    BY <1>1 DEF Local!Refilled
  <2>2. accepted * Scale = 0 /\ clock * Refill \in Nat
    BY <1>1, BucketTypes DEF BucketInv
  <2> QED BY <1>1, <2>1, <2>2, BucketTypes DEF BucketInv
<1>2. CASE bucket # <<>>
  <2> DEFINE o == bucket.observedAt
             e == IF clock - o > 0 THEN clock - o ELSE 0
  <2>1. o \in Nat /\ bucket.tokens \in Nat /\ clock \in Nat /\ e \in Nat
    BY <1>2 DEF BucketInv
  <2>2. e * Refill \in Nat /\ (o + e) * Refill = o * Refill + e * Refill
    BY <2>1, BucketTypes
  <2>3. /\ Local!Refilled.tokens = IF Burst * Scale < bucket.tokens + e * Refill
                                   THEN Burst * Scale ELSE bucket.tokens + e * Refill
        /\ Local!Refilled.observedAt = o + e
        /\ Local!Refilled = [tokens |-> Local!Refilled.tokens,
                             observedAt |-> Local!Refilled.observedAt]
    BY <1>2, <2>1 DEF Local!Refilled
  <2>4. accepted * Scale \in Nat /\ o * Refill \in Nat
    BY <2>1, BucketTypes DEF BucketInv
  <2>5. accepted * Scale + bucket.tokens <= Burst * Scale + o * Refill
    BY <1>2 DEF BucketInv
  <2>6. o + e <= latest /\ o + e >= clock
    BY <1>2, <2>1 DEF BucketInv
  <2>7. accepted * Scale + Local!Refilled.tokens
          <= Burst * Scale + (o + e) * Refill
    <3> HIDE DEF o, e
    <3> QED BY <2>1, <2>2, <2>3, <2>4, <2>5, BucketTypes
  <2>8. Local!Refilled.tokens \in Nat /\ Local!Refilled.observedAt \in Nat
    <3> HIDE DEF o, e
    <3> QED BY <2>1, <2>2, <2>3, BucketTypes
  <2> QED BY <2>3, <2>6, <2>7, <2>8
<1> QED BY <1>1, <1>2

\* Who was told when to retry, and does so then, finds a token.
LEMMA PromiseIsKept ==
  ASSUME BucketInv, promisedAt # -1, clock >= Due
  PROVE  Local!TokenAvailable
<1> DEFINE o == bucket.observedAt
           e == clock - o
<1>1. bucket # <<>>
  BY DEF BucketInv
<1>2. /\ o \in Nat /\ bucket.tokens \in Nat /\ clock \in Nat /\ Due \in Int
      /\ o <= Due /\ bucket.tokens + (Due - o) * Refill >= Scale
  BY <1>1 DEF BucketInv, Due
<1>3. e \in Nat /\ Due - o \in Nat /\ clock - Due \in Nat
      /\ e = (Due - o) + (clock - Due)
  BY <1>2
<1>4. /\ e * Refill = (Due - o) * Refill + (clock - Due) * Refill
      /\ (clock - Due) * Refill \in Nat /\ (Due - o) * Refill \in Nat
  BY <1>2, <1>3, BucketTypes
<1>5. Local!Refilled.tokens = IF Burst * Scale < bucket.tokens + e * Refill
                              THEN Burst * Scale ELSE bucket.tokens + e * Refill
  BY <1>1, <1>2, <1>3 DEF Local!Refilled, Local!Lesser, Local!Greater
<1> HIDE DEF o, e
<1>6. bucket.tokens + e * Refill >= Scale
  BY <1>2, <1>4, BucketTypes
<1> QED BY <1>5, <1>6, BucketTypes DEF Local!TokenAvailable

\* Every step of the server preserves the invariant of the bucket.
LEMMA BucketStepKeeps ==
  ASSUME BucketInv, Local!LocalNext PROVE BucketInv'
<1>1. CASE Local!Take
  <2> DEFINE f == Local!Refilled
  <2>1. /\ f \in [tokens : Nat, observedAt : Nat]
        /\ f.observedAt <= latest /\ f.observedAt >= clock
        /\ accepted * Scale + f.tokens <= Burst * Scale + f.observedAt * Refill
    BY RefilledBucket
  <2>2. /\ clock' = clock /\ latest' = latest
        /\ clock \in Nat /\ latest \in Nat /\ clock <= latest /\ accepted \in Nat
    BY <1>1 DEF Local!Take, BucketInv
  <2>3. CASE Local!TokenAvailable
    <3>1. /\ bucket' = [f EXCEPT !.tokens = @ - Scale] /\ accepted' = accepted + 1
          /\ promisedAt' = -1 /\ setBack' = 0 /\ f.tokens >= Scale
      BY <1>1, <2>3 DEF Local!Take, Local!TokenAvailable
    <3> HIDE DEF f
    <3>2. bucket' = [tokens |-> f.tokens - Scale, observedAt |-> f.observedAt]
      BY <2>1, <3>1
    <3>3. bucket' # <<>>
      BY <3>2, BucketIsThere
    <3>4. f.tokens - Scale \in Nat /\ f.observedAt \in Nat
      BY <2>1, <3>1, BucketTypes
    <3>5. accepted' * Scale = accepted * Scale + Scale /\ accepted * Scale \in Nat
      <4>1. \A a, b \in Nat : (a + 1) * b = a * b + b /\ a * b \in Nat
        OBVIOUS
      <4> QED BY <2>2, <3>1, <4>1, BucketTypes
    <3>6. f.observedAt * Refill \in Nat
      BY <3>4, BucketTypes
    <3>7. accepted' * Scale + bucket'.tokens
            <= Burst * Scale + bucket'.observedAt * Refill
      BY <2>1, <3>2, <3>4, <3>5, <3>6, BucketTypes
    <3> QED BY <2>1, <2>2, <3>1, <3>2, <3>3, <3>4, <3>7 DEF BucketInv
  <2>4. CASE ~Local!TokenAvailable
    <3> DEFINE n == Local!CeilDiv(Scale - f.tokens, Refill)
               wait == Local!RetryAfter(f)
    <3>1. /\ bucket' = f /\ accepted' = accepted
          /\ promisedAt' = clock + wait /\ setBack' = f.observedAt - clock
          /\ ~(f.tokens >= Scale)
      BY <1>1, <2>4 DEF Local!Take, Local!TokenAvailable
    <3> HIDE DEF f
    <3>2. f.tokens \in Nat /\ f.observedAt \in Nat
          /\ f = [tokens |-> f.tokens, observedAt |-> f.observedAt]
      BY <2>1
    <3>3. f # <<>>
      BY <3>2, BucketIsThere
    <3>4. n \in Int /\ n * Refill >= Scale - f.tokens
      <4>1. Scale - f.tokens \in Int
        BY <3>2, BucketTypes
      <4> QED BY <4>1, BucketTypes, RoundedUp
    <3>5. wait = IF 1 > n THEN 1 ELSE n
      BY DEF Local!RetryAfter, Local!Greater
    <3> HIDE DEF n, wait
    <3>6. wait \in Nat /\ wait * Refill >= Scale - f.tokens
      <4>1. CASE n >= 1
        BY <4>1, <3>4, <3>5
      <4>2. CASE ~(n >= 1)
        <5>1. wait = 1 /\ wait * Refill = Refill
          BY <4>2, <3>4, <3>5, BucketTypes
        <5>2. n * Refill <= 0
          BY <4>2, <3>4, BucketTypes
        <5> QED BY <5>1, <5>2, <3>2, <3>4, BucketTypes
      <4> QED BY <4>1, <4>2
    <3>7. wait * Refill \in Nat /\ Due' - f.observedAt = wait /\ f.observedAt <= Due'
          /\ promisedAt' \in Int /\ setBack' \in Int
      BY <2>2, <3>1, <3>2, <3>6, BucketTypes DEF Due
    <3>8. f.tokens + (Due' - f.observedAt) * Refill >= Scale
      BY <3>2, <3>6, <3>7, BucketTypes
    <3> QED BY <2>1, <2>2, <3>1, <3>2, <3>3, <3>7, <3>8 DEF BucketInv
  <2> QED BY <2>3, <2>4
<1>2. CASE Local!Tick
  BY <1>2 DEF Local!Tick, BucketInv, Due, Local!Greater
<1>3. CASE UNCHANGED <<clock, latest, bucket, accepted, promisedAt, setBack>>
  BY <1>3 DEF BucketInv, Due
<1> QED BY <1>1, <1>2, <1>3
   DEF Local!LocalNext, Local!LocalProgress, Local!bucketVars, Local!Shutdown,
       Local!Drained, Local!DeadlineExceeded, Local!CloseOntologyQuery, Local!RouteRequest,
       Local!BodyRead, Local!ClientCloses, Local!QueryAnswers
-----------------------------------------------------------------------------
(* Both servers.                                                            *)

\* The local server does what it promises: what it holds, what it lets pass, and whom it
\* cuts off before it closes the query module.
LEMMA LocalPromises == PermitInv /\ BucketInv => Local!LocalServerSafe
<1> SUFFICES ASSUME PermitInv, BucketInv PROVE Local!LocalServerSafe
  OBVIOUS
<1>1. Local!PermitsExact
  <2>1. holding = {r \in HttpRequests : Local!Connected(r)}
    BY DEF PermitInv
  <2> QED BY <2>1, LocalCardinality DEF Local!PermitsExact, PermitInv
<1>2. Local!BucketHonest
  <2>1. accepted * Scale <= Burst * Scale + latest * Refill
    <3>1. CASE bucket = <<>>
      <4>1. accepted * Scale = 0 /\ latest * Refill \in Nat
        BY <3>1, BucketTypes DEF BucketInv
      <4> QED BY <4>1, BucketTypes
    <3>2. CASE bucket # <<>>
      <4>1. /\ bucket.observedAt \in Nat /\ bucket.tokens \in Nat /\ latest \in Nat
            /\ accepted \in Nat /\ latest - bucket.observedAt \in Nat
            /\ accepted * Scale + bucket.tokens
                 <= Burst * Scale + bucket.observedAt * Refill
        BY <3>2 DEF BucketInv
      <4>2. \A a, b, c \in Nat : b - a \in Nat => (b - a) * c \in Nat
                                                 /\ b * c = a * c + (b - a) * c
                                                 /\ a * c \in Nat
        OBVIOUS
      <4>3. bucket.observedAt * Refill <= latest * Refill
            /\ bucket.observedAt * Refill \in Nat /\ latest * Refill \in Nat
        BY <4>1, <4>2, BucketTypes
      <4>4. accepted * Scale \in Nat
        BY <4>1, BucketTypes
      <4> QED BY <4>1, <4>3, <4>4, BucketTypes
    <3> QED BY <3>1, <3>2
  <2> QED BY <2>1, PromiseIsKept DEF Local!BucketHonest, Due
<1>3. Local!QueriesCutBeforeClose
  BY DEF Local!QueriesCutBeforeClose, PermitInv, Local!Connected
<1> QED BY <1>1, <1>2, <1>3 DEF Local!LocalServerSafe

ServersInv == StdioInv /\ PermitInv /\ BucketInv

\* The stdio server ends gracefully only with its query module closed; and the local server
\* counts the permits it has given, lets pass no more than its bucket holds and earns
\* whatever the clock does, keeps its word on when to retry once the clock has made up for
\* what it had been set back, and closes the query module only over queries that have been
\* aborted (runUniversalOntologyMcpStdioServer.js, runLocalOntologyMcpServer.js).
THEOREM ServersAreSafe == ServicesSpec => []ServersSafe
<1>1. ServicesInit => ServersInv
  <2> SUFFICES ASSUME ServicesInit PROVE ServersInv
    OBVIOUS
  <2>1. BucketInv
    <3>1. /\ clock = 0 /\ latest = 0 /\ bucket = <<>> /\ accepted = 0
          /\ promisedAt = -1 /\ setBack = 0
      BY DEF ServicesInit, Local!LocalInit
    <3> QED BY ONLY <3>1 DEF BucketInv
  <2> QED BY <2>1, StdioInitial, PermitInitial DEF ServicesInit, ServersInv
<1>2. ServersInv /\ [ServicesNext]_servicesVars => ServersInv'
  <2> SUFFICES ASSUME ServersInv, [ServicesNext]_servicesVars PROVE ServersInv'
    OBVIOUS
  <2>1. StdioInv'
    <3>1. CASE UNCHANGED stdioVars
      BY <3>1 DEF stdioVars, ServersInv, StdioInv
    <3> QED BY <3>1, OneServiceSteps, StdioStepKeeps DEF ServersInv
  <2>2. PermitInv'
    <3>1. CASE UNCHANGED localVars
      BY <3>1 DEF localVars, ServersInv, PermitInv, Local!Connected
    <3> QED BY <3>1, OneServiceSteps, PermitStepKeeps DEF ServersInv
  <2>3. BucketInv'
    <3>1. CASE UNCHANGED localVars
      BY <3>1 DEF localVars, ServersInv, BucketInv, Due
    <3> QED BY <3>1, OneServiceSteps, BucketStepKeeps DEF ServersInv
  <2> QED BY <2>1, <2>2, <2>3 DEF ServersInv
<1>3. ServersInv => ServersSafe
  <2>1. StdioInv => Stdio!GracefulMeansClosed
    BY DEF StdioInv, Stdio!GracefulMeansClosed
  <2> QED BY <2>1, LocalPromises DEF ServersInv, ServersSafe
<1> QED BY <1>1, <1>2, <1>3, PTL DEF ServicesSpec
-----------------------------------------------------------------------------
(* Reads of an artifact over HTTP.                                          *)

Reasons == {"caller", "timeout"}
Complaints == {"network", "invalid_response", "not_modified", "http_status", "too_large",
               "type_error"}

\* A timer runs only while its read is under way, a body is read only after a response that
\* nothing is wrong with, and an abort has cancelled the body that was being read.
ReadInv ==
  /\ adapter \in {"bounded", "page"}
  /\ readStage \in {"idle", "fetching", "reading", "ended"}
  /\ timer \in {"off", "armed", "fired"} /\ (timer = "armed" => readStage # "idle")
  /\ abortReason \in {None} \cup Reasons
  /\ receivedBytes \in Nat
  /\ readStage \in {"idle", "fetching"} => body = "none" /\ receivedBytes = 0
  /\ readStage = "reading" =>
       /\ answer.status = 200 /\ answer.json /\ ~answer.redirected
       /\ body = IF abortReason = None THEN "open" ELSE "cancelled"
       /\ receivedBytes <= MaximumBytes
  /\ Read!ReadHonest

\* None is no reason and no outcome.
LEMMA NoneIsNoReason ==
  None \notin Reasons \cup Complaints \cup {"fetched"} /\ MaximumBytes \in Nat
BY ServicesAssumption DEF Read!BodyAssumption, Reasons, Complaints

\* The start of a read satisfies the invariant.
LEMMA ReadInitial == Read!ReadInit => ReadInv
BY DEF Read!ReadInit, ReadInv, Read!ReadHonest

\* A response that is refused unread is refused with a complaint of its own, and one that is
\* not has status 200 and is JSON from where it was asked for.
LEMMA ObjectionIsOwn ==
  ASSUME NEW r \in Read!Responses
  PROVE  /\ Read!Objection(r) \in {None} \cup Complaints
         /\ Read!Objection(r) = None => r.status = 200 /\ r.json /\ ~r.redirected
         /\ Read!Objection(r) = "not_modified" => conditional /\ r.status = 304
<1>1. r.json \in BOOLEAN /\ r.redirected \in BOOLEAN
  BY DEF Read!Responses
<1> QED BY <1>1, NoneIsNoReason DEF Read!Objection, Complaints

\* Every step of a read preserves the invariant.
LEMMA ReadStepKeeps ==
  ASSUME ReadInv, Read!ReadNext PROVE ReadInv'
<1> USE NoneIsNoReason DEF ReadInv, Read!ReadHonest, Reasons, Complaints, Read!EndWith
<1>1. CASE Read!Read
  BY <1>1 DEF Read!Read
<1>2. CASE Read!CallerAborts
  BY <1>2 DEF Read!CallerAborts, Read!Abort
<1>3. CASE Read!TimerFires
  BY <1>3 DEF Read!TimerFires, Read!Abort
<1>4. CASE Read!FetchFails
  BY <1>4 DEF Read!FetchFails
<1>5. ASSUME NEW r \in Read!Responses, Read!FetchResolves(r) PROVE ReadInv'
  <2>1. /\ readStage = "fetching" /\ answer' = r
        /\ UNCHANGED <<adapter, conditional, receivedBytes, abortReason>>
    BY <1>5 DEF Read!FetchResolves
  <2>2. /\ Read!Objection(r) \in {None} \cup Complaints
        /\ Read!Objection(r) = None => r.status = 200 /\ r.json /\ ~r.redirected
        /\ Read!Objection(r) = "not_modified" => conditional /\ r.status = 304
    BY ObjectionIsOwn
  <2>3. CASE abortReason # None \/ Read!Objection(r) # None
    <3>1. /\ Read!EndWith(IF abortReason # None THEN abortReason ELSE Read!Objection(r))
          /\ body' = IF ~r.hasBody THEN "none"
                     ELSE IF adapter = "bounded" THEN "cancelled" ELSE "open"
      BY <1>5, <2>3 DEF Read!FetchResolves
    <3>2. CASE abortReason # None
      BY <2>1, <3>1, <3>2
    <3>3. CASE abortReason = None
      BY <2>1, <2>2, <2>3, <3>1, <3>3
    <3> QED BY <3>2, <3>3
  <2>4. CASE ~(abortReason # None \/ Read!Objection(r) # None)
    <3>1. readStage' = "reading" /\ body' = "open" /\ UNCHANGED <<readOutcome, timer>>
      BY <1>5, <2>4 DEF Read!FetchResolves
    <3>2. receivedBytes <= MaximumBytes
      BY <2>1
    <3> QED BY <2>1, <2>2, <2>4, <3>1, <3>2
  <2> QED BY <2>3, <2>4
<1>6. ASSUME NEW n \in 1..LongestBody, Read!Chunk(n) PROVE ReadInv'
  BY <1>6 DEF Read!Chunk, Read!Interrupted
<1>7. CASE Read!MalformedChunk
  BY <1>7 DEF Read!MalformedChunk, Read!Interrupted, Read!Refuse
<1>8. CASE Read!StreamEnds
  BY <1>8 DEF Read!StreamEnds, Read!Interrupted, Read!Completed
<1>9. CASE Read!StreamFails
  BY <1>9 DEF Read!StreamFails, Read!Interrupted
<1> QED BY <1>1, <1>2, <1>3, <1>4, <1>5, <1>6, <1>7, <1>8, <1>9 DEF Read!ReadNext
-----------------------------------------------------------------------------
(* Reads of release indexes.                                                *)

\* The places of the reads and of the populations, and what is counted.
IndexReadsTypes ==
  /\ release \in [Reads -> Releases]
  /\ callKey = [c \in Reads |-> <<ProcessOf[c], IndexReads!Digest(c)>>]
  /\ shares \in [Reads -> Reads]
  /\ call \in [Reads -> {"idle", "waiting", "cancelled", "served"}]
  /\ status \in [Reads -> {"none", "live", "abandoned", "done"}]
  /\ step \in [Reads -> {"start", "share", "waiting", "prune", "listing", "evicting",
                         "answered", "mismatch", "unavailable", "cancelled"}]
  /\ population \in [Reads -> {"none", "acquire", "check", "fetch", "install", "release",
                               "ended"}]
  /\ result \in [Reads -> {None, "bytes", "error"}]
  /\ leaseHolder \in [IndexReads!Digests -> Reads \cup {None}]
  /\ installations \in [IndexReads!Digests -> Nat]
  /\ evictions \in [IndexReads!Digests -> Nat]
  /\ listed \in [Reads -> SUBSET IndexReads!Digests]
  /\ stored \subseteq IndexReads!Digests

\* The population a read shares is of the digest it asks for; it holds the lease of the
\* digest from the check of the cache to its end, and nobody else stores that digest
\* meanwhile; and it has failed only if it was abandoned or its origin or lease failed it.
PopulationsAreSound ==
  \A c \in Reads :
    /\ IndexReads!Digest(shares[c]) = IndexReads!Digest(c)
    /\ call[c] = "idle" => population[c] = "none"
    /\ population[c] \in {"release", "ended"} <=> result[c] # None
    /\ status[c] = "done" => population[c] = "ended"
    /\ result[c] = "error" /\ status[c] # "abandoned" => IndexReads!Digest(c) \in troubled
    /\ population[c] \in {"check", "fetch", "install"}
         => leaseHolder[IndexReads!Digest(c)] = c
    /\ population[c] \in {"fetch", "install"} => IndexReads!Digest(c) \notin stored

\* A lease is held by a population of its digest that has not ended; and a digest has been
\* installed no more often than it was evicted, but for the one that is stored.
LeasesAreSound ==
  \A d \in IndexReads!Digests :
    /\ leaseHolder[d] # None =>
         /\ IndexReads!Digest(leaseHolder[d]) = d
         /\ population[leaseHolder[d]] \in {"check", "fetch", "install", "release"}
    /\ installations[d] <= evictions[d] + IF d \in stored THEN 1 ELSE 0

\* What a read has listed, and not looked up yet, is still there, but for what another's
\* eviction has removed.
ListingsAreSound ==
  \A c \in Reads : step[c] = "listing" => listed[c] \subseteq stored \/ c \in overtaken

IndexReadsInv ==
  /\ IndexReadsTypes /\ PopulationsAreSound /\ LeasesAreSound /\ ListingsAreSound
  /\ IndexReads!FailuresExplained

\* None is nobody.
LEMMA NoneIsNobody == None \notin Reads \cup {"bytes", "error"}
BY ServicesAssumption DEF IndexReads!HolderAssumption

\* A read asks for one digest, whichever population it shares.
LEMMA TargetIsDigest ==
  ASSUME IndexReadsTypes, NEW c \in Reads
  PROVE  IndexReads!Target(c) = IndexReads!Digest(c)
         /\ IndexReads!Digest(c) \in IndexReads!Digests
BY DEF IndexReadsTypes, IndexReads!Target, IndexReads!Digest, IndexReads!Digests

\* The start of the reads satisfies the invariant.
LEMMA IndexReadsInitial == IndexReads!ReadsInit => IndexReadsInv
<1> SUFFICES ASSUME IndexReads!ReadsInit PROVE IndexReadsInv
  OBVIOUS
<1> QED BY NoneIsNobody
        DEF IndexReads!ReadsInit, IndexReadsInv, IndexReadsTypes, PopulationsAreSound,
            LeasesAreSound, ListingsAreSound, IndexReads!FailuresExplained,
            IndexReads!Digest, IndexReads!Digests

\* The steps of an eviction preserve the invariant: it removes files, and counts them.
LEMMA PruneKeeps ==
  ASSUME IndexReadsInv, NEW c \in Reads, IndexReads!Prune(c)
  PROVE  IndexReadsInv'
<1> USE DEF IndexReadsInv, IndexReads!Go
<1> DEFINE Steps == {"start", "share", "waiting", "prune", "listing", "evicting",
                     "answered", "mismatch", "unavailable", "cancelled"}
           Moves(e) ==
             /\ step[c] \in {"prune", "listing", "evicting"}
             /\ step' = [step EXCEPT ![c] = e]
             /\ e \in {"listing", "evicting", "answered", "unavailable", "cancelled"}
             /\ e = "listing" =>
                  listed' = [listed EXCEPT ![c] = stored] /\ stored' = stored
             /\ e = "unavailable" => c \in overtaken
             /\ e = "cancelled" => c \in withdrawn
<1>1. /\ UNCHANGED <<call, callKey, shares, status, release, withdrawn, population, result,
                     leaseHolder, troubled, installations>>
      /\ IndexReads!Digests' = IndexReads!Digests
  BY DEF IndexReads!Prune, IndexReads!ListFiles, IndexReads!LookUpFiles, IndexReads!Evict,
         IndexReads!KeepRest, IndexReads!PruneUnchanged, IndexReads!sharedVars,
         IndexReads!Digests
<1>2. PICK e \in Steps : Moves(e)
  <2>1. CASE IndexReads!ListFiles(c)
    BY <2>1 DEF IndexReads!ListFiles
  <2>2. CASE IndexReads!LookUpFiles(c)
    BY <2>2 DEF IndexReads!LookUpFiles, ListingsAreSound
  <2>3. ASSUME NEW d \in IndexReads!Digests, IndexReads!Evict(c, d)
        PROVE  \E e \in Steps : Moves(e)
    BY <2>3 DEF IndexReads!Evict, IndexReads!Stopped
  <2>4. CASE IndexReads!KeepRest(c)
    BY <2>4 DEF IndexReads!KeepRest, IndexReads!Stopped
  <2> QED BY <2>1, <2>2, <2>3, <2>4 DEF IndexReads!Prune
<1>3. /\ listed' \in [Reads -> SUBSET IndexReads!Digests]
      /\ \A r \in Reads \ {c} : listed'[r] = listed[r]
  <2>1. \E S \in SUBSET IndexReads!Digests : listed' = [listed EXCEPT ![c] = S]
    BY DEF IndexReads!Prune, IndexReads!ListFiles, IndexReads!LookUpFiles,
           IndexReads!Evict, IndexReads!KeepRest, IndexReadsTypes
  <2> QED BY <2>1 DEF IndexReadsTypes
<1>4. \/ UNCHANGED <<stored, evictions, overtaken>>
      \/ \E d \in IndexReads!Digests :
           /\ stored' = stored \ {d}
           /\ evictions' = [evictions EXCEPT ![d] = IF d \in stored THEN evictions[d] + 1
                                                   ELSE evictions[d]]
           /\ overtaken' = overtaken \cup
                             {r \in Reads : step[r] = "listing" /\ d \in listed[r]}
  BY DEF IndexReads!Prune, IndexReads!ListFiles, IndexReads!LookUpFiles, IndexReads!Evict,
         IndexReads!KeepRest
<1>5. /\ stored' \subseteq stored
      /\ evictions' \in [IndexReads!Digests -> Nat]
      /\ \A d \in IndexReads!Digests :
           evictions'[d] = IF d \in stored \ stored' THEN evictions[d] + 1 ELSE evictions[d]
  BY <1>4 DEF IndexReadsTypes
<1>6. IndexReadsTypes'
  <2>1. step' \in [Reads -> Steps]
    BY <1>2 DEF IndexReadsTypes
  <2>2. callKey' = [r \in Reads |-> <<ProcessOf[r], IndexReads!Digest(r)>>]'
    BY <1>1 DEF IndexReadsTypes, IndexReads!Digest
  <2> QED BY <1>1, <1>3, <1>5, <2>1, <2>2 DEF IndexReadsTypes
<1>7. PopulationsAreSound'
  BY <1>1, <1>5 DEF PopulationsAreSound, IndexReads!Digest
<1>8. LeasesAreSound'
  <2> SUFFICES ASSUME NEW d \in IndexReads!Digests PROVE LeasesAreSound!(d)'
    BY <1>1 DEF LeasesAreSound
  <2>1. /\ evictions[d] \in Nat /\ installations[d] \in Nat
        /\ installations[d] <= evictions[d] + IF d \in stored THEN 1 ELSE 0
    BY DEF LeasesAreSound, IndexReadsTypes
  <2>2. installations'[d] <= evictions'[d] + IF d \in stored' THEN 1 ELSE 0
    BY <1>1, <1>5, <2>1
  <2> QED BY <1>1, <2>2 DEF LeasesAreSound, IndexReads!Digest
<1>9. ListingsAreSound'
  <2> SUFFICES ASSUME NEW r \in Reads, step'[r] = "listing"
               PROVE  listed'[r] \subseteq stored' \/ r \in overtaken'
    BY DEF ListingsAreSound
  <2>1. CASE r = c
    <3>1. e = "listing"
      BY <1>2, <2>1 DEF IndexReadsTypes
    <3> QED BY <1>2, <2>1, <3>1 DEF IndexReadsTypes
  <2>2. CASE r # c
    <3>1. step[r] = "listing" /\ listed'[r] = listed[r]
      BY <1>2, <1>3, <2>2 DEF IndexReadsTypes
    <3> QED BY <1>4, <3>1 DEF ListingsAreSound
  <2> QED BY <2>1, <2>2
<1>10. IndexReads!FailuresExplained'
  BY <1>1, <1>2, <1>4 DEF IndexReads!FailuresExplained, IndexReadsTypes, IndexReads!Digest
<1> QED BY <1>6, <1>7, <1>8, <1>9, <1>10

\* The steps of one caller preserve the invariant.
LEMMA ReadProceedsKeeps ==
  ASSUME IndexReadsInv, NEW c \in Reads,
         IndexReads!ReadCache(c) \/ IndexReads!ReadProceeds(c) \/ IndexReads!Withdraw(c)
  PROVE  IndexReadsInv'
<1> USE NoneIsNobody, TargetIsDigest
    DEF IndexReadsInv, IndexReads!FailuresExplained, IndexReads!Digest, IndexReads!Go,
        IndexReads!Judge, IndexReads!sharedVars, IndexReads!accountVars,
        IndexReads!evictionVars
<1>1. CASE IndexReads!ReadCache(c)
  BY <1>1 DEF IndexReads!ReadCache, IndexReadsTypes, PopulationsAreSound, LeasesAreSound,
              ListingsAreSound
<1>2. CASE IndexReads!RefusePopulation(c)
  BY <1>2 DEF IndexReads!RefusePopulation, IndexReads!Shared!Refuse, IndexReadsTypes,
              PopulationsAreSound, LeasesAreSound, ListingsAreSound
<1>3. CASE IndexReads!StartPopulation(c)
  <2>1. /\ call[c] = "idle"
        /\ step' = [step EXCEPT ![c] = "waiting"]
        /\ population' = [population EXCEPT ![c] = "acquire"]
        /\ status' = [status EXCEPT ![c] = "live"] \/ status' = [status EXCEPT ![c] = "abandoned"]
        /\ call' = [call EXCEPT ![c] = "waiting"] \/ call' = [call EXCEPT ![c] = "cancelled"]
        /\ UNCHANGED <<callKey, shares, release, withdrawn, result, leaseHolder, stored,
                       troubled, evictions, installations, listed, overtaken>>
    BY <1>3 DEF IndexReads!StartPopulation, IndexReads!Shared!Start
  <2>2. population[c] = "none" /\ result[c] = None
    BY <2>1 DEF PopulationsAreSound, IndexReadsTypes
  <2>3. IndexReadsTypes'
    <3>0. /\ call \in [Reads -> {"idle", "waiting", "cancelled", "served"}]
          /\ status \in [Reads -> {"none", "live", "abandoned", "done"}]
      BY DEF IndexReadsTypes
    <3>1. call' \in [Reads -> {"idle", "waiting", "cancelled", "served"}]
      BY <2>1, <3>0
    <3>2. status' \in [Reads -> {"none", "live", "abandoned", "done"}]
      BY <2>1, <3>0
    <3>3. step' \in [Reads -> {"start", "share", "waiting", "prune", "listing", "evicting",
                               "answered", "mismatch", "unavailable", "cancelled"}]
      BY <2>1 DEF IndexReadsTypes
    <3>4. population' \in [Reads -> {"none", "acquire", "check", "fetch", "install", "release",
                                    "ended"}]
      BY <2>1 DEF IndexReadsTypes
    <3> QED BY <2>1, <3>1, <3>2, <3>3, <3>4 DEF IndexReadsTypes, IndexReads!Digests
  <2>4. PopulationsAreSound'
    BY <2>1, <2>2 DEF PopulationsAreSound, IndexReadsTypes
  <2>5. LeasesAreSound'
    BY <2>1, <2>2 DEF LeasesAreSound, IndexReadsTypes
  <2>6. IndexReads!FailuresExplained'
    BY <2>1 DEF IndexReadsTypes
  <2>7. ListingsAreSound'
    BY <2>1 DEF ListingsAreSound, IndexReadsTypes
  <2> QED BY <2>3, <2>4, <2>5, <2>6, <2>7
<1>4. CASE IndexReads!JoinPopulation(c)
  BY <1>4 DEF IndexReads!JoinPopulation, IndexReads!Shared!Join, IndexReads!Shared!Live,
              IndexReadsTypes, PopulationsAreSound, LeasesAreSound, ListingsAreSound
<1>5. CASE IndexReads!Withdraw(c)
  <2>1. /\ withdrawn' = withdrawn \cup {c}
        /\ \/ UNCHANGED <<call, status, step>>
           \/ /\ step' = [step EXCEPT ![c] = "cancelled"]
              /\ call[c] = "waiting" /\ call' = [call EXCEPT ![c] = "cancelled"]
              /\ \/ UNCHANGED status
                 \/ /\ status[shares[c]] = "live"
                    /\ status' = [status EXCEPT ![shares[c]] = "abandoned"]
        /\ UNCHANGED <<callKey, shares, release, population, result, leaseHolder, stored,
                       troubled, evictions, installations, listed, overtaken>>
    BY <1>5 DEF IndexReads!Withdraw, IndexReads!Shared!Leave
  <2>2. IndexReadsTypes'
    <3>1. call' \in [Reads -> {"idle", "waiting", "cancelled", "served"}]
      BY <2>1 DEF IndexReadsTypes
    <3>2. status' \in [Reads -> {"none", "live", "abandoned", "done"}]
      <4>1. status \in [Reads -> {"none", "live", "abandoned", "done"}]
        BY DEF IndexReadsTypes
      <4> QED BY <2>1, <4>1
    <3>3. step' \in [Reads -> {"start", "share", "waiting", "prune", "listing", "evicting",
                              "answered", "mismatch", "unavailable", "cancelled"}]
      BY <2>1 DEF IndexReadsTypes
    <3> QED BY <2>1, <3>1, <3>2, <3>3 DEF IndexReadsTypes, IndexReads!Digests
  <2>3. PopulationsAreSound'
    BY <2>1 DEF PopulationsAreSound, IndexReadsTypes
  <2>4. LeasesAreSound'
    BY <2>1 DEF LeasesAreSound, IndexReadsTypes
  <2>5. IndexReads!FailuresExplained'
    BY <2>1 DEF IndexReadsTypes
  <2>6. ListingsAreSound'
    BY <2>1 DEF ListingsAreSound, IndexReadsTypes
  <2> QED BY <2>2, <2>3, <2>4, <2>5, <2>6
<1>6. CASE IndexReads!Delivered(c)
  <2>1. /\ call' = [call EXCEPT ![c] = "served"]
        /\ status[shares[c]] = "done"
        /\ step' = [step EXCEPT ![c] = IF result[shares[c]] = "bytes" THEN IndexReads!Judge(c)
                                       ELSE "unavailable"]
        /\ UNCHANGED <<callKey, shares, status, release, withdrawn, population, result,
                       leaseHolder, stored, troubled, evictions, installations, listed, overtaken>>
    BY <1>6 DEF IndexReads!Delivered, IndexReads!Shared!Deliver
  <2>2. shares[c] \in Reads /\ IndexReads!Digest(shares[c]) = IndexReads!Digest(c)
    BY DEF IndexReadsTypes, PopulationsAreSound
  <2>3. result[shares[c]] = "bytes" \/ IndexReads!Digest(c) \in troubled
    BY <2>1, <2>2 DEF IndexReadsTypes, PopulationsAreSound
  <2>4. IndexReadsTypes'
    BY <2>1 DEF IndexReadsTypes
  <2>5. PopulationsAreSound' /\ LeasesAreSound'
    BY <2>1 DEF PopulationsAreSound, LeasesAreSound, IndexReadsTypes
  <2>6. IndexReads!FailuresExplained'
    BY <2>1, <2>3 DEF IndexReadsTypes
  <2>7. ListingsAreSound'
    BY <2>1 DEF ListingsAreSound, IndexReadsTypes
  <2> QED BY <2>4, <2>5, <2>6, <2>7
<1>7. CASE IndexReads!Prune(c)
  BY <1>7, PruneKeeps
<1> QED BY <1>1, <1>2, <1>3, <1>4, <1>5, <1>6, <1>7 DEF IndexReads!ReadProceeds

\* The steps of a population preserve it.
LEMMA PopulationProceedsKeeps ==
  ASSUME IndexReadsInv, NEW o \in Reads, IndexReads!PopulationProceeds(o)
  PROVE  IndexReadsInv'
<1> USE NoneIsNobody
    DEF IndexReadsInv, IndexReads!PopulationUnchanged, IndexReads!Abandoned,
        IndexReads!sharedVars, IndexReads!accountVars, IndexReads!evictionVars
<1> DEFINE D == IndexReads!Digest(o)
<1>1. /\ IndexReads!Target(o) = D /\ D \in IndexReads!Digests
      /\ D = DigestOf[release[o]]
  BY TargetIsDigest DEF IndexReads!Digest
<1>2. CASE IndexReads!AcquireLease(o)
  <2>1. /\ population[o] = "acquire" /\ leaseHolder[D] = None
        /\ leaseHolder' = [leaseHolder EXCEPT ![D] = o]
        /\ population' = [population EXCEPT ![o] = "check"]
        /\ UNCHANGED <<call, callKey, shares, status, release, step, withdrawn, result,
                       stored, troubled, evictions, installations, listed, overtaken>>
    BY <1>1, <1>2 DEF IndexReads!AcquireLease
  <2>2. IndexReadsTypes'
    BY <1>1, <2>1 DEF IndexReadsTypes, IndexReads!Digest
  <2>3. PopulationsAreSound'
    BY <1>1, <2>1 DEF PopulationsAreSound, IndexReadsTypes, IndexReads!Digest
  <2>4. LeasesAreSound'
    BY <1>1, <2>1 DEF LeasesAreSound, IndexReadsTypes, IndexReads!Digest
  <2>5. IndexReads!FailuresExplained'
    BY <2>1 DEF IndexReads!FailuresExplained, IndexReads!Digest
  <2>6. ListingsAreSound'
    BY <2>1 DEF ListingsAreSound, IndexReadsTypes
  <2> QED BY <2>2, <2>3, <2>4, <2>5, <2>6
<1>3. CASE IndexReads!CheckCache(o)
  <2>1. /\ population[o] = "check"
        /\ \/ /\ population' = [population EXCEPT ![o] = "release"]
              /\ result' = [result EXCEPT ![o] = "bytes"]
           \/ /\ population' = [population EXCEPT ![o] = "fetch"]
              /\ D \notin stored /\ UNCHANGED result
        /\ UNCHANGED <<call, callKey, shares, status, release, step, withdrawn,
                       leaseHolder, stored, troubled, evictions, installations, listed, overtaken>>
    BY <1>1, <1>3 DEF IndexReads!CheckCache
  <2>2. IndexReadsTypes'
    <3>1. population' \in [Reads -> {"none", "acquire", "check", "fetch", "install", "release",
                                    "ended"}]
      BY <2>1 DEF IndexReadsTypes
    <3>2. result' \in [Reads -> {None, "bytes", "error"}]
      BY <2>1 DEF IndexReadsTypes
    <3> QED BY <2>1, <3>1, <3>2 DEF IndexReadsTypes, IndexReads!Digest, IndexReads!Digests
  <2>3. PopulationsAreSound'
    <3>1. /\ population \in [Reads -> {"none", "acquire", "check", "fetch", "install",
                                     "release", "ended"}]
          /\ result \in [Reads -> {None, "bytes", "error"}] /\ release' = release
      BY <2>1 DEF IndexReadsTypes
    <3> SUFFICES ASSUME NEW c \in Reads PROVE PopulationsAreSound!(c)'
      BY DEF PopulationsAreSound
    <3>2. CASE c = o
      BY <1>1, <2>1, <3>1, <3>2 DEF PopulationsAreSound, IndexReads!Digest
    <3>3. CASE c # o
      BY <2>1, <3>1, <3>3 DEF PopulationsAreSound, IndexReads!Digest
    <3> QED BY <3>2, <3>3
  <2>4. LeasesAreSound'
    <3>1. \A c \in Reads : population[c] \in {"check", "fetch", "install", "release"}
                            => population'[c] \in {"check", "fetch", "install", "release"}
      BY <2>1 DEF IndexReadsTypes
    <3>2. \A d \in IndexReads!Digests : leaseHolder[d] \in Reads \cup {None}
      BY DEF IndexReadsTypes
    <3> QED BY <2>1, <3>1, <3>2 DEF LeasesAreSound, IndexReads!Digest, IndexReads!Digests
  <2>5. IndexReads!FailuresExplained'
    BY <2>1 DEF IndexReads!FailuresExplained, IndexReads!Digest
  <2>6. ListingsAreSound'
    BY <2>1 DEF ListingsAreSound, IndexReadsTypes
  <2> QED BY <2>2, <2>3, <2>4, <2>5, <2>6
<1>4. CASE IndexReads!Fetched(o)
  BY <1>4 DEF IndexReads!Fetched, IndexReadsTypes, PopulationsAreSound, LeasesAreSound,
              ListingsAreSound, IndexReads!FailuresExplained, IndexReads!Digest
<1>5. CASE IndexReads!Install(o)
  <2>1. /\ population[o] = "install"
        /\ stored' = stored \cup {D}
        /\ installations' = [installations EXCEPT ![D] = @ + 1]
        /\ population' = [population EXCEPT ![o] = "release"]
        /\ result' = [result EXCEPT ![o] = "bytes"]
        /\ UNCHANGED <<call, callKey, shares, status, release, step, withdrawn,
                       leaseHolder, troubled, evictions, listed, overtaken>>
    BY <1>1, <1>5 DEF IndexReads!Install
  <2>2. leaseHolder[D] = o /\ D \notin stored
    BY <2>1 DEF PopulationsAreSound
  <2>3. IndexReadsTypes'
    <3>1. installations' \in [IndexReads!Digests -> Nat]
      BY <1>1, <2>1 DEF IndexReadsTypes
    <3> QED BY <2>1, <3>1 DEF IndexReadsTypes, IndexReads!Digest, IndexReads!Digests
  <2>4. PopulationsAreSound'
    BY <1>1, <2>1, <2>2 DEF PopulationsAreSound, IndexReadsTypes, IndexReads!Digest
  <2>5. LeasesAreSound'
    <3> SUFFICES ASSUME NEW d \in IndexReads!Digests PROVE LeasesAreSound!(d)'
      BY DEF LeasesAreSound, IndexReads!Digests
    <3>1. /\ evictions[d] \in Nat /\ installations[d] \in Nat
          /\ installations[d] <= evictions[d] + IF d \in stored THEN 1 ELSE 0
      BY DEF LeasesAreSound, IndexReadsTypes
    <3>2. installations'[d] <= evictions'[d] + IF d \in stored' THEN 1 ELSE 0
      BY <2>1, <2>2, <3>1 DEF IndexReadsTypes
    <3>3. leaseHolder'[d] # None =>
            /\ IndexReads!Digest(leaseHolder[d])' = d
            /\ population'[leaseHolder'[d]] \in {"check", "fetch", "install", "release"}
      BY <2>1 DEF LeasesAreSound, IndexReadsTypes, IndexReads!Digest
    <3> QED BY <3>2, <3>3
  <2>6. IndexReads!FailuresExplained'
    BY <2>1 DEF IndexReads!FailuresExplained, IndexReads!Digest
  <2>7. ListingsAreSound'
    BY <2>1 DEF ListingsAreSound, IndexReadsTypes
  <2> QED BY <2>3, <2>4, <2>5, <2>6, <2>7
<1>6. CASE IndexReads!PopulationFails(o)
  BY <1>1, <1>6
     DEF IndexReads!PopulationFails, IndexReadsTypes, PopulationsAreSound, LeasesAreSound,
         ListingsAreSound, IndexReads!FailuresExplained, IndexReads!Digest
<1>7. CASE IndexReads!PopulationStops(o)
  BY <1>7 DEF IndexReads!PopulationStops, IndexReadsTypes, PopulationsAreSound,
              LeasesAreSound, ListingsAreSound, IndexReads!FailuresExplained,
              IndexReads!Digest
<1>8. CASE IndexReads!ReleaseLease(o)
  <2>1. /\ population[o] = "release"
        /\ leaseHolder' = [leaseHolder EXCEPT ![D] = IF leaseHolder[D] = o THEN None
                                                    ELSE leaseHolder[D]]
        /\ population' = [population EXCEPT ![o] = "ended"]
        /\ status' = [status EXCEPT ![o] = "done"] \/ UNCHANGED status
        /\ status[o] = "abandoned" => UNCHANGED status
        /\ UNCHANGED <<call, callKey, shares, release, step, withdrawn, result, stored,
                       troubled, evictions, installations, listed, overtaken>>
    BY <1>1, <1>8 DEF IndexReads!ReleaseLease, IndexReads!Unleased, IndexReads!Shared!Finish
  <2>2. IndexReadsTypes'
    BY <1>1, <2>1 DEF IndexReadsTypes, IndexReads!Digest
  <2>3. PopulationsAreSound'
    BY <1>1, <2>1 DEF PopulationsAreSound, IndexReadsTypes, IndexReads!Digest
  <2>4. LeasesAreSound'
    BY <1>1, <2>1 DEF LeasesAreSound, IndexReadsTypes, IndexReads!Digest
  <2>5. IndexReads!FailuresExplained'
    BY <2>1 DEF IndexReads!FailuresExplained, IndexReads!Digest
  <2>6. ListingsAreSound'
    BY <2>1 DEF ListingsAreSound, IndexReadsTypes
  <2> QED BY <2>2, <2>3, <2>4, <2>5, <2>6
<1> QED BY <1>2, <1>3, <1>4, <1>5, <1>6, <1>7, <1>8 DEF IndexReads!PopulationProceeds

\* A read of an artifact that no step touches stays as it is ...
LEMMA ReadStands == ASSUME ReadInv, UNCHANGED readVars PROVE ReadInv'
BY DEF ReadInv, readVars, Read!ReadHonest, Reasons, Complaints
\* ... and so do the reads of indexes.
LEMMA IndexReadsStand == ASSUME IndexReadsInv, UNCHANGED readsVars PROVE IndexReadsInv'
BY DEF IndexReadsInv, readsVars, IndexReadsTypes, PopulationsAreSound, LeasesAreSound,
       ListingsAreSound, IndexReads!FailuresExplained, IndexReads!Digest, IndexReads!Digests

\* What a read of an artifact reports is so, and a read of an index fails for a reason
\* that can be named and populates the cache once: for any number of reads, processes, releases
\* and bytes.
THEOREM ReadsAreSafe == ServicesSpec => []ReadsSafe
<1>1. ServicesInit => ReadInv /\ IndexReadsInv
  BY ReadInitial, IndexReadsInitial DEF ServicesInit
<1>2. ReadInv /\ IndexReadsInv /\ [ServicesNext]_servicesVars => (ReadInv /\ IndexReadsInv)'
  <2> SUFFICES ASSUME ReadInv, IndexReadsInv, [ServicesNext]_servicesVars
               PROVE  ReadInv' /\ IndexReadsInv'
    OBVIOUS
  <2>1. CASE Read!ReadNext /\ UNCHANGED readsVars
    BY <2>1, ReadStepKeeps, IndexReadsStand
  <2>2. CASE IndexReads!ReadsNext /\ UNCHANGED readVars
    BY <2>2, ReadProceedsKeeps, PopulationProceedsKeeps, ReadStands DEF IndexReads!ReadsNext
  <2>3. CASE UNCHANGED <<readVars, readsVars>>
    BY <2>3, ReadStands, IndexReadsStand
  <2> QED BY <2>1, <2>2, <2>3
          DEF ServicesNext, NodeStep, StdioStep, LocalStep, PoolStep, ReadStep, ReadsStep,
              servicesVars
<1>3. ReadInv /\ IndexReadsInv => ReadsSafe
  <2> SUFFICES ASSUME ReadInv, IndexReadsInv PROVE ReadsSafe
    OBVIOUS
  <2>1. IndexReads!PopulatedOnce
    <3> SUFFICES ASSUME NEW d \in IndexReads!Digests
                 PROVE  /\ installations[d] <= 1 + evictions[d]
                        /\ leaseHolder[d] # None =>
                             population[leaseHolder[d]]
                               \in {"check", "fetch", "install", "release"}
      BY DEF IndexReads!PopulatedOnce
    <3> QED BY DEF IndexReadsInv, LeasesAreSound, IndexReadsTypes
  <2> QED BY <2>1 DEF ReadsSafe, ReadInv, IndexReadsInv
<1> QED BY <1>1, <1>2, <1>3, PTL DEF ServicesSpec

-----------------------------------------------------------------------------
(* The query module.                                                        *)

\* What the modules of the query module take from the libraries.
LEMMA NodeLibrary ==
  /\ \A S : Node!Cardinality(S) = Cardinality(S)
  /\ \A q : Node!ToSet(q) = ToSet(q) /\ Node!Exec!ToSet(q) = ToSet(q)
  /\ \A q, i : Node!Exec!RemoveAt(q, i) = RemoveAt(q, i)
  /\ \A S : Node!Exec!Bytes(S) = SumFunctionOnSet(ByteLength, S)
<1>1. \A S : Node!Cardinality(S) = Cardinality(S)
  BY DEF Node!Cardinality, Cardinality
<1>2. \A q : Node!ToSet(q) = ToSet(q) /\ Node!Exec!ToSet(q) = ToSet(q)
  BY DEF Node!ToSet, Node!Exec!ToSet, ToSet
<1>3. \A q, i : Node!Exec!RemoveAt(q, i) = RemoveAt(q, i)
  BY DEF Node!Exec!RemoveAt, RemoveAt
<1>4. \A S : Node!Exec!Bytes(S) = SumFunctionOnSet(ByteLength, S)
  BY DEF Node!Exec!Bytes, Node!Exec!SumFunctionOnSet, SumFunctionOnSet, 
      Node!Exec!FoldFunctionOnSet, FoldFunctionOnSet, Node!Exec!MapThenFoldSet, MapThenFoldSet
<1> QED BY <1>1, <1>2, <1>3, <1>4


Outcomes == {"new", "admitted", "refused", "rows", "failed"}
Phases == {"idle", "selecting", "loading", "executing", "ended"}
Accepted == {r \in Requests : outcome[r] = "admitted"}

\* Every request the execution has accepted is in one place and in its account, and
\* something waits only for a worker that works or stops.
ExecTypes ==
  /\ outcome \in [Requests -> Outcomes] /\ queue \in Seq(Requests)
  /\ active \in Requests \cup {None} /\ failing \in Requests \cup {None}
ExecPlaced ==
  /\ Accepted = ToSet(queue) \cup ({active, failing} \ {None})
  /\ IsInjective(queue) /\ ToSet(queue) \cap {active, failing} = {}
ExecAccount == /\ IsFiniteSet(Accepted)
               /\ admittedBytes = SumFunctionOnSet(ByteLength, Accepted)
ExecOwned ==
  /\ active # None => warm
  /\ failing # None => restarting
  /\ restarting => ~warm
  /\ ~restarting /\ active = None => queue = <<>>
  /\ closing => queue = <<>> /\ ~warm
ExecInv == ExecTypes /\ ExecPlaced /\ ExecAccount /\ ExecOwned

\* Requests that are settled leave the account with just their bytes.
LEMMA ExecSettles ==
  ASSUME ExecTypes, ExecAccount, NEW rs \in SUBSET Accepted, NEW how \in {"rows", "failed"},
         Node!Exec!Settle(rs, how)
  PROVE  /\ outcome' \in [Requests -> Outcomes]
         /\ Accepted' = Accepted \ rs
         /\ ExecAccount'
         /\ \A r \in Requests : outcome'[r] # outcome[r] =>
              outcome[r] = "admitted" /\ outcome'[r] \in {"rows", "failed"}
<1> USE ServicesAssumption DEF Node!NodeAssumption
<1>1. /\ outcome' = [r \in Requests |-> IF r \in rs THEN how ELSE outcome[r]]
      /\ admittedBytes' = admittedBytes - SumFunctionOnSet(ByteLength, rs)
  BY NodeLibrary DEF Node!Exec!Settle
<1>2. outcome' \in [Requests -> Outcomes]
  BY <1>1 DEF ExecTypes, Outcomes
<1>3. Accepted' = Accepted \ rs
  BY <1>1 DEF Accepted
<1>4. IsFiniteSet(Accepted) /\ \A r \in Accepted : ByteLength[r] \in Nat
  BY DEF ExecAccount, Accepted
<1>5. SumFunctionOnSet(ByteLength, Accepted \ rs)
        = SumFunctionOnSet(ByteLength, Accepted) - SumFunctionOnSet(ByteLength, rs)
  BY <1>4, SumRemove
<1>6. IsFiniteSet(Accepted \ rs)
  BY <1>4, FS_Subset
<1>7. ExecAccount'
  BY <1>1, <1>3, <1>5, <1>6 DEF ExecAccount
<1>8. \A r \in rs : outcome[r] = "admitted"
  BY DEF Accepted
<1> QED BY <1>1, <1>2, <1>3, <1>7, <1>8

\* The head of what waits is taken as soon as the service is free.
LEMMA ExecStartsNext ==
  ASSUME NEW q \in Seq(Requests), IsInjective(q), NEW a \in Requests \cup {None},
         a \notin ToSet(q), NEW busy, Node!Exec!StartNext(q, a, busy)
  PROVE  /\ queue' \in Seq(Requests) /\ IsInjective(queue')
         /\ active' \in Requests \cup {None} /\ active' \notin ToSet(queue')
         /\ ToSet(q) \cup ({a} \ {None}) = ToSet(queue') \cup ({active'} \ {None})
         /\ ~closing /\ ~busy /\ active' = None => queue' = <<>>
         /\ closing \/ busy => queue' = q /\ active' = a /\ warm' = warm
         /\ (active' = a /\ warm' = warm) \/ (active' # None /\ warm')
<1> USE ServicesAssumption DEF Node!NodeAssumption
<1>1. CASE closing \/ busy \/ a # None \/ q = <<>>
  BY <1>1 DEF Node!Exec!StartNext
<1>2. CASE ~(closing \/ busy \/ a # None \/ q = <<>>)
  <2>1. /\ Head(q) \in Requests /\ Tail(q) \in Seq(Requests)
        /\ ToSet(q) = ToSet(Tail(q)) \cup {Head(q)}
        /\ IsInjective(Tail(q)) /\ Head(q) \notin ToSet(Tail(q))
    BY <1>2, TailElements
  <2>2. /\ queue' = Tail(q) /\ active' = Head(q) /\ warm' = TRUE
    BY <1>2 DEF Node!Exec!StartNext
  <2> QED BY <1>2, <2>1, <2>2
<1> QED BY <1>1, <1>2

\* A step by itself changes the outcome of what it had accepted, once and for good.
Settled == \A r \in Requests : outcome'[r] # outcome[r] =>
             outcome[r] = "admitted" /\ outcome'[r] \in {"rows", "failed"}
\* A new request enters the account, and the queue or the worker.
LEMMA ExecAdmits ==
  ASSUME ExecInv, NEW r \in Requests, Node!Exec!Admit(r)
  PROVE  /\ ExecInv' /\ outcome' = [outcome EXCEPT ![r] = "admitted"]
         /\ outcome[r] = "new" /\ ~closing /\ closing' = closing
<1> USE ServicesAssumption DEF Node!NodeAssumption, ExecInv
<1> DEFINE q == Append(queue, r)
<1>1. /\ outcome[r] = "new" /\ ~closing
      /\ outcome' = [outcome EXCEPT ![r] = "admitted"]
      /\ admittedBytes' = admittedBytes + ByteLength[r]
      /\ Node!Exec!StartNext(q, active, restarting)
      /\ failing' = failing /\ restarting' = restarting /\ closing' = closing
  BY DEF Node!Exec!Admit, Node!Exec!Full
<1>2. r \notin Accepted
  BY <1>1 DEF Accepted
<1>3. /\ q \in Seq(Requests) /\ ToSet(q) = ToSet(queue) \cup {r} /\ IsInjective(q)
  BY <1>2, AppendElements DEF ExecTypes, ExecPlaced
<1>4. active \in Requests \cup {None} /\ active \notin ToSet(q)
  BY <1>2, <1>3 DEF ExecTypes, ExecPlaced
<1> HIDE DEF q
<1>5. /\ queue' \in Seq(Requests) /\ IsInjective(queue')
      /\ active' \in Requests \cup {None} /\ active' \notin ToSet(queue')
      /\ ToSet(q) \cup ({active} \ {None}) = ToSet(queue') \cup ({active'} \ {None})
      /\ ~closing /\ ~restarting /\ active' = None => queue' = <<>>
      /\ closing \/ restarting => queue' = q /\ active' = active /\ warm' = warm
      /\ (active' = active /\ warm' = warm) \/ (active' # None /\ warm')
  BY <1>1, <1>3, <1>4, ExecStartsNext
<1>6. Accepted' = Accepted \cup {r}
  BY <1>1 DEF Accepted, ExecTypes
<1>7. ExecTypes'
  BY <1>1, <1>5 DEF ExecTypes, Outcomes
<1>8. failing \notin ToSet(queue')
  <2>1. failing \notin ToSet(q)
    BY <1>2, <1>3 DEF ExecPlaced, ExecTypes
  <2>2. failing # None => restarting
    BY DEF ExecOwned
  <2>3. failing = None => failing \notin ToSet(queue')
    BY <1>5, ElementsType
  <2> QED BY <1>5, <2>1, <2>2, <2>3
<1>9. ExecPlaced'
  BY <1>1, <1>3, <1>5, <1>6, <1>8 DEF ExecPlaced
<1>10. ExecAccount'
  <2>1. IsFiniteSet(Accepted) /\ \A s \in Accepted \cup {r} : ByteLength[s] \in Int
    BY DEF ExecAccount, Accepted
  <2>2. SumFunctionOnSet(ByteLength, Accepted \cup {r})
          = ByteLength[r] + SumFunctionOnSet(ByteLength, Accepted)
    BY <1>2, <2>1, SumAdd
  <2>3. SumFunctionOnSet(ByteLength, Accepted) \in Int /\ ByteLength[r] \in Int
    BY <2>1, SumType
  <2>4. IsFiniteSet(Accepted \cup {r})
    BY <2>1, FS_AddElement
  <2> QED BY <1>1, <1>6, <2>2, <2>3, <2>4 DEF ExecAccount
<1>11. ExecOwned'
  BY <1>1, <1>5 DEF ExecOwned
<1> QED BY <1>1, <1>7, <1>9, <1>10, <1>11

\* A refused request enters neither.
LEMMA ExecRefuses ==
  ASSUME ExecInv, NEW r \in Requests, Node!Exec!Refuse(r)
  PROVE  /\ ExecInv' /\ outcome' = [outcome EXCEPT ![r] = "refused"]
         /\ outcome[r] = "new" /\ closing' = closing
<1>1. /\ outcome[r] = "new" /\ outcome' = [outcome EXCEPT ![r] = "refused"]
      /\ UNCHANGED <<queue, active, failing, warm, restarting, closing, admittedBytes>>
  BY DEF Node!Exec!Refuse
<1>2. Accepted' = Accepted /\ ExecTypes'
  BY <1>1 DEF Accepted, ExecTypes, ExecInv, Outcomes
<1>3. ExecPlaced' /\ ExecAccount' /\ ExecOwned'
  BY <1>1, <1>2 DEF ExecInv, ExecPlaced, ExecAccount, ExecOwned
<1> QED BY <1>1, <1>2, <1>3 DEF ExecInv

\* An answer of the worker settles the active request, and the next one starts.
LEMMA ExecAnswers ==
  ASSUME ExecInv, Node!Exec!Answer
  PROVE  ExecInv' /\ Settled /\ closing' = closing
<1> USE ServicesAssumption DEF Node!NodeAssumption, ExecInv
<1>1. PICK how \in {"rows", "failed"} :
        /\ active # None /\ Node!Exec!Settle({active}, how)
        /\ Node!Exec!StartNext(queue, None, restarting)
        /\ failing' = failing /\ restarting' = restarting /\ closing' = closing
  BY DEF Node!Exec!Answer
<1>2. active \in Requests /\ active \in Accepted /\ warm /\ ~restarting /\ failing = None /\ ~closing
  BY <1>1 DEF ExecTypes, ExecPlaced, ExecOwned
<1>3. /\ outcome' \in [Requests -> Outcomes] /\ Accepted' = Accepted \ {active}
      /\ ExecAccount' /\ Settled
  BY <1>1, <1>2, ExecSettles DEF Settled
<1>4. None \notin ToSet(queue)
  BY ElementsType DEF ExecTypes
<1>5. /\ queue' \in Seq(Requests) /\ IsInjective(queue')
      /\ active' \in Requests \cup {None} /\ active' \notin ToSet(queue')
      /\ ToSet(queue) \cup ({None} \ {None}) = ToSet(queue') \cup ({active'} \ {None})
      /\ ~closing /\ ~restarting /\ active' = None => queue' = <<>>
      /\ (active' = None /\ warm' = warm) \/ (active' # None /\ warm')
  BY <1>1, <1>4, ExecStartsNext DEF ExecTypes, ExecPlaced
<1>6. ExecTypes'
  BY <1>1, <1>3, <1>5 DEF ExecTypes
<1>7. ExecPlaced'
  <2>1. None \notin ToSet(queue')
    BY <1>5, ElementsType
  <2>2. Accepted = ToSet(queue) \cup {active} /\ active \notin ToSet(queue)
    BY <1>1, <1>2 DEF ExecPlaced
  <2> QED BY <1>1, <1>2, <1>3, <1>5, <2>1, <2>2 DEF ExecPlaced
<1>8. ExecOwned'
  BY <1>1, <1>2, <1>5 DEF ExecOwned
<1> QED BY <1>1, <1>3, <1>6, <1>7, <1>8

\* A lost worker leaves the active request to be failed, still in the account.
LEMMA ExecLosesWorker ==
  ASSUME ExecInv, Node!Exec!LoseWorker
  PROVE  ExecInv' /\ Settled /\ closing' = closing
<1> USE ServicesAssumption DEF Node!NodeAssumption, ExecInv
<1>1. /\ warm /\ active' = None /\ failing' = active /\ warm' = FALSE /\ restarting' = TRUE
      /\ outcome' = outcome /\ queue' = queue /\ closing' = closing
      /\ admittedBytes' = admittedBytes
  BY DEF Node!Exec!LoseWorker
<1>2. failing = None /\ Accepted' = Accepted
  BY <1>1 DEF ExecOwned, Accepted
<1>3. None \notin ToSet(queue)
  BY ElementsType DEF ExecTypes
<1> QED BY <1>1, <1>2, <1>3 DEF ExecTypes, ExecPlaced, ExecAccount, ExecOwned, Settled

\* An aborted request leaves the middle of the queue and the account.
LEMMA ExecWithdraws ==
  ASSUME ExecInv, NEW r \in Requests, Node!Exec!Withdraw(r)
  PROVE  ExecInv' /\ Settled /\ closing' = closing
<1> USE ServicesAssumption DEF Node!NodeAssumption, ExecInv
<1>1. PICK i \in DOMAIN queue :
        /\ queue[i] = r /\ queue' = RemoveAt(queue, i) /\ Node!Exec!Settle({r}, "failed")
        /\ active' = active /\ failing' = failing /\ warm' = warm
        /\ restarting' = restarting /\ closing' = closing
  BY NodeLibrary DEF Node!Exec!Withdraw
<1>2. /\ queue' \in Seq(Requests) /\ ToSet(queue') = ToSet(queue) \ {r}
      /\ IsInjective(queue')
  BY <1>1, RemoveElements DEF ExecTypes, ExecPlaced
<1>3. r \in ToSet(queue) /\ queue # <<>>
  BY <1>1 DEF ToSet
<1>4. r \in Accepted /\ r # active /\ r # failing
  BY <1>3 DEF ExecPlaced
<1>5. /\ outcome' \in [Requests -> Outcomes] /\ Accepted' = Accepted \ {r}
      /\ ExecAccount' /\ Settled
  BY <1>1, <1>4, ExecSettles DEF Settled
<1>6. ExecTypes' /\ ExecPlaced'
  BY <1>1, <1>2, <1>4, <1>5 DEF ExecTypes, ExecPlaced
<1>7. ExecOwned'
  BY <1>1, <1>3 DEF ExecOwned
<1> QED BY <1>1, <1>5, <1>6, <1>7

\* The stopped worker settles what it failed, and the queue goes on or fails with it.
LEMMA ExecWorkerGone ==
  ASSUME ExecInv, Node!Exec!WorkerGone
  PROVE  ExecInv' /\ Settled /\ closing' = closing
<1> USE ServicesAssumption DEF Node!NodeAssumption, ExecInv
<1>1. /\ restarting /\ restarting' = FALSE /\ failing' = None
      /\ Node!Exec!Settle({failing} \ {None}, "failed")
      /\ Node!Exec!StartNext(queue, active, FALSE) /\ closing' = closing
  BY DEF Node!Exec!WorkerGone
<1>2. active = None /\ {failing} \ {None} \subseteq Accepted /\ ~warm
  BY <1>1 DEF ExecOwned, ExecPlaced
<1>3. /\ outcome' \in [Requests -> Outcomes] /\ Accepted' = Accepted \ ({failing} \ {None})
      /\ ExecAccount' /\ Settled
  BY <1>1, <1>2, ExecSettles DEF Settled
<1>4. None \notin ToSet(queue)
  BY ElementsType DEF ExecTypes
<1>5. /\ queue' \in Seq(Requests) /\ IsInjective(queue')
      /\ active' \in Requests \cup {None} /\ active' \notin ToSet(queue')
      /\ ToSet(queue) \cup ({active} \ {None}) = ToSet(queue') \cup ({active'} \ {None})
      /\ ~closing /\ ~FALSE /\ active' = None => queue' = <<>>
      /\ closing \/ FALSE => queue' = queue /\ active' = active /\ warm' = warm
      /\ (active' = active /\ warm' = warm) \/ (active' # None /\ warm')
  BY <1>1, <1>2, <1>4, ExecStartsNext DEF ExecTypes, ExecPlaced
<1>6. ExecTypes'
  BY <1>1, <1>3, <1>5 DEF ExecTypes
<1>7. ExecPlaced'
  <2>1. None \notin ToSet(queue')
    BY <1>5, ElementsType
  <2>2. Accepted' = ToSet(queue)
    BY <1>2, <1>3, <1>4 DEF ExecPlaced
  <2>3. Accepted' = ToSet(queue') \cup ({active'} \ {None})
    BY <1>2, <1>5, <2>2
  <2> QED BY <1>1, <1>5, <2>1, <2>3 DEF ExecPlaced
<1>8. ExecOwned'
  BY <1>1, <1>2, <1>5 DEF ExecOwned
<1> QED BY <1>1, <1>3, <1>6, <1>7, <1>8

\* The close settles the queue; the active request waits for the worker to stop.
LEMMA ExecCloses ==
  ASSUME ExecInv, Node!Exec!Close
  PROVE  ExecInv' /\ Settled /\ closing'
<1> USE ServicesAssumption DEF Node!NodeAssumption, ExecInv
<1>1. /\ ~closing /\ closing' = TRUE
      /\ Node!Exec!Settle(ToSet(queue), "failed") /\ queue' = <<>>
      /\ active' = None /\ failing' = (IF active # None THEN active ELSE failing)
      /\ restarting' = (restarting \/ warm) /\ warm' = FALSE
  BY NodeLibrary DEF Node!Exec!Close
<1>2. ToSet(queue) \subseteq Accepted
  BY DEF ExecPlaced
<1>3. /\ outcome' \in [Requests -> Outcomes] /\ Accepted' = Accepted \ ToSet(queue)
      /\ ExecAccount' /\ Settled
  BY <1>1, <1>2, ExecSettles DEF Settled
<1>4. ToSet(queue') = {} /\ IsInjective(queue')
  BY <1>1, ElementsEmpty
<1>5. active # None => failing = None
  BY DEF ExecOwned
<1>6. ExecTypes' /\ ExecPlaced'
  BY <1>1, <1>3, <1>4, <1>5 DEF ExecTypes, ExecPlaced
<1>7. ExecOwned'
  BY <1>1 DEF ExecOwned
<1> QED BY <1>1, <1>3, <1>6, <1>7

\* A call has not been handed over before it executes and is not in the execution's hands
\* afterwards; all go on cancelled after close; and what is held is what is counted.
Live == {"selecting", "loading", "executing"}
CallsPlaced ==
  /\ phase \in [Requests -> Phases] /\ cancelled \in SUBSET Requests
  /\ \A r \in Requests :
       /\ phase[r] \in {"idle", "selecting", "loading"} => outcome[r] = "new"
       /\ outcome[r] = "admitted" => phase[r] = "executing"
ClosedForAll == /\ moduleClosed => closing
                /\ moduleClosed => \A r \in Requests : phase[r] \in Live => r \in cancelled
HeldCounted ==
  /\ IsFiniteSet(Node!Held)
  /\ pendingRequests = Cardinality(Node!Held) /\ pendingRequests <= PendingLimit
  /\ reservedDatasetBytes = SumFunctionOnSet(ByteLength, Node!Held)
  /\ reservedDatasetBytes <= ByteLimit
NodeInv == ExecInv /\ CallsPlaced /\ ClosedForAll /\ HeldCounted

\* The module is new.
LEMMA NodeInitial == Node!NodeInit => NodeInv
<1> SUFFICES ASSUME Node!NodeInit PROVE NodeInv
  OBVIOUS
<1> USE ServicesAssumption DEF Node!NodeAssumption
<1>1. /\ outcome = [r \in Requests |-> "new"]
      /\ queue = <<>> /\ active = None /\ failing = None
      /\ warm = FALSE /\ restarting = FALSE /\ closing = FALSE /\ admittedBytes = 0
      /\ phase = [r \in Requests |-> "idle"] /\ cancelled = {}
      /\ pendingRequests = 0 /\ reservedDatasetBytes = 0 /\ moduleClosed = FALSE
  BY DEF Node!NodeInit, Node!Exec!Init
<1>2. Accepted = {} /\ Node!Held = {}
  BY <1>1 DEF Accepted, Node!Held
<1>3. ExecTypes /\ ExecOwned
  BY <1>1 DEF ExecTypes, ExecOwned, Outcomes
<1>4. ExecPlaced
  BY <1>1, <1>2, ElementsEmpty DEF ExecPlaced
<1>5. ExecAccount
  BY <1>1, <1>2, FS_EmptySet, SumEmpty DEF ExecAccount
<1>6. CallsPlaced /\ ClosedForAll
  BY <1>1 DEF CallsPlaced, ClosedForAll, Phases, Live
<1>7. HeldCounted
  BY <1>1, <1>2, FS_EmptySet, SumEmpty DEF HeldCounted
<1> QED BY <1>3, <1>4, <1>5, <1>6, <1>7 DEF NodeInv, ExecInv

\* executeSnapshot reserves for one call, and its finally clause gives just that back.
LEMMA HeldGrows ==
  ASSUME NodeInv, NEW r \in Requests, Node!Reserve(r) PROVE HeldCounted'
<1> USE ServicesAssumption DEF Node!NodeAssumption, NodeInv
<1>1. /\ pendingRequests < PendingLimit
      /\ reservedDatasetBytes + ByteLength[r] <= ByteLimit
      /\ phase[r] = "selecting" /\ phase' = [phase EXCEPT ![r] = "loading"]
      /\ pendingRequests' = pendingRequests + 1
      /\ reservedDatasetBytes' = reservedDatasetBytes + ByteLength[r]
  BY DEF Node!Reserve, Node!Admits, Node!Advance
<1>2. Node!Held' = Node!Held \cup {r} /\ r \notin Node!Held
  BY <1>1 DEF Node!Held, CallsPlaced
<1>3. IsFiniteSet(Node!Held) /\ \A s \in Node!Held \cup {r} : ByteLength[s] \in Int
  BY DEF HeldCounted, Node!Held
<1>4. /\ IsFiniteSet(Node!Held \cup {r})
      /\ Cardinality(Node!Held \cup {r}) = Cardinality(Node!Held) + 1
  BY <1>2, <1>3, FS_AddElement
<1>5. SumFunctionOnSet(ByteLength, Node!Held \cup {r})
        = ByteLength[r] + SumFunctionOnSet(ByteLength, Node!Held)
  BY <1>2, <1>3, SumAdd
<1>6. /\ Cardinality(Node!Held) \in Nat /\ SumFunctionOnSet(ByteLength, Node!Held) \in Int
      /\ ByteLength[r] \in Int
  BY <1>3, FS_CardinalityType, SumType
<1> QED BY <1>1, <1>2, <1>4, <1>5, <1>6 DEF HeldCounted

\* ... and the release takes out what the reservation put in.
LEMMA HeldShrinks ==
  ASSUME NodeInv, NEW r \in Requests, Node!Release(r),
         phase[r] \in {"loading", "executing"}, phase' = [phase EXCEPT ![r] = "ended"]
  PROVE  HeldCounted'
<1> USE ServicesAssumption DEF Node!NodeAssumption, NodeInv
<1>1. /\ pendingRequests' = pendingRequests - 1
      /\ reservedDatasetBytes' = reservedDatasetBytes - ByteLength[r]
  BY DEF Node!Release
<1>2. Node!Held' = Node!Held \ {r} /\ r \in Node!Held
  BY DEF Node!Held, CallsPlaced
<1>3. IsFiniteSet(Node!Held) /\ \A s \in Node!Held : ByteLength[s] \in Nat
  BY DEF HeldCounted, Node!Held
<1>4. /\ IsFiniteSet(Node!Held \ {r})
      /\ Cardinality(Node!Held \ {r}) = Cardinality(Node!Held) - 1
  BY <1>2, <1>3, FS_RemoveElement
<1>5. /\ SumFunctionOnSet(ByteLength, Node!Held \ {r})
           = SumFunctionOnSet(ByteLength, Node!Held) - SumFunctionOnSet(ByteLength, {r})
      /\ SumFunctionOnSet(ByteLength, {r}) = ByteLength[r]
  BY <1>2, <1>3, SumRemove, SumSingleton
<1>6. /\ Cardinality(Node!Held) \in Nat /\ SumFunctionOnSet(ByteLength, Node!Held) \in Int
      /\ ByteLength[r] \in Nat
  BY <1>3, FS_CardinalityType, SumType
<1> QED BY <1>1, <1>2, <1>4, <1>5, <1>6 DEF HeldCounted

\* A step of the execution by itself settles requests, and no call notices yet.
LEMMA CallsStand ==
  ASSUME NodeInv, ExecInv', Settled, closing => closing',
         UNCHANGED <<phase, pendingRequests, reservedDatasetBytes>>,
         cancelled \subseteq cancelled', cancelled' \in SUBSET Requests,
         moduleClosed' = moduleClosed
  PROVE  NodeInv'
<1>1. Node!Held' = Node!Held
  BY DEF Node!Held
<1>2. HeldCounted'
  BY <1>1 DEF NodeInv, HeldCounted
<1>3. CallsPlaced' /\ ClosedForAll'
  BY DEF NodeInv, CallsPlaced, ClosedForAll, Settled, ExecInv, ExecTypes
<1> QED BY <1>2, <1>3 DEF NodeInv

\* A call goes on without the execution.
LEMMA CallMoves ==
  ASSUME NodeInv, NEW r \in Requests, NEW to \in Phases,
         phase' = [phase EXCEPT ![r] = to],
         to \in {"selecting", "loading"} => outcome[r] = "new",
         to \in {"idle", "executing"} => FALSE,
         outcome[r] # "admitted",
         to # "ended" /\ moduleClosed => r \in cancelled',
         cancelled \subseteq cancelled', cancelled' \in SUBSET Requests,
         UNCHANGED <<outcome, queue, active, failing, warm, restarting, closing,
                     admittedBytes, moduleClosed>>,
         HeldCounted'
  PROVE  NodeInv'
<1>1. ExecInv'
  BY DEF NodeInv, ExecInv, ExecTypes, ExecPlaced, ExecAccount, ExecOwned, Accepted
<1>2. CallsPlaced'
  BY DEF NodeInv, CallsPlaced
<1>3. ClosedForAll'
  BY DEF NodeInv, CallsPlaced, ClosedForAll, Live
<1> QED BY <1>1, <1>2, <1>3 DEF NodeInv

\* Every step of the module preserves the invariant.
LEMMA NodeStepKeeps ==
  ASSUME NodeInv, Node!NodeNext PROVE NodeInv'
<1> USE ServicesAssumption DEF Node!NodeAssumption, Node!execVars
<1>0. /\ phase \in [Requests -> Phases] /\ cancelled \in SUBSET Requests
      /\ \A r \in Requests :
           /\ phase[r] \in {"idle", "selecting", "loading"} => outcome[r] = "new"
           /\ outcome[r] = "admitted" => phase[r] = "executing"
      /\ ExecInv /\ outcome \in [Requests -> Outcomes]
  BY DEF NodeInv, CallsPlaced, ExecInv, ExecTypes
<1>1. ASSUME NEW r \in Requests, Node!NodeCall(r) PROVE NodeInv'
  <2>1. /\ phase[r] = "idle"
        /\ \E to \in {"selecting", "ended"} : phase' = [phase EXCEPT ![r] = to]
        /\ cancelled' = IF moduleClosed THEN cancelled \cup {r} ELSE cancelled
        /\ UNCHANGED <<outcome, queue, active, failing, warm, restarting, closing,
                       admittedBytes, moduleClosed, pendingRequests,
                       reservedDatasetBytes>>
    BY <1>1 DEF Node!NodeCall, Node!Advance
  <2>2. Node!Held' = Node!Held
    BY <1>0, <2>1 DEF Node!Held
  <2>3. HeldCounted'
    BY <2>1, <2>2 DEF NodeInv, HeldCounted
  <2> QED BY <1>0, <2>1, <2>3, CallMoves DEF Phases
<1>2. ASSUME NEW r \in Requests, Node!SelectionFails(r) \/ Node!CapacityExceeded(r)
      PROVE  NodeInv'
  <2>1. /\ phase[r] = "selecting" /\ phase' = [phase EXCEPT ![r] = "ended"]
        /\ UNCHANGED <<outcome, queue, active, failing, warm, restarting, closing,
                       admittedBytes, moduleClosed, pendingRequests,
                       reservedDatasetBytes, cancelled>>
    BY <1>2 DEF Node!SelectionFails, Node!CapacityExceeded, Node!Advance
  <2>2. Node!Held' = Node!Held
    BY <1>0, <2>1 DEF Node!Held
  <2>3. HeldCounted'
    BY <2>1, <2>2 DEF NodeInv, HeldCounted
  <2> QED BY <1>0, <2>1, <2>3, CallMoves DEF Phases
<1>3. ASSUME NEW r \in Requests, Node!Reserve(r) PROVE NodeInv'
  <2>1. /\ phase[r] = "selecting" /\ phase' = [phase EXCEPT ![r] = "loading"]
        /\ UNCHANGED <<outcome, queue, active, failing, warm, restarting, closing,
                       admittedBytes, moduleClosed, cancelled>>
    BY <1>3 DEF Node!Reserve, Node!Advance
  <2>2. HeldCounted'
    BY <1>3, HeldGrows
  <2>3. moduleClosed => r \in cancelled
    BY <2>1 DEF NodeInv, ClosedForAll, Live
  <2> QED BY <1>0, <2>1, <2>2, <2>3, CallMoves DEF Phases
<1>4. ASSUME NEW r \in Requests, Node!LoadingFails(r) \/ Node!Answered(r) PROVE NodeInv'
  <2>1. /\ phase[r] \in {"loading", "executing"} /\ outcome[r] # "admitted"
        /\ phase' = [phase EXCEPT ![r] = "ended"] /\ Node!Release(r)
        /\ UNCHANGED <<outcome, queue, active, failing, warm, restarting, closing,
                       admittedBytes, moduleClosed, cancelled>>
    BY <1>0, <1>4 DEF Node!LoadingFails, Node!Answered, Node!Advance
  <2>2. HeldCounted'
    BY <2>1, HeldShrinks
  <2> QED BY <1>0, <2>1, <2>2, CallMoves DEF Phases
<1>5. ASSUME NEW r \in Requests, Node!HandOver(r) PROVE NodeInv'
  <2>1. /\ phase[r] = "loading" /\ phase' = [phase EXCEPT ![r] = "executing"]
        /\ Node!Exec!Admit(r) \/ Node!Exec!Refuse(r)
        /\ UNCHANGED <<moduleClosed, cancelled, pendingRequests, reservedDatasetBytes>>
    BY <1>5 DEF Node!HandOver, Node!Advance
  <2>2. /\ ExecInv' /\ closing' = closing
        /\ \E how \in {"admitted", "refused"} : outcome' = [outcome EXCEPT ![r] = how]
    BY <1>0, <2>1, ExecAdmits, ExecRefuses
  <2>3. Node!Held' = Node!Held
    BY <1>0, <2>1 DEF Node!Held
  <2>4. HeldCounted'
    BY <2>1, <2>3 DEF NodeInv, HeldCounted
  <2>5. CallsPlaced'
    BY <1>0, <2>1, <2>2 DEF CallsPlaced, Phases
  <2>6. ClosedForAll'
    BY <1>0, <2>1, <2>2 DEF NodeInv, ClosedForAll, Live
  <2> QED BY <2>2, <2>4, <2>5, <2>6 DEF NodeInv
<1>6. ASSUME NEW r \in Requests, Node!LifecycleAborts(r) PROVE NodeInv'
  <2>1. /\ cancelled' = cancelled \cup {r}
        /\ \/ Node!Exec!LoseWorker \/ Node!Exec!Withdraw(r)
           \/ UNCHANGED <<outcome, queue, active, failing, warm, restarting, closing,
                          admittedBytes>>
        /\ UNCHANGED <<phase, pendingRequests, reservedDatasetBytes, moduleClosed>>
    BY <1>6 DEF Node!LifecycleAborts
  <2>2. ExecInv' /\ Settled /\ closing' = closing
    <3>1. CASE UNCHANGED <<outcome, queue, active, failing, warm, restarting, closing,
                           admittedBytes>>
      BY <1>0, <3>1
         DEF ExecInv, ExecTypes, ExecPlaced, ExecAccount, ExecOwned, Accepted, Settled
    <3> QED BY <1>0, <2>1, <3>1, ExecLosesWorker, ExecWithdraws
  <2> QED BY <1>0, <2>1, <2>2, CallsStand
<1>7. CASE Node!ModuleClose
  <2>1. /\ ~moduleClosed /\ moduleClosed' = TRUE /\ Node!Exec!Close
        /\ cancelled' = cancelled \cup {r \in Requests : phase[r] \in Live}
        /\ UNCHANGED <<phase, pendingRequests, reservedDatasetBytes>>
    BY <1>7 DEF Node!ModuleClose, Live
  <2>2. ExecInv' /\ Settled /\ closing'
    BY <1>0, <2>1, ExecCloses
  <2>3. Node!Held' = Node!Held
    BY <2>1 DEF Node!Held
  <2>4. HeldCounted'
    BY <2>1, <2>3 DEF NodeInv, HeldCounted
  <2>5. CallsPlaced'
    BY <1>0, <2>1, <2>2 DEF CallsPlaced, Settled, ExecInv, ExecTypes
  <2>6. ClosedForAll'
    BY <2>1, <2>2 DEF ClosedForAll
  <2> QED BY <2>2, <2>4, <2>5, <2>6 DEF NodeInv
<1>8. CASE Node!WorkerSteps \/ Node!WorkerGone
  <2>1. /\ \/ Node!Exec!Answer \/ Node!Exec!LoseWorker \/ Node!Exec!WorkerGone
           \/ \E r \in Requests : Node!Exec!Withdraw(r)
        /\ UNCHANGED <<phase, cancelled, pendingRequests, reservedDatasetBytes,
                       moduleClosed>>
    BY <1>8 DEF Node!WorkerSteps, Node!WorkerGone
  <2>2. ExecInv' /\ Settled /\ closing' = closing
    BY <1>0, <2>1, ExecAnswers, ExecLosesWorker, ExecWithdraws, ExecWorkerGone
  <2> QED BY <1>0, <2>1, <2>2, CallsStand
<1> QED BY <1>1, <1>2, <1>3, <1>4, <1>5, <1>6, <1>7, <1>8 DEF Node!NodeNext

\* The invariant gives the accounts, and that what the module has admitted the execution
\* accepts.
LEMMA NodeAccounts == NodeInv => Node!AccountsKept
<1> SUFFICES ASSUME NodeInv PROVE Node!AccountsKept
  OBVIOUS
<1> USE ServicesAssumption DEF Node!NodeAssumption, NodeInv, ExecInv
<1>1. /\ IsFiniteSet(Node!Held) /\ IsFiniteSet(Accepted) /\ Accepted \subseteq Node!Held
      /\ \A r \in Node!Held : ByteLength[r] \in Nat
  BY DEF HeldCounted, ExecAccount, Accepted, Node!Held, CallsPlaced
<1>2. Node!ReservationsExact
  <2>1. admittedBytes <= reservedDatasetBytes
    BY <1>1, SumRemove DEF HeldCounted, ExecAccount
  <2> QED BY <2>1, NodeLibrary DEF Node!ReservationsExact, HeldCounted
<1>3. ASSUME NEW r \in Requests, phase[r] = "loading"
      PROVE  /\ admittedBytes + ByteLength[r] <= ByteLimit
             /\ \/ Len(queue) < QueueLimit
                \/ restarting /\ active = None /\ failing = None
  <2>1. r \in Node!Held /\ r \notin Accepted
    BY <1>3 DEF Node!Held, Accepted, CallsPlaced
  <2>2. Accepted \cup {r} \in SUBSET Node!Held /\ IsFiniteSet(Accepted \cup {r})
    BY <1>1, <2>1, FS_AddElement
  <2>3. admittedBytes + ByteLength[r] <= ByteLimit
    <3>1. SumFunctionOnSet(ByteLength, Accepted \cup {r})
            <= SumFunctionOnSet(ByteLength, Node!Held)
      BY <1>1, <2>2, SumRemove
    <3>2. \A s \in Accepted \cup {r} : ByteLength[s] \in Int
      BY <1>1, <2>2
    <3>3. SumFunctionOnSet(ByteLength, Accepted \cup {r})
            = ByteLength[r] + SumFunctionOnSet(ByteLength, Accepted)
      BY <1>1, <2>1, <3>2, SumAdd
    <3>4. /\ SumFunctionOnSet(ByteLength, Accepted) \in Int /\ ByteLength[r] \in Int
          /\ SumFunctionOnSet(ByteLength, Node!Held) \in Int
      BY <1>1, <3>2, SumType
    <3> QED BY <3>1, <3>3, <3>4 DEF HeldCounted, ExecAccount
  <2>4. /\ Cardinality(Accepted \cup {r}) = Cardinality(Accepted) + 1
        /\ Cardinality(Accepted) \in Nat /\ Cardinality(Node!Held) \in Nat
        /\ Cardinality(Accepted \cup {r}) <= Cardinality(Node!Held)
    BY <1>1, <2>1, <2>2, FS_AddElement, FS_CardinalityType, FS_Subset
  <2>5. Cardinality(Accepted) <= QueueLimit
    BY <2>4 DEF HeldCounted
  <2>6. /\ Cardinality(ToSet(queue)) = Len(queue) /\ Len(queue) \in Nat
        /\ ToSet(queue) \subseteq Accepted
    BY CountElements DEF ExecTypes, ExecPlaced
  <2>7. CASE active # None \/ failing # None
    <3>1. PICK a \in {active, failing} \ {None} : TRUE
      BY <2>7
    <3>2. a \in Accepted /\ a \notin ToSet(queue)
      BY <3>1 DEF ExecPlaced
    <3>3. IsFiniteSet(ToSet(queue)) /\ Cardinality(ToSet(queue)) <= Cardinality(Accepted)
          /\ (Cardinality(ToSet(queue)) = Cardinality(Accepted) => ToSet(queue) = Accepted)
      BY <1>1, <2>6, FS_Subset
    <3> QED BY <2>3, <2>4, <2>5, <2>6, <3>2, <3>3
  <2>8. CASE active = None /\ failing = None /\ ~restarting
    BY <2>3, <2>8 DEF ExecOwned
  <2> QED BY <2>3, <2>7, <2>8
<1>4. Node!NothingOutlivesClose
  BY ElementsEmpty
     DEF Node!NothingOutlivesClose, ClosedForAll, Live, ExecOwned, ExecPlaced, Accepted
<1> QED BY <1>2, <1>3, <1>4 DEF Node!AccountsKept, Node!AdmittedIsAccepted

-----------------------------------------------------------------------------
(* The worker pool.                                                         *)

Workers == Pool!PoolWorkers
Tasks == Pool!Tasks

\* What the pool takes from the libraries.
LEMMA PoolLibrary ==
  /\ \A S : Pool!Cardinality(S) = Cardinality(S)
  /\ \A q : Pool!ToSet(q) = ToSet(q)
  /\ \A q, f : Pool!ScheduledSize(q, f) = SumFunctionOnSet(f, ToSet(q))
<1>1. \A S : Pool!Cardinality(S) = Cardinality(S)
  BY DEF Pool!Cardinality, Cardinality
<1>2. \A q : Pool!ToSet(q) = ToSet(q)
  BY DEF Pool!ToSet, ToSet
<1>3. \A f, S : Pool!SumFunctionOnSet(f, S) = SumFunctionOnSet(f, S)
  BY DEF Pool!SumFunctionOnSet, SumFunctionOnSet, Pool!FoldFunctionOnSet,
         FoldFunctionOnSet, Pool!MapThenFoldSet, MapThenFoldSet
<1> QED BY <1>1, <1>2, <1>3 DEF Pool!ScheduledSize

\* The tasks and the workers are finitely many, and a worker has a task to begin with.
LEMMA PoolConstants ==
  /\ TaskCount \in Nat /\ PoolSize \in 1..TaskCount /\ TaskSizes \subseteq Nat
  /\ Tasks = 1..TaskCount /\ Workers = 1..PoolSize
  /\ IsFiniteSet(Tasks) /\ Cardinality(Tasks) = TaskCount /\ IsFiniteSet(Workers)
  /\ Pool!NoTask = 0 /\ Pool!NoTask \notin Tasks /\ 1 \in Workers
<1>1. /\ TaskCount \in Nat /\ PoolSize \in 1..TaskCount /\ TaskSizes \subseteq Nat
      /\ Tasks = 1..TaskCount /\ Workers = 1..PoolSize /\ Pool!NoTask = 0
  BY ServicesAssumption
     DEF Pool!PoolAssumption, Tasks, Workers, Pool!Tasks, Pool!PoolWorkers, Pool!NoTask
<1>2. /\ IsFiniteSet(1..TaskCount) /\ Cardinality(1..TaskCount) = TaskCount
      /\ IsFiniteSet(1..PoolSize)
  BY <1>1, FS_Interval
<1> QED BY <1>1, <1>2

\* There is a last task of every set, and a lightest queue.
LEMMA LastExists ==
  ASSUME NEW sizes \in [Tasks -> Nat], NEW s \in SUBSET Tasks, s # {}
  PROVE  Pool!LastBySize(s, sizes) \in s
<1> DEFINE A == {sizes[t] : t \in s}
           m == Min(A)
           B == {TaskCount - t : t \in {r \in s : sizes[r] = m}}
           k == Min(B)
<1>0. TaskCount \in Nat /\ \A t \in s : t \in Nat /\ t <= TaskCount /\ sizes[t] \in Nat
  BY PoolConstants
<1>1. A \in SUBSET Nat /\ A # {}
  BY <1>0
<1>2. m \in A /\ \A n \in A : m <= n
  BY <1>1, LeastElement
<1>3. m \in Nat /\ \A t \in s : m <= sizes[t]
  BY <1>1, <1>2
<1>4. \E t \in s : sizes[t] = m
  BY <1>2
<1> HIDE DEF m
<1>5. B \in SUBSET Nat /\ B # {}
  BY <1>0, <1>4
<1>6. k \in B /\ \A n \in B : k <= n
  BY <1>5, LeastElement
<1> HIDE DEF k
<1>7. PICK last \in s : sizes[last] = m /\ k = TaskCount - last
  BY <1>6
<1>8. ASSUME NEW r \in s
      PROVE  sizes[r] > sizes[last] \/ (sizes[r] = sizes[last] /\ r <= last)
  <2>1. sizes[r] \in Nat /\ r \in Nat /\ last \in Nat /\ m <= sizes[r] /\ m \in Nat
    BY <1>0, <1>3
  <2>2. CASE sizes[r] = m
    <3>1. TaskCount - r \in B
      BY <2>2
    <3>2. k <= TaskCount - r
      BY <1>6, <3>1
    <3>3. r <= last
      BY <1>0, <1>7, <2>1, <3>2
    <3> QED BY <1>7, <2>2, <3>3
  <2>3. CASE sizes[r] # m
    BY <1>7, <2>1, <2>3
  <2> QED BY <2>2, <2>3
<1> QED BY <1>8 DEF Pool!LastBySize

\* createSizeBalancedQueues finds a worker whose queue is the lightest.
LEMMA LightestExists ==
  ASSUME NEW sizes \in [Tasks -> Nat], NEW queues \in [Workers -> Seq(Tasks)]
  PROVE  Pool!Lightest(queues, sizes) \in Workers
<1> DEFINE size == [w \in Workers |-> Pool!ScheduledSize(queues[w], sizes)]
           A == {size[w] : w \in Workers}
           m == Min(A)
           B == {w \in Workers : size[w] = m}
           k == Min(B)
<1>0. Workers \in SUBSET Nat /\ Workers # {}
  <2>1. Workers = 1..PoolSize /\ 1 \in Workers
    BY PoolConstants
  <2> QED BY <2>1
<1>1. size \in [Workers -> Nat]
  <2>1. ASSUME NEW w \in Workers PROVE SumFunctionOnSet(sizes, ToSet(queues[w])) \in Nat
    <3>1. queues[w] \in Seq(Tasks)
      OBVIOUS
    <3>2. IsFiniteSet(ToSet(queues[w])) /\ ToSet(queues[w]) \subseteq Tasks
      BY <3>1, ElementsFinite, ElementsType
    <3>3. \A t \in ToSet(queues[w]) : sizes[t] \in Nat
      BY <3>2
    <3> QED BY <3>2, <3>3, SumNat
  <2> QED BY <2>1, PoolLibrary
<1> HIDE DEF size
<1>2. A \in SUBSET Nat /\ A # {}
  BY <1>0, <1>1
<1>3. m \in A /\ \A n \in A : m <= n
  BY <1>2, LeastElement
<1>4. m \in Nat /\ \A w \in Workers : m <= size[w] /\ size[w] \in Nat
  BY <1>1, <1>2, <1>3
<1>5. \E w \in Workers : size[w] = m
  BY <1>3
<1> HIDE DEF m
<1>6. B \in SUBSET Nat /\ B # {}
  BY <1>0, <1>5
<1>7. k \in B /\ \A n \in B : k <= n
  BY <1>6, LeastElement
<1> HIDE DEF k
<1>8. k \in Workers /\ size[k] = m
  BY <1>7
<1>9. ASSUME NEW v \in Workers
      PROVE  size[k] < size[v] \/ (size[k] = size[v] /\ k <= v)
  <2>1. m <= size[v] /\ size[v] \in Nat /\ m \in Nat
    BY <1>4
  <2>2. CASE size[v] = m
    BY <1>7, <1>8, <2>2
  <2>3. CASE size[v] # m
    BY <1>8, <2>1, <2>3
  <2> QED BY <2>2, <2>3
<1>10. \E w \in Workers : \A v \in Workers :
        \/ Pool!ScheduledSize(queues[w], sizes) < Pool!ScheduledSize(queues[v], sizes)
        \/ /\ Pool!ScheduledSize(queues[w], sizes) = Pool!ScheduledSize(queues[v], sizes)
           /\ w <= v
  BY <1>8, <1>9 DEF size
<1> QED BY <1>10 DEF Pool!Lightest, Workers

\* What the distribution of tasks T leaves in the queues.
Balanced(queues, T) ==
  /\ queues \in [Workers -> Seq(Tasks)]
  /\ \A w \in Workers : IsInjective(queues[w]) /\ ToSet(queues[w]) \subseteq T
  /\ \A t \in T : \E w \in Workers : t \in ToSet(queues[w])
  /\ \A v, w \in Workers : v # w => ToSet(queues[v]) \cap ToSet(queues[w]) = {}

NoQueues == [w \in Workers |-> <<>>]
Put(queues, t, sizes) ==
  [queues EXCEPT ![Pool!Lightest(queues, sizes)] = Append(@, t)]

\* The recursion that SizeBalancedQueues unfolds.
BalanceStep(sizes, iter) ==
  [s \in SUBSET Tasks |->
     IF s = {} THEN NoQueues
     ELSE Put(iter[s \ {Pool!LastBySize(s, sizes)}], Pool!LastBySize(s, sizes), sizes)]

\* The fold over the tasks is that recursion.
LEMMA BalanceUnfolds ==
  ASSUME NEW sizes
  PROVE  Pool!SizeBalancedQueues(sizes)
           = (CHOOSE iter : iter = BalanceStep(sizes, iter))[Tasks]
BY DEF Pool!SizeBalancedQueues, Pool!MapThenFoldSet, BalanceStep, NoQueues, Put, Tasks,
       Workers

\* A task that is put into a queue is in no other.
LEMMA PutKeepsBalance ==
  ASSUME NEW sizes \in [Tasks -> Nat], NEW T \in SUBSET Tasks, NEW t \in Tasks, t \notin T,
         NEW queues, Balanced(queues, T)
  PROVE  Balanced(Put(queues, t, sizes), T \cup {t})
<1> DEFINE k == Pool!Lightest(queues, sizes)
           q == queues[k]
           new == Append(q, t)
           after == [queues EXCEPT ![k] = new]
<1>1. queues \in [Workers -> Seq(Tasks)] /\ k \in Workers
  BY LightestExists DEF Balanced
<1>2. q \in Seq(Tasks) /\ IsInjective(q) /\ t \notin ToSet(q)
  BY <1>1 DEF Balanced
<1> HIDE DEF k
<1>3. /\ new \in Seq(Tasks) /\ ToSet(new) = ToSet(q) \cup {t} /\ IsInjective(new)
  BY <1>2, AppendElements
<1> HIDE DEF new
<1>4. after \in [Workers -> Seq(Tasks)]
  BY <1>1, <1>3
<1>5. /\ after[k] = new /\ \A w \in Workers : w # k => after[w] = queues[w]
  BY <1>1
<1>6. Put(queues, t, sizes) = after
  BY DEF Put, new, k
<1> HIDE DEF after
<1>7. \A w \in Workers : ToSet(after[w]) = IF w = k THEN ToSet(queues[w]) \cup {t}
                                           ELSE ToSet(queues[w])
  BY <1>3, <1>5
<1>8. \A w \in Workers : IsInjective(after[w])
  BY <1>3, <1>5 DEF Balanced
<1>9. \A w \in Workers : ToSet(after[w]) \subseteq T \cup {t}
  BY <1>7 DEF Balanced
<1>10. \A s \in T \cup {t} : \E w \in Workers : s \in ToSet(after[w])
  BY <1>1, <1>7 DEF Balanced
<1>11. \A v, w \in Workers : v # w => ToSet(after[v]) \cap ToSet(after[w]) = {}
  <2> SUFFICES ASSUME NEW v \in Workers, NEW w \in Workers, v # w
               PROVE  ToSet(after[v]) \cap ToSet(after[w]) = {}
    OBVIOUS
  <2>1. /\ t \notin ToSet(queues[v]) /\ t \notin ToSet(queues[w])
        /\ ToSet(queues[v]) \cap ToSet(queues[w]) = {}
    BY DEF Balanced
  <2>2. /\ ToSet(after[v]) \subseteq ToSet(queues[v]) \cup {t}
        /\ ToSet(after[w]) \subseteq ToSet(queues[w]) \cup {t}
        /\ t \notin ToSet(after[v]) \/ t \notin ToSet(after[w])
    BY <1>7, <2>1
  <2> QED BY <2>1, <2>2
<1> QED BY <1>4, <1>6, <1>8, <1>9, <1>10, <1>11 DEF Balanced

\* createSizeBalancedQueues gives every task to exactly one worker.
LEMMA QueuesAreBalanced ==
  ASSUME NEW sizes \in [Tasks -> Nat]
  PROVE  Balanced(Pool!SizeBalancedQueues(sizes), Tasks)
<1> DEFINE V == [Workers -> Seq(Tasks)]
           c == [s \in SUBSET Tasks |-> Pool!LastBySize(s, sizes)]
           op == [t \in Tasks |-> [queues \in V |-> Put(queues, t, sizes)]]
           iter == CHOOSE f : f = BalanceStep(sizes, f)
<1>1. ASSUME NEW queues \in V, NEW t \in Tasks PROVE Put(queues, t, sizes) \in V
  <2>1. Pool!Lightest(queues, sizes) \in Workers
    BY LightestExists
  <2>2. queues[Pool!Lightest(queues, sizes)] \in Seq(Tasks)
    BY <2>1
  <2>3. Append(queues[Pool!Lightest(queues, sizes)], t) \in Seq(Tasks)
    BY <2>2
  <2> QED BY <2>1, <2>3 DEF Put
<1>2. op \in [Tasks -> [V -> V]]
  BY <1>1
<1>3. \A s \in SUBSET Tasks : s # {} => c[s] \in s
  BY LastExists
<1>4. NoQueues \in V
  <2>1. <<>> \in Seq(Tasks)
    OBVIOUS
  <2> QED BY <2>1 DEF NoQueues
<1>5. IsFiniteSet(Tasks)
  BY PoolConstants
<1>6. \E g : IsFold(g, Tasks, V, NoQueues, op, c)
  <2> HIDE DEF V, c, op, iter
  <2> QED BY ONLY <1>2, <1>3, <1>4, <1>5, FoldExists
<1>7. PICK g \in [SUBSET Tasks -> V] : \A s \in SUBSET Tasks :
        g[s] = IF s = {} THEN NoQueues ELSE op[c[s]][g[s \ {c[s]}]]
  BY <1>6 DEF IsFold
<1>8. g = BalanceStep(sizes, g)
  <2>1. ASSUME NEW s \in SUBSET Tasks
        PROVE  g[s] = IF s = {} THEN NoQueues
                      ELSE Put(g[s \ {Pool!LastBySize(s, sizes)}],
                               Pool!LastBySize(s, sizes), sizes)
    <3>1. CASE s = {}
      BY <1>7, <3>1
    <3>2. CASE s # {}
      <4>1. c[s] \in Tasks /\ c[s] = Pool!LastBySize(s, sizes)
        BY <1>3, <3>2
      <4>2. s \ {c[s]} \in SUBSET Tasks
        OBVIOUS
      <4>3. g[s \ {c[s]}] \in V
        BY <4>2
      <4>4. g[s] = op[c[s]][g[s \ {c[s]}]]
        BY <1>7, <3>2
      <4>5. \A t \in Tasks : \A queues \in V : op[t][queues] = Put(queues, t, sizes)
        OBVIOUS
      <4> HIDE DEF c, op, V
      <4>6. g[s] = Put(g[s \ {c[s]}], c[s], sizes)
        BY <4>1, <4>3, <4>4, <4>5
      <4> QED BY <3>2, <4>1, <4>6
    <3> QED BY <3>1, <3>2
  <2>2. g = [s \in SUBSET Tasks |-> g[s]]
    BY <1>7
  <2> HIDE DEF V, c, op
  <2> QED BY <2>1, <2>2 DEF BalanceStep
<1>9. iter = BalanceStep(sizes, iter)
  BY <1>8
<1> HIDE DEF iter
<1>10. ASSUME NEW s \in SUBSET Tasks
       PROVE  iter[s] = IF s = {} THEN NoQueues
                        ELSE Put(iter[s \ {Pool!LastBySize(s, sizes)}],
                                 Pool!LastBySize(s, sizes), sizes)
  <2>1. iter[s] = BalanceStep(sizes, iter)[s]
    BY <1>9
  <2> QED BY <2>1 DEF BalanceStep
<1> DEFINE D == {s \in SUBSET Tasks : ~Balanced(iter[s], s)}
<1>11. D = {}
  <2>1. SUFFICES ASSUME D # {} PROVE FALSE
    OBVIOUS
  <2>2. D \subseteq FiniteSubsetsOf(Tasks)
    BY <1>5, FS_Subset DEF FiniteSubsetsOf
  <2> HIDE DEF D
  <2>3. IsWellFoundedOn(StrictSubsetOrdering(Tasks), FiniteSubsetsOf(Tasks))
    BY <1>5, FS_StrictSubsetOrderingWellFounded
  <2>4. PICK s \in D : \A r \in D : <<r, s>> \notin StrictSubsetOrdering(Tasks)
    BY ONLY <2>1, <2>2, <2>3, WFMin
  <2>5. Balanced(NoQueues, {})
    BY <1>4, ElementsEmpty DEF Balanced, NoQueues
  <2>6. s \in SUBSET Tasks /\ ~Balanced(iter[s], s) /\ s # {}
    <3>1. s \in SUBSET Tasks /\ ~Balanced(iter[s], s)
      BY <2>4 DEF D
    <3>2. s = {} => iter[s] = NoQueues
      BY <1>10, <3>1
    <3> QED BY <2>5, <3>1, <3>2
  <2>7. PICK t \in s : t = Pool!LastBySize(s, sizes)
    BY <2>6, LastExists
  <2>8. iter[s] = Put(iter[s \ {t}], t, sizes)
    BY <1>10, <2>6, <2>7
  <2>9. Balanced(iter[s \ {t}], s \ {t})
    <3>1. s \ {t} \in SUBSET Tasks /\ s \ {t} \subseteq s /\ s \ {t} # s
      BY <2>6, <2>7
    <3>2. <<s \ {t}, s>> \in StrictSubsetOrdering(Tasks)
      BY <2>6, <3>1 DEF StrictSubsetOrdering
    <3> QED BY <2>4, <3>1, <3>2 DEF D
  <2>10. /\ s \ {t} \in SUBSET Tasks /\ t \in Tasks /\ t \notin s \ {t}
         /\ (s \ {t}) \cup {t} = s
    BY <2>6, <2>7
  <2>11. Balanced(Put(iter[s \ {t}], t, sizes), (s \ {t}) \cup {t})
    BY <2>9, <2>10, PutKeepsBalance
  <2> QED BY <2>6, <2>8, <2>10, <2>11
<1>12. Balanced(iter[Tasks], Tasks)
  BY <1>11
<1> QED BY <1>12, BalanceUnfolds DEF iter

\* Before the call nothing moves.
PoolNew ==
  /\ taskQueue = [w \in Workers |-> <<>>] /\ poolTask = [w \in Workers |-> Pool!NoTask]
  /\ deadline = [w \in Workers |-> FALSE] /\ thread = [w \in Workers |-> "idle"]
  /\ posted = [w \in Workers |-> <<>>]
  /\ rendered = {} /\ failures = {} /\ ~dispatchStopped /\ ~poolSettled
  /\ poolOutcome = "pending" /\ completedTasks = 0

\* Every task is in one queue, with one worker, rendered or failed.
PoolTypes ==
  /\ taskQueue \in [Workers -> Seq(Tasks)]
  /\ poolTask \in [Workers -> Tasks \cup {Pool!NoTask}]
  /\ rendered \in SUBSET Tasks /\ failures \in SUBSET Tasks
TasksPlaced ==
  /\ \A w \in Workers : IsInjective(taskQueue[w])
  /\ \A v, w \in Workers : v # w => ToSet(taskQueue[v]) \cap ToSet(taskQueue[w]) = {}
  /\ \A v, w \in Workers : poolTask[v] = poolTask[w] => v = w \/ poolTask[v] = Pool!NoTask
  /\ \A v, w \in Workers : poolTask[v] \notin ToSet(taskQueue[w])
  /\ \A w \in Workers : /\ ToSet(taskQueue[w]) \cap (rendered \cup failures) = {}
                        /\ poolTask[w] \notin rendered \cup failures
  /\ rendered \cap failures = {}
  /\ \A t \in Tasks : \/ t \in rendered \cup failures
                      \/ \E w \in Workers : t \in ToSet(taskQueue[w]) \/ poolTask[w] = t

\* The counters count; and once the pool has settled nothing is under way, and all is
\* rendered or something has failed.
Busy == {w \in Workers : poolTask[w] # Pool!NoTask}
TasksCounted == /\ activeTasks = Cardinality(Busy)
                /\ completedTasks = Cardinality(rendered)
PoolEnds ==
  /\ dispatchStopped => failures # {}
  /\ poolSettled => Busy = {} /\ (rendered = Tasks \/ failures # {})
  /\ poolOutcome # "pending" => poolSettled
  /\ poolOutcome = "resolved" => failures = {}
  /\ poolOutcome = "rejected" => failures # {}
PoolAtWork == PoolTypes /\ TasksPlaced /\ TasksCounted /\ PoolEnds
PoolInv == IF poolKinds = "unset" THEN PoolNew ELSE PoolAtWork

\* The call distributes the tasks, and every worker that has one starts.
LEMMA RenderKeeps ==
  ASSUME PoolInv, Pool!Render PROVE PoolInv'
<1>1. PoolNew /\ poolKinds' # "unset"
  BY DEF PoolInv, Pool!Render, Pool!Kinds
<1> DEFINE queues == Pool!SizeBalancedQueues(sizeOf')
           busy == {w \in Workers : queues[w] # <<>>}
<1>2. /\ sizeOf' \in [Tasks -> Nat]
      /\ taskQueue' = [w \in Workers |-> IF w \in busy THEN Tail(queues[w]) ELSE <<>>]
      /\ poolTask' = [w \in Workers |-> IF w \in busy THEN Head(queues[w])
                                        ELSE Pool!NoTask]
      /\ activeTasks' = Cardinality(busy)
      /\ UNCHANGED <<rendered, failures, dispatchStopped, poolSettled, poolOutcome,
                     completedTasks>>
  BY PoolConstants, PoolLibrary DEF Pool!Render, Tasks, Workers
<1>3. Balanced(queues, Tasks)
  BY <1>2, QueuesAreBalanced
<1> HIDE DEF queues
<1>4. ASSUME NEW w \in busy
      PROVE  /\ taskQueue'[w] = Tail(queues[w]) /\ poolTask'[w] = Head(queues[w])
             /\ Head(queues[w]) \in Tasks /\ Tail(queues[w]) \in Seq(Tasks)
             /\ ToSet(queues[w]) = ToSet(Tail(queues[w])) \cup {Head(queues[w])}
             /\ IsInjective(Tail(queues[w]))
             /\ Head(queues[w]) \notin ToSet(Tail(queues[w]))
  <2>1. queues[w] \in Seq(Tasks) /\ queues[w] # <<>> /\ IsInjective(queues[w])
    BY <1>3 DEF Balanced
  <2> QED BY <1>2, <2>1, TailElements
<1>5. ASSUME NEW w \in Workers, w \notin busy
      PROVE  /\ taskQueue'[w] = <<>> /\ poolTask'[w] = Pool!NoTask
             /\ ToSet(taskQueue'[w]) = {} /\ IsInjective(taskQueue'[w])
             /\ ToSet(queues[w]) = {} /\ taskQueue'[w] \in Seq(Tasks)
  BY <1>2, <1>5, ElementsEmpty
<1>6. /\ rendered' = {} /\ failures' = {} /\ ~dispatchStopped' /\ ~poolSettled'
      /\ poolOutcome' = "pending" /\ completedTasks' = 0
  BY <1>1, <1>2 DEF PoolNew
<1>7. busy \subseteq Workers /\ Pool!NoTask \notin Tasks
  BY PoolConstants
<1> HIDE DEF busy
<1>8. ASSUME NEW w \in Workers
      PROVE  /\ ToSet(queues[w]) = ToSet(taskQueue'[w]) \cup ({poolTask'[w]} \ {Pool!NoTask})
             /\ poolTask'[w] \notin ToSet(taskQueue'[w]) /\ IsInjective(taskQueue'[w])
             /\ taskQueue'[w] \in Seq(Tasks) /\ ToSet(taskQueue'[w]) \subseteq Tasks
             /\ poolTask'[w] \in Tasks \cup {Pool!NoTask}
             /\ poolTask'[w] # Pool!NoTask <=> w \in busy
  <2>1. CASE w \in busy
    BY <1>4, <1>7, <2>1, ElementsType
  <2>2. CASE w \notin busy
    BY <1>5, <1>7, <2>2
  <2> QED BY <2>1, <2>2
<1>9. PoolTypes'
  <2>1. /\ taskQueue' = [w \in Workers |-> taskQueue'[w]]
        /\ poolTask' = [w \in Workers |-> poolTask'[w]]
    BY <1>2
  <2>2. taskQueue' \in [Workers -> Seq(Tasks)]
    BY <1>8, <2>1
  <2>3. poolTask' \in [Workers -> Tasks \cup {Pool!NoTask}]
    BY <1>8, <2>1
  <2> QED BY <1>6, <2>2, <2>3 DEF PoolTypes
<1>10. TasksPlaced'
  <2>1. ASSUME NEW v \in Workers, NEW w \in Workers, v # w
        PROVE  /\ ToSet(taskQueue'[v]) \cap ToSet(taskQueue'[w]) = {}
               /\ poolTask'[v] = poolTask'[w] => poolTask'[v] = Pool!NoTask
               /\ poolTask'[v] \notin ToSet(taskQueue'[w])
    <3>1. ToSet(queues[v]) \cap ToSet(queues[w]) = {}
      BY <1>3, <2>1 DEF Balanced
    <3> QED BY <1>7, <1>8, <3>1
  <2>2. ASSUME NEW t \in Tasks
        PROVE  \E w \in Workers : t \in ToSet(taskQueue'[w]) \/ poolTask'[w] = t
    BY <1>3, <1>8 DEF Balanced
  <2> QED BY <1>6, <1>7, <1>8, <2>1, <2>2 DEF TasksPlaced
<1>11. TasksCounted'
  <2>1. Busy' = busy
    BY <1>7, <1>8 DEF Busy
  <2>2. Cardinality({}) = 0
    BY FS_EmptySet
  <2> QED BY <1>2, <1>6, <2>1, <2>2 DEF TasksCounted
<1>12. PoolEnds'
  BY <1>6 DEF PoolEnds
<1> QED BY <1>1, <1>9, <1>10, <1>11, <1>12 DEF PoolInv, PoolAtWork

\* The pool as it starts.
LEMMA PoolInitial == Pool!PoolInit => PoolInv
BY DEF Pool!PoolInit, PoolInv, PoolNew, Workers

\* A worker that has a task makes one of the busy.
LEMMA BusyCounted ==
  ASSUME NEW w \in Busy
  PROVE  IsFiniteSet(Busy) /\ Cardinality(Busy) \in Nat
         /\ Cardinality(Busy \ {w}) = Cardinality(Busy) - 1
<1>1. IsFiniteSet(Busy)
  BY PoolConstants, FS_Subset DEF Busy
<1> QED BY <1>1, FS_CardinalityType, FS_RemoveElement

\* Nothing is under way any more once finish() settles: when all is complete every task is
\* rendered, and otherwise the dispatch has stopped and the count of active tasks is zero.
LEMMA FinishEnds ==
  ASSUME PoolEnds, ~poolSettled, PoolTypes', TasksPlaced', TasksCounted', Pool!Finish,
         UNCHANGED poolOutcome, dispatchStopped' => failures' # {}
  PROVE  PoolEnds'
<1>1. poolOutcome' = "pending"
  BY DEF PoolEnds
<1>2. CASE completedTasks' = TaskCount
  <2>1. rendered' \in SUBSET Tasks /\ Cardinality(rendered') = Cardinality(Tasks)
    BY <1>2, PoolConstants DEF PoolTypes, TasksCounted
  <2>2. rendered' = Tasks
    BY <2>1, PoolConstants, FS_Subset
  <2>3. \A w \in Workers : poolTask'[w] \in Tasks \cup {Pool!NoTask}
    BY DEF PoolTypes
  <2>4. \A w \in Workers : poolTask'[w] \notin rendered'
    BY DEF TasksPlaced
  <2>5. Busy' = {}
    BY <2>2, <2>3, <2>4 DEF Busy
  <2> QED BY <1>1, <2>2, <2>5 DEF PoolEnds
<1>3. CASE dispatchStopped' /\ activeTasks' = 0
  <2>1. IsFiniteSet(Busy')
    BY PoolConstants, FS_Subset DEF Busy
  <2>2. Busy' = {}
    BY <1>3, <2>1, FS_EmptySet DEF TasksCounted
  <2> QED BY <1>1, <1>3, <2>2 DEF PoolEnds
<1>4. CASE ~poolSettled'
  BY <1>1, <1>4 DEF PoolEnds
<1> QED BY <1>2, <1>3, <1>4 DEF Pool!Finish

\* A task that ends leaves its worker, for the results or for the failures.
TaskLeaves(w) ==
  \/ /\ rendered' = rendered \cup {poolTask[w]} /\ completedTasks' = completedTasks + 1
     /\ UNCHANGED <<failures, dispatchStopped>>
  \/ /\ failures' = failures \cup {poolTask[w]} /\ dispatchStopped'
     /\ UNCHANGED <<rendered, completedTasks>>

\* The results are counted, whichever it is.
LEMMA ResultsCounted ==
  ASSUME PoolTypes, TasksPlaced, TasksCounted, NEW w \in Busy, TaskLeaves(w)
  PROVE  /\ completedTasks' = Cardinality(rendered')
         /\ rendered' \cup failures' = rendered \cup failures \cup {poolTask[w]}
         /\ rendered' \cap failures' = {}
         /\ rendered' \in SUBSET Tasks /\ failures' \in SUBSET Tasks
<1>1. /\ w \in Workers /\ poolTask[w] \in Tasks
      /\ poolTask[w] \notin rendered /\ poolTask[w] \notin failures
      /\ rendered \cap failures = {} /\ rendered \in SUBSET Tasks
      /\ failures \in SUBSET Tasks
  BY DEF Busy, PoolTypes, TasksPlaced
<1>2. IsFiniteSet(rendered)
  BY <1>1, PoolConstants, FS_Subset
<1>3. Cardinality(rendered \cup {poolTask[w]}) = Cardinality(rendered) + 1
  BY <1>1, <1>2, FS_AddElement
<1> QED BY <1>1, <1>3 DEF TaskLeaves, TasksCounted

\* The worker is left without a task.
LEMMA TaskEnds ==
  ASSUME PoolAtWork, ~poolSettled, NEW w \in Busy, TaskLeaves(w),
         poolTask' = [poolTask EXCEPT ![w] = Pool!NoTask], UNCHANGED taskQueue,
         activeTasks' = activeTasks - 1, Pool!Finish, UNCHANGED poolOutcome
  PROVE  PoolAtWork'
<1>1. PoolTypes /\ TasksPlaced /\ TasksCounted /\ PoolEnds /\ w \in Workers
  BY DEF PoolAtWork, Busy
<1>2. /\ poolTask[w] \in Tasks /\ poolTask[w] # Pool!NoTask
      /\ poolTask' \in [Workers -> Tasks \cup {Pool!NoTask}]
      /\ \A v \in Workers : poolTask'[v] = IF v = w THEN Pool!NoTask ELSE poolTask[v]
  BY <1>1 DEF PoolTypes, Busy
<1>3. PoolTypes'
  BY <1>1, <1>2, ResultsCounted DEF PoolTypes
<1>4. TasksPlaced'
  <2>1. /\ rendered' \cup failures' = rendered \cup failures \cup {poolTask[w]}
        /\ rendered' \cap failures' = {} /\ rendered' \cup failures' \subseteq Tasks
    BY <1>1, ResultsCounted
  <2>2. \A u, v \in Workers : poolTask'[u] = poolTask'[v] => u = v \/ poolTask'[u] = Pool!NoTask
    BY <1>1, <1>2 DEF TasksPlaced
  <2>3. \A u, v \in Workers : poolTask'[u] \notin ToSet(taskQueue'[v])
    <3> SUFFICES ASSUME NEW u \in Workers, NEW v \in Workers
                 PROVE  poolTask'[u] \notin ToSet(taskQueue[v])
      OBVIOUS
    <3>1. ToSet(taskQueue[v]) \subseteq Tasks
      BY <1>1, ElementsType DEF PoolTypes
    <3>2. poolTask[u] \notin ToSet(taskQueue[v])
      BY <1>1 DEF TasksPlaced
    <3> QED BY <1>2, <3>1, <3>2, PoolConstants
  <2>4. ASSUME NEW v \in Workers
        PROVE  /\ ToSet(taskQueue'[v]) \cap (rendered' \cup failures') = {}
               /\ poolTask'[v] \notin rendered' \cup failures'
    <3>1. /\ ToSet(taskQueue[v]) \cap (rendered \cup failures) = {}
          /\ poolTask[w] \notin ToSet(taskQueue[v])
          /\ poolTask[v] \notin rendered \cup failures
          /\ poolTask[v] = poolTask[w] => v = w
      BY <1>1, <1>2 DEF TasksPlaced
    <3>2. ToSet(taskQueue'[v]) \cap (rendered' \cup failures') = {}
      BY <2>1, <3>1
    <3>3. poolTask'[v] \notin rendered' \cup failures'
      BY <1>2, <2>1, <3>1, PoolConstants
    <3> QED BY <3>2, <3>3
  <2>5. ASSUME NEW t \in Tasks
        PROVE  \/ t \in rendered' \cup failures'
               \/ \E v \in Workers : t \in ToSet(taskQueue'[v]) \/ poolTask'[v] = t
    <3>1. \/ t \in rendered \cup failures
          \/ \E v \in Workers : t \in ToSet(taskQueue[v]) \/ poolTask[v] = t
      BY <1>1 DEF TasksPlaced
    <3> QED BY <1>2, <2>1, <3>1
  <2> QED BY <1>1, <2>1, <2>2, <2>3, <2>4, <2>5 DEF TasksPlaced
<1>5. TasksCounted'
  <2>1. Busy' = Busy \ {w}
    BY <1>2 DEF Busy
  <2> QED BY <1>1, <2>1, BusyCounted, ResultsCounted DEF TasksCounted
<1>6. dispatchStopped' => failures' # {}
  BY <1>1, <1>2 DEF TaskLeaves, PoolEnds
<1> QED BY <1>1, <1>3, <1>4, <1>5, <1>6, FinishEnds DEF PoolAtWork

\* The worker goes on with the next task of its own queue.
LEMMA TaskFollows ==
  ASSUME PoolAtWork, ~poolSettled, NEW w \in Busy, TaskLeaves(w), taskQueue[w] # <<>>,
         poolTask' = [poolTask EXCEPT ![w] = Head(taskQueue[w])],
         taskQueue' = [taskQueue EXCEPT ![w] = Tail(taskQueue[w])],
         UNCHANGED activeTasks, Pool!Finish, UNCHANGED poolOutcome
  PROVE  PoolAtWork'
<1> DEFINE next == Head(taskQueue[w])
           rest == Tail(taskQueue[w])
<1>1. PoolTypes /\ TasksPlaced /\ TasksCounted /\ PoolEnds /\ w \in Workers
  BY DEF PoolAtWork, Busy
<1>2. taskQueue[w] \in Seq(Tasks) /\ IsInjective(taskQueue[w])
  BY <1>1 DEF PoolTypes, TasksPlaced
<1>3. /\ next \in Tasks /\ rest \in Seq(Tasks) /\ IsInjective(rest)
      /\ ToSet(taskQueue[w]) = ToSet(rest) \cup {next} /\ next \notin ToSet(rest)
  BY <1>2, TailElements
<1> HIDE DEF next, rest
<1>4. /\ poolTask[w] \in Tasks /\ poolTask[w] # Pool!NoTask /\ next # Pool!NoTask
      /\ poolTask' \in [Workers -> Tasks \cup {Pool!NoTask}]
      /\ \A v \in Workers : poolTask'[v] = IF v = w THEN next ELSE poolTask[v]
  BY <1>1, <1>3, PoolConstants DEF PoolTypes, Busy, next
<1>5. /\ taskQueue' \in [Workers -> Seq(Tasks)]
      /\ \A v \in Workers : taskQueue'[v] = IF v = w THEN rest ELSE taskQueue[v]
  BY <1>1, <1>3 DEF PoolTypes, rest
<1>6. PoolTypes'
  BY <1>1, <1>4, <1>5, ResultsCounted DEF PoolTypes
<1>7. TasksPlaced'
  <2>1. /\ rendered' \cup failures' = rendered \cup failures \cup {poolTask[w]}
        /\ rendered' \cap failures' = {}
    BY <1>1, ResultsCounted
  <2>2. ASSUME NEW v \in Workers
        PROVE  /\ ToSet(taskQueue'[v]) \subseteq ToSet(taskQueue[v])
               /\ next \notin ToSet(taskQueue'[v]) /\ IsInjective(taskQueue'[v])
               /\ poolTask[w] \notin ToSet(taskQueue[v])
    <3>1. v # w => ToSet(taskQueue[v]) \cap ToSet(taskQueue[w]) = {}
      BY <1>1 DEF TasksPlaced
    <3>2. IsInjective(taskQueue[v]) /\ poolTask[w] \notin ToSet(taskQueue[v])
      BY <1>1 DEF TasksPlaced
    <3> QED BY <1>3, <1>5, <3>1, <3>2
  <2>3. \A u, v \in Workers : u # v => ToSet(taskQueue'[u]) \cap ToSet(taskQueue'[v]) = {}
    <3> SUFFICES ASSUME NEW u \in Workers, NEW v \in Workers, u # v
                 PROVE  ToSet(taskQueue'[u]) \cap ToSet(taskQueue'[v]) = {}
      OBVIOUS
    <3>1. ToSet(taskQueue[u]) \cap ToSet(taskQueue[v]) = {}
      BY <1>1 DEF TasksPlaced
    <3> QED BY <2>2, <3>1
  <2>4. \A v \in Workers : poolTask[v] # next /\ poolTask[v] \notin ToSet(taskQueue[w])
    BY <1>1, <1>3 DEF TasksPlaced
  <2>5. \A u, v \in Workers : poolTask'[u] = poolTask'[v] => u = v \/ poolTask'[u] = Pool!NoTask
    <3> SUFFICES ASSUME NEW u \in Workers, NEW v \in Workers, poolTask'[u] = poolTask'[v]
                 PROVE  u = v \/ poolTask'[u] = Pool!NoTask
      OBVIOUS
    <3>1. poolTask[u] = poolTask[v] => u = v \/ poolTask[u] = Pool!NoTask
      BY <1>1 DEF TasksPlaced
    <3> QED BY <1>4, <2>4, <3>1
  <2>6. \A u, v \in Workers : poolTask'[u] \notin ToSet(taskQueue'[v])
    <3> SUFFICES ASSUME NEW u \in Workers, NEW v \in Workers
                 PROVE  poolTask'[u] \notin ToSet(taskQueue'[v])
      OBVIOUS
    <3>1. poolTask[u] \notin ToSet(taskQueue[v])
      BY <1>1 DEF TasksPlaced
    <3> QED BY <1>4, <2>2, <3>1
  <2>7. ASSUME NEW v \in Workers
        PROVE  /\ ToSet(taskQueue'[v]) \cap (rendered' \cup failures') = {}
               /\ poolTask'[v] \notin rendered' \cup failures'
    <3>1. /\ ToSet(taskQueue[v]) \cap (rendered \cup failures) = {}
          /\ poolTask[v] \notin rendered \cup failures
          /\ poolTask[v] = poolTask[w] => v = w
          /\ ToSet(taskQueue[w]) \cap (rendered \cup failures) = {}
      BY <1>1, <1>4 DEF TasksPlaced
    <3>2. ToSet(taskQueue'[v]) \cap (rendered' \cup failures') = {}
      BY <2>1, <2>2, <3>1
    <3>3. next \notin rendered \cup failures /\ next # poolTask[w]
      BY <1>1, <1>3, <2>4, <3>1
    <3> QED BY <1>4, <2>1, <3>1, <3>2, <3>3
  <2>8. ASSUME NEW t \in Tasks
        PROVE  \/ t \in rendered' \cup failures'
               \/ \E v \in Workers : t \in ToSet(taskQueue'[v]) \/ poolTask'[v] = t
    <3>1. \/ t \in rendered \cup failures
          \/ \E v \in Workers : t \in ToSet(taskQueue[v]) \/ poolTask[v] = t
      BY <1>1 DEF TasksPlaced
    <3>2. CASE t \in rendered \cup failures \cup {poolTask[w]}
      BY <2>1, <3>2
    <3>3. CASE t \in ToSet(taskQueue[w])
      BY <1>1, <1>3, <1>4, <1>5, <3>3
    <3>4. ASSUME NEW v \in Workers, v # w, t \in ToSet(taskQueue[v]) \/ poolTask[v] = t
          PROVE  t \in ToSet(taskQueue'[v]) \/ poolTask'[v] = t
      BY <1>4, <1>5, <3>4
    <3> QED BY <3>1, <3>2, <3>3, <3>4
  <2> QED BY <2>1, <2>2, <2>3, <2>5, <2>6, <2>7, <2>8 DEF TasksPlaced
<1>8. TasksCounted'
  <2>1. Busy' = Busy
    BY <1>4 DEF Busy
  <2> QED BY <1>1, <2>1, ResultsCounted DEF TasksCounted
<1>9. dispatchStopped' => failures' # {}
  BY <1>1 DEF TaskLeaves, PoolEnds
<1> QED BY <1>1, <1>6, <1>7, <1>8, <1>9, FinishEnds DEF PoolAtWork

\* What a step may leave alone.
poolAccount == <<taskQueue, poolTask, rendered, failures, dispatchStopped, poolSettled,
                 poolOutcome, activeTasks, completedTasks>>

\* The tasks stay where they are.
LEMMA TasksStand ==
  ASSUME PoolAtWork, UNCHANGED poolAccount PROVE PoolAtWork'
<1>1. Busy' = Busy
  BY DEF poolAccount, Busy
<1> QED BY <1>1 DEF PoolAtWork, poolAccount, PoolTypes, TasksPlaced, TasksCounted, PoolEnds

\* A worker fails: at most its task does.
LEMMA FailKeeps ==
  ASSUME PoolAtWork, NEW w \in Workers, Pool!FailState(w), UNCHANGED poolOutcome
  PROVE  PoolAtWork'
<1>1. CASE poolTask[w] = Pool!NoTask
  BY <1>1, TasksStand DEF Pool!FailState, poolAccount
<1>2. CASE poolTask[w] # Pool!NoTask
  <2>1. w \in Busy /\ ~poolSettled
    BY <1>2 DEF Busy, PoolAtWork, PoolEnds
  <2> QED BY <1>2, <2>1, TaskEnds DEF Pool!FailState, Pool!Fail, TaskLeaves
<1> QED BY <1>1, <1>2

\* A message of a worker is heard only about the task it has.
LEMMA MessageKeeps ==
  ASSUME PoolAtWork, NEW w \in Workers, NEW m, Pool!OnMessage(w, m), UNCHANGED poolOutcome,
         m.kind \in {"query-index-complete", "error", "content"}
  PROVE  PoolAtWork'
<1>1. CASE poolSettled \/ poolTask[w] = Pool!NoTask \/ m.task # poolTask[w]
  BY <1>1, TasksStand DEF Pool!OnMessage, Pool!Ignored, poolAccount
<1>2. CASE ~(poolSettled \/ poolTask[w] = Pool!NoTask \/ m.task # poolTask[w])
  <2>1. w \in Busy /\ ~poolSettled /\ m.task = poolTask[w]
    BY <1>2 DEF Busy
  <2>2. CASE m.kind = "query-index-complete"
    BY <1>2, <2>2, TasksStand DEF Pool!OnMessage, poolAccount
  <2>3. CASE m.kind = "error"
    <3>1. Pool!Fail(w) /\ Pool!Finish
      BY <1>2, <2>3 DEF Pool!OnMessage
    <3> QED BY <2>1, <3>1, TaskEnds DEF Pool!Fail, TaskLeaves
  <2>4. CASE m.kind = "content"
    <3>1. /\ TaskLeaves(w) /\ Pool!Finish
          /\ \/ /\ poolTask' = [poolTask EXCEPT ![w] = Pool!NoTask] /\ UNCHANGED taskQueue
                /\ activeTasks' = activeTasks - 1
             \/ Pool!Dispatch(w)
      BY <1>2, <2>1, <2>4 DEF Pool!OnMessage, TaskLeaves
    <3>2. \/ /\ poolTask' = [poolTask EXCEPT ![w] = Pool!NoTask] /\ UNCHANGED taskQueue
             /\ activeTasks' = activeTasks - 1
          \/ /\ taskQueue[w] # <<>> /\ UNCHANGED activeTasks
             /\ poolTask' = [poolTask EXCEPT ![w] = Head(taskQueue[w])]
             /\ taskQueue' = [taskQueue EXCEPT ![w] = Tail(taskQueue[w])]
      BY <3>1 DEF Pool!Dispatch
    <3>3. TaskLeaves(w) /\ Pool!Finish
      BY <3>1
    <3> QED BY <2>1, <3>2, <3>3, TaskEnds, TaskFollows
  <2> QED BY <2>2, <2>3, <2>4
<1> QED BY <1>1, <1>2

\* Every step of the pool preserves the invariant; before the call it is the only one.
LEMMA PoolStepKeeps ==
  ASSUME PoolInv, Pool!PoolNext PROVE PoolInv'
<1>1. CASE Pool!Render
  BY <1>1, RenderKeeps
<1>2. CASE poolKinds = "unset" /\ ~Pool!Render
  <2>1. PoolNew
    BY <1>2 DEF PoolInv
  <2>2. ~poolSettled /\ \A w \in Workers : posted[w] = <<>> /\ ~deadline[w] /\ thread[w] = "idle"
    BY <2>1 DEF PoolNew
  <2>3. ~Pool!Terminated
    BY <2>2 DEF Pool!Terminated
  <2>4. ASSUME NEW w \in Workers
        PROVE  /\ ~Pool!Receive(w) /\ ~Pool!DeadlineExpires(w) /\ ~Pool!IndexComplete(w)
               /\ ~Pool!Answer(w) /\ ~Pool!Die(w)
    BY <2>2 DEF Pool!Receive, Pool!DeadlineExpires, Pool!IndexComplete, Pool!Answer, Pool!Die
  <2> QED BY <1>2, <2>3, <2>4 DEF Pool!PoolNext, Workers
<1>3. CASE poolKinds # "unset" /\ ~Pool!Render
  <2>1. PoolAtWork
    BY <1>3 DEF PoolInv
  <2>2. CASE Pool!Terminated
    <3>1. Busy' = Busy
      BY <2>2 DEF Pool!Terminated, Busy
    <3> QED BY <1>3, <2>1, <2>2, <3>1
            DEF Pool!Terminated, PoolInv, PoolAtWork, PoolTypes, TasksPlaced, TasksCounted,
                PoolEnds
  <2>3. ASSUME NEW w \in Workers, Pool!Receive(w) PROVE PoolInv'
    <3>1. UNCHANGED <<poolKinds, poolOutcome>>
      BY <2>3 DEF Pool!Receive
    <3> DEFINE m == Head(posted[w])
    <3>2. IF m.kind \in {"query-index-complete", "error", "content"}
            THEN Pool!OnMessage(w, m) ELSE Pool!OnThreadEvent(w, m)
      BY <2>3 DEF Pool!Receive
    <3> HIDE DEF m
    <3>3. CASE Pool!OnMessage(w, m) /\ m.kind \in {"query-index-complete", "error", "content"}
      BY <1>3, <2>1, <3>1, <3>3, MessageKeeps DEF PoolInv
    <3>4. CASE Pool!OnThreadEvent(w, m)
      <4>1. Pool!FailState(w) \/ UNCHANGED poolAccount
        BY <3>1, <3>4 DEF Pool!OnThreadEvent, poolAccount
      <4> QED BY <1>3, <2>1, <3>1, <4>1, FailKeeps, TasksStand DEF PoolInv
    <3> QED BY <3>2, <3>3, <3>4
  <2>4. ASSUME NEW w \in Workers, Pool!DeadlineExpires(w) PROVE PoolInv'
    <3>1. Pool!FailState(w) /\ UNCHANGED <<poolKinds, poolOutcome>>
      BY <2>4 DEF Pool!DeadlineExpires
    <3> QED BY <1>3, <2>1, <3>1, FailKeeps DEF PoolInv
  <2>5. ASSUME NEW w \in Workers, Pool!IndexComplete(w) \/ Pool!Answer(w) \/ Pool!Die(w)
        PROVE  PoolInv'
    <3>1. UNCHANGED poolAccount /\ UNCHANGED poolKinds
      BY <2>5 DEF Pool!IndexComplete, Pool!Answer, Pool!Die, Pool!WorkerUnchanged, poolAccount
    <3> QED BY <1>3, <2>1, <3>1, TasksStand DEF PoolInv
  <2> QED BY <1>3, <2>2, <2>3, <2>4, <2>5 DEF Pool!PoolNext, Workers
<1> QED BY <1>1, <1>2, <1>3

\* A pool that does not step stays as it is.
LEMMA PoolStands == ASSUME PoolInv, UNCHANGED poolVars PROVE PoolInv'
<1>1. UNCHANGED poolAccount /\ UNCHANGED poolKinds
  BY DEF poolVars, poolAccount
<1>2. CASE poolKinds = "unset"
  BY <1>2 DEF PoolInv, PoolNew, poolVars
<1>3. CASE poolKinds # "unset"
  BY <1>1, <1>3, TasksStand DEF PoolInv
<1> QED BY <1>2, <1>3

\* A task that is somewhere, and nowhere else, has one place.
LEMMA OnePlace ==
  ASSUME PoolTypes, TasksPlaced, NEW t \in Tasks
  PROVE  Cardinality(Pool!Places(t)) = 1
<1> DEFINE queued == {<<"queue", w>> : w \in {v \in Workers : t \in ToSet(taskQueue[v])}}
           given == {<<"active", w>> : w \in {v \in Workers : poolTask[v] = t}}
           done == {<<"rendered", 0>> : r \in rendered \cap {t}}
           lost == {<<"failed", 0>> : r \in failures \cap {t}}
<1>1. Pool!Places(t) = queued \cup given \cup done \cup lost
  BY PoolLibrary DEF Pool!Places, Workers
<1>2. t # Pool!NoTask
  BY PoolConstants
<1>3. CASE t \in rendered
  <2>1. queued = {} /\ given = {} /\ lost = {} /\ done = {<<"rendered", 0>>}
    BY <1>3 DEF TasksPlaced
  <2> QED BY <1>1, <2>1, FS_Singleton
<1>4. CASE t \in failures
  <2>1. queued = {} /\ given = {} /\ done = {} /\ lost = {<<"failed", 0>>}
    BY <1>4 DEF TasksPlaced
  <2> QED BY <1>1, <2>1, FS_Singleton
<1>5. ASSUME NEW w \in Workers, poolTask[w] = t PROVE Cardinality(Pool!Places(t)) = 1
  <2>1. \A v \in Workers : poolTask[v] = t => v = w
    BY <1>2, <1>5 DEF TasksPlaced
  <2>2. queued = {} /\ done = {} /\ lost = {}
    BY <1>5 DEF TasksPlaced
  <2>3. given = {<<"active", w>>}
    BY <1>5, <2>1
  <2> QED BY <1>1, <2>2, <2>3, FS_Singleton
<1>6. ASSUME NEW w \in Workers, t \in ToSet(taskQueue[w])
      PROVE  Cardinality(Pool!Places(t)) = 1
  <2>1. \A v \in Workers : t \in ToSet(taskQueue[v]) => v = w
    BY <1>6 DEF TasksPlaced
  <2>2. given = {} /\ done = {} /\ lost = {}
    BY <1>6 DEF TasksPlaced
  <2>3. queued = {<<"queue", w>>}
    BY <1>6, <2>1
  <2> QED BY <1>1, <2>2, <2>3, FS_Singleton
<1> QED BY <1>3, <1>4, <1>5, <1>6 DEF TasksPlaced

\* The invariant gives the accounts of the pool.
LEMMA PoolAccounts == PoolInv => Pool!PoolAccountsExact
<1> SUFFICES ASSUME PoolAtWork, poolKinds # "unset"
             PROVE  /\ \A t \in Tasks : Cardinality(Pool!Places(t)) = 1
                    /\ activeTasks = Cardinality(Busy)
                    /\ completedTasks = Cardinality(rendered)
                    /\ poolOutcome # "pending" => activeTasks = 0
                    /\ poolOutcome = "resolved" => rendered = Tasks
                    /\ poolOutcome = "rejected" => failures # {}
  BY PoolLibrary DEF PoolInv, Pool!PoolAccountsExact, Tasks, Busy, Workers
<1>1. \A t \in Tasks : Cardinality(Pool!Places(t)) = 1
  BY OnePlace DEF PoolAtWork
<1>2. Cardinality({}) = 0
  BY FS_EmptySet
<1>3. poolOutcome # "pending" => Busy = {}
  BY DEF PoolAtWork, PoolEnds
<1> QED BY <1>1, <1>2, <1>3 DEF PoolAtWork, PoolEnds, TasksCounted

-----------------------------------------------------------------------------
(* Both accounts.                                                           *)

\* A query module that does not step stays as it is.
LEMMA NodeStands == ASSUME NodeInv, UNCHANGED nodeVars PROVE NodeInv'
<1>1. Accepted' = Accepted /\ Node!Held' = Node!Held
  BY DEF Accepted, Node!Held, nodeVars
<1> QED BY <1>1
        DEF NodeInv, ExecInv, ExecTypes, ExecPlaced, ExecAccount, ExecOwned, CallsPlaced,
            ClosedForAll, HeldCounted, nodeVars

\* The query module releases exactly what it has reserved, whatever ends a call, and admits
\* only what its execution accepts; every task of the pool is in exactly one place, the
\* counters count, and the caller is answered when nothing is under way: for any number of
\* requests, bytes, tasks, sizes and workers.
THEOREM AccountsAreExact == ServicesSpec => []AccountsExact
<1>1. ServicesInit => NodeInv /\ PoolInv
  BY NodeInitial, PoolInitial DEF ServicesInit
<1>2. NodeInv /\ PoolInv /\ [ServicesNext]_servicesVars => (NodeInv /\ PoolInv)'
  BY OneServiceSteps, NodeStepKeeps, NodeStands, PoolStepKeeps, PoolStands
<1>3. NodeInv /\ PoolInv => AccountsExact
  BY NodeAccounts, PoolAccounts DEF AccountsExact
<1> QED BY <1>1, <1>2, <1>3, PTL DEF ServicesSpec
=============================================================================
