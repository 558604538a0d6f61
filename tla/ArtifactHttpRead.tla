-------------------------- MODULE ArtifactHttpRead --------------------------
(***************************************************************************)
(* One read of an artifact over HTTP, as the persistent repository does it *)
(* (httpOntologyQueryArtifactReader.js, "bounded": a deadline, conditional *)
(* requests, no body left open) or as a page does it for its own origin    *)
(* (fetchOntologyQueryArtifactRepository.js, "page").  The origin answers  *)
(* what it likes, piece by piece, breaks off or never answers; the caller  *)
(* and the deadline abort the read at any moment.                          *)
(***************************************************************************)
EXTENDS Naturals

CONSTANTS MaximumBytes,     \* maximumDecodedByteLength
          LongestBody,      \* bound: bytes an origin ever sends
          None              \* no reason, no outcome
BodyAssumption ==
  /\ MaximumBytes \in Nat /\ LongestBody \in Nat
  /\ None \notin {"caller", "timeout", "network", "invalid_response", "not_modified",
                  "http_status", "too_large", "type_error", "fetched"}

VARIABLES
  adapter,        \* "bounded" or "page"
  readStage,      \* "idle", "fetching", "reading" or "ended"
  conditional,    \* whether a validator has been sent
  answer,         \* the response, once there is one
  receivedBytes,  \* decodedByteLength
  body,           \* "none", "open", "consumed", "broken" or "cancelled"
  timer,          \* "off", "armed" or "fired"
  abortReason,    \* reason of the request's signal: None, "caller" or "timeout"
  readOutcome     \* what the call has come to
readVars == <<adapter, readStage, conditional, answer, receivedBytes, body, timer,
              abortReason, readOutcome>>

\* A response: its status and type, whether it was redirected, whether it has a body, the
\* length it declares without an encoding (LongestBody + 1: none), and its true length.
NoLength == LongestBody + 1
Responses ==
  {r \in [status : {200, 304, 404}, json : BOOLEAN, redirected : BOOLEAN,
          hasBody : BOOLEAN, declared : 0..NoLength, length : 0..LongestBody] :
     \* The lengths of a body that is refused unread make no difference.
     r.redirected \/ ~r.json \/ ~r.hasBody \/ r.status # 200
       => r.declared = NoLength /\ r.length = 0}
NoAnswer == [status |-> 0]

ReadInit == /\ adapter \in {"bounded", "page"}
            /\ readStage = "idle"
            /\ conditional = FALSE
            /\ answer = NoAnswer
            /\ receivedBytes = 0
            /\ body = "none"
            /\ timer = "off"
            /\ abortReason = None
            /\ readOutcome = None

\* The call ends, and its timer with it.
EndWith(o) == /\ readStage' = "ended"
              /\ readOutcome' = o
              /\ timer' = IF timer = "armed" THEN "off" ELSE timer
\* cancelResponseBody of the bounded reader; the page leaves a refused body to Fetch.
Refuse(o) == /\ EndWith(o)
             /\ body' = IF adapter = "bounded" /\ body # "none" THEN "cancelled" ELSE body

-----------------------------------------------------------------------------
(* read                                                                    *)

Read == /\ readStage = "idle"
        /\ \/ /\ abortReason = "caller"
              /\ EndWith("caller")
              /\ UNCHANGED conditional
           \/ /\ abortReason = None
              /\ readStage' = "fetching"
              /\ conditional' \in IF adapter = "bounded" THEN BOOLEAN ELSE {FALSE}
              /\ timer' = IF adapter = "bounded" THEN "armed" ELSE "off"
              /\ UNCHANGED readOutcome
        /\ UNCHANGED <<adapter, answer, receivedBytes, body, abortReason>>

\* Mutant of Abort: the reader of the body is not told.
AbortUnheard(reason) ==
  /\ abortReason' = IF abortReason = None THEN reason ELSE abortReason
  /\ UNCHANGED body
\* handleAbort cancels the reader of a body that is being read.
Abort(reason) ==
  /\ abortReason' = IF abortReason = None THEN reason ELSE abortReason
  /\ body' = IF readStage = "reading" /\ body = "open" THEN "cancelled" ELSE body

CallerAborts == /\ readStage # "ended" /\ abortReason # "caller"
                /\ Abort("caller")
                /\ UNCHANGED <<adapter, readStage, conditional, answer, receivedBytes,
                               timer, readOutcome>>
TimerFires == /\ timer = "armed"
              /\ timer' = "fired"
              /\ Abort("timeout")
              /\ UNCHANGED <<adapter, readStage, conditional, answer, receivedBytes,
                             readOutcome>>

FetchFails == /\ readStage = "fetching"
              /\ EndWith(IF abortReason = None THEN "network" ELSE abortReason)
              /\ UNCHANGED <<adapter, conditional, answer, receivedBytes, body, abortReason>>

\* What is wrong with a response before its body is read: None if nothing is.
Objection(r) ==
  CASE r.redirected -> "invalid_response"
    [] adapter = "bounded" /\ r.status = 304 /\ conditional -> "not_modified"
    [] r.status # 200 -> "http_status"
    [] ~r.json \/ ~r.hasBody -> "invalid_response"
    [] r.declared # NoLength /\ r.declared > MaximumBytes -> "too_large"
    [] OTHER -> None

FetchResolves(r) ==
  /\ readStage = "fetching"
  /\ answer' = r
  /\ IF abortReason # None \/ Objection(r) # None
     THEN /\ EndWith(IF abortReason # None THEN abortReason ELSE Objection(r))
          /\ body' = IF ~r.hasBody THEN "none"
                     ELSE IF adapter = "bounded" THEN "cancelled" ELSE "open"
     ELSE readStage' = "reading" /\ body' = "open" /\ UNCHANGED <<readOutcome, timer>>
  /\ UNCHANGED <<adapter, conditional, receivedBytes, abortReason>>

-----------------------------------------------------------------------------
(* readBoundedDecodedBody, readBoundedResponseBytes                        *)

\* The read that was pending ends: an abort comes before what it brought.
Interrupted == /\ abortReason # None
               /\ EndWith(abortReason)
               /\ UNCHANGED <<receivedBytes, body>>

Chunk(n) ==
  /\ readStage = "reading"
  /\ body = "open" /\ receivedBytes + n <= answer.length
  /\ \/ Interrupted
     \/ /\ abortReason = None
        /\ receivedBytes' = receivedBytes + n
        /\ IF receivedBytes + n > MaximumBytes
           THEN EndWith("too_large") /\ body' = "cancelled"
           ELSE UNCHANGED <<readStage, readOutcome, timer, body>>
  /\ UNCHANGED <<adapter, conditional, answer, abortReason>>

\* A chunk that is not made of bytes.
MalformedChunk ==
  /\ readStage = "reading" /\ body = "open"
  /\ \/ Interrupted
     \/ /\ abortReason = None
        /\ Refuse(IF adapter = "bounded" THEN "invalid_response" ELSE "type_error")
        /\ UNCHANGED receivedBytes
  /\ UNCHANGED <<adapter, conditional, answer, abortReason>>

\* Mutant of Completed: what has come is taken for the whole.
TakenForWhole == "fetched"
\* Only the bounded reader compares what has come with what was declared.
Completed == IF adapter = "bounded" /\ answer.declared \notin {NoLength, receivedBytes}
             THEN "invalid_response" ELSE "fetched"
\* The stream is done: after its last byte, earlier if it is cut off without an error, or
\* because it has been cancelled.
StreamEnds ==
  /\ readStage = "reading"
  /\ \/ Interrupted
     \/ /\ abortReason = None
        /\ EndWith(Completed)
        /\ body' = "consumed"
        /\ UNCHANGED receivedBytes
  /\ UNCHANGED <<adapter, conditional, answer, abortReason>>

StreamFails ==
  /\ readStage = "reading"
  /\ \/ Interrupted
     \/ /\ abortReason = None
        /\ EndWith("network")
        /\ body' = "broken"
        /\ UNCHANGED receivedBytes
  /\ UNCHANGED <<adapter, conditional, answer, abortReason>>

ReadNext == \/ Read \/ CallerAborts \/ TimerFires \/ FetchFails
            \/ \E r \in Responses : FetchResolves(r)
            \/ \E n \in 1..LongestBody : Chunk(n)
            \/ MalformedChunk \/ StreamEnds \/ StreamFails

\* A timer fires; Fetch rejects once its signal is aborted, and the read of a cancelled
\* body ends.  Nothing is assumed of the origin.
ReadProgress == \/ TimerFires
                \/ abortReason # None /\ FetchFails
                \/ body = "cancelled" /\ StreamEnds

-----------------------------------------------------------------------------
\* What a read says is so: bytes are within the limit and of the declared length, from a
\* successful response, and without an abort; an abort is reported with the reason that
\* came first; the timer of an ended call is off or has fired, and no body is left open.
ReadHonest ==
  readStage = "ended" =>
    /\ readOutcome = "fetched" =>
         /\ receivedBytes <= MaximumBytes /\ abortReason = None
         /\ answer.status = 200 /\ answer.json /\ ~answer.redirected
    /\ readOutcome \in {"caller", "timeout"} <=> abortReason # None
    /\ abortReason # None => readOutcome = abortReason
    /\ readOutcome = "not_modified" => conditional /\ answer.status = 304
    /\ timer # "armed"
    /\ adapter = "bounded" =>
         /\ body # "open"
         /\ readOutcome = "fetched" => answer.declared \in {NoLength, receivedBytes}

\* A read with a deadline ends, whatever the origin does or fails to do.
ReadEnds == adapter = "bounded" /\ readStage = "fetching" ~> readStage = "ended"
=============================================================================
