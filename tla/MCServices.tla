----------------------------- MODULE MCServices -----------------------------
(* Small instances of the services.                                         *)
EXTENDS Services

CONSTANTS r1, r2, r3

MCCalls == {r1, r2, r3}

\* Three calls of a module that admits two of them, and four bytes for datasets of one
\* and two: a call can be refused for its count or wait in the queue of the execution.
MCByteLength == [r \in MCCalls |-> IF r = r2 THEN 2 ELSE 1]

\* Two openings of the standard streams: one can share the module the other constructs.
MCConnections == {r1, r2}

\* The local server: three requests, one at a time; a bucket of one token that two ticks
\* fill, and a clock of two ticks, so that a token can be earned anew and the clock can
\* go back before and after a refusal.  The pool: two workers and three tasks, so that one queue has a task to give up
\* when its worker dies.  A read of an artifact: up to three bytes, of which two are
\* allowed.
MCTaskSizes == {1, 2}

\* Three reads of indexes, two of one process; three releases over two digests, one of
\* which does not fit the bytes it shares; and room for one index.
MCProcessOf == [r \in MCCalls |-> IF r = r3 THEN 2 ELSE 1]
MCReleases == {"a", "unfit", "b"}
MCDigestOf == [r \in MCReleases |-> IF r = "b" THEN "y" ELSE "x"]
MCFitting == {"a", "b"}

\* The first and the third ask for release a, the second for another; the components that
\* do not take part start in one state.
MCAsked == {[r \in MCCalls |-> IF r = r2 THEN other ELSE "a"] : other \in {"unfit", "b"}}
MCInit ==
  /\ ServicesInit
  /\ service # "http read" => adapter = "bounded"
  /\ IF service = "index reads" THEN release \in MCAsked
     ELSE release = [r \in MCCalls |-> "a"]
MCSpec == MCInit /\ [][ServicesNext]_servicesVars /\ ServicesFairness
=============================================================================
