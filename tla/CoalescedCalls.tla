--------------------------- MODULE CoalescedCalls ---------------------------
(***************************************************************************)
(* What createWaiterAwareSharedOperation promises its callers, with no     *)
(* registry, no reference counting and no promise reactions: calls for one *)
(* key share the operation that is live for that key, a call may leave on  *)
(* its own, and the operation is abandoned exactly when the last call that *)
(* shares it leaves before it is done.                                     *)
(***************************************************************************)
CONSTANTS Calls,   \* the calls of one execution; an operation is named by the
                   \* call that starts it
          Keys     \* operation keys

VARIABLES call,    \* what has become of each call
          callKey, \* the key each call asked for
          shares,  \* the operation each call shares
          status   \* what has become of each operation

vars == <<call, callKey, shares, status>>

Sharers(o) == {c \in Calls : call[c] = "waiting" /\ shares[c] = o}
Live(k) == {o \in Calls : status[o] = "live" /\ callKey[o] = k}

Init == /\ call = [c \in Calls |-> "idle"]
        /\ callKey \in [Calls -> Keys]
        /\ shares = [c \in Calls |-> c]
        /\ status = [o \in Calls |-> "none"]

\* The caller's signal was aborted before it called.
Refuse(c) == /\ call[c] = "idle"
             /\ call' = [call EXCEPT ![c] = "cancelled"]
             /\ UNCHANGED <<callKey, shares, status>>

\* No operation is live for the key: the call starts one.
Start(c) == /\ call[c] = "idle"
            /\ Live(callKey[c]) = {}
            /\ \/ /\ call' = [call EXCEPT ![c] = "waiting"]
                  /\ status' = [status EXCEPT ![c] = "live"]
               \/ /\ call' = [call EXCEPT ![c] = "cancelled"]
                  /\ status' = [status EXCEPT ![c] = "abandoned"]
            /\ UNCHANGED <<callKey, shares>>

\* An operation is live for the key: the call shares it.
Join(c) == /\ call[c] = "idle"
           /\ \E o \in Live(callKey[c]) : shares' = [shares EXCEPT ![c] = o]
           /\ call' = [call EXCEPT ![c] = "waiting"]
           /\ UNCHANGED <<callKey, status>>

\* One call leaves; only the last one to leave a live operation abandons it.
Leave(c) == /\ call[c] = "waiting"
            /\ call' = [call EXCEPT ![c] = "cancelled"]
            /\ status' = IF Sharers(shares[c]) = {c} /\ status[shares[c]] = "live"
                         THEN [status EXCEPT ![shares[c]] = "abandoned"]
                         ELSE status
            /\ UNCHANGED <<callKey, shares>>

Finish(o) == /\ status[o] = "live"
             /\ status' = [status EXCEPT ![o] = "done"]
             /\ UNCHANGED <<call, callKey, shares>>

\* A call gets the outcome of an operation that is done, never of an
\* abandoned one.
Deliver(c) == /\ call[c] = "waiting"
              /\ status[shares[c]] = "done"
              /\ call' = [call EXCEPT ![c] = "served"]
              /\ UNCHANGED <<callKey, shares, status>>

Next == \E c \in Calls : \/ Refuse(c) \/ Start(c) \/ Join(c)
                         \/ Leave(c) \/ Finish(c) \/ Deliver(c)

Spec == Init /\ [][Next]_vars
=============================================================================
