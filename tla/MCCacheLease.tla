---------------------------- MODULE MCCacheLease ----------------------------
(* Three contenders for one lease, of which one may crash at any call; or     *)
(* three beside what a fourth has left behind when it crashed, or beside one  *)
(* that has held it for long.                                                 *)
EXTENDS CacheLease

CONSTANTS p1, p2, p3, p4

MCFour == {p1, p2, p3, p4}
MCFirst == {p1}
MCNobody == {}

\* A state of Spec in which the fourth call is over before the others begin.
MCAfterSuccess ==
  /\ pc = [p \in Processes |-> IF p = p4 THEN "succeeded" ELSE "idle"]
  /\ lease = None
  /\ owner = [d \in Processes |-> IF d = p4 THEN p4 ELSE None]
  /\ age = [d \in Processes |-> 0] /\ dirAge = age

\* States of Spec in which the first has crashed before the others begin, with or without
\* an owner.json, and its lease has become stale.
MCAfterCrash ==
  /\ pc = [p \in Processes |-> IF p = p1 THEN "crashed" ELSE "idle"]
  /\ lease = p1
  /\ \E token \in {None, p1} : owner = [d \in Processes |-> IF d = p1 THEN token ELSE None]
  /\ age = [d \in Processes |-> StaleAfter + 1] /\ dirAge = age

\* A state of Spec in which the first has been at work for longer than the threshold, with
\* regular heartbeats, before the others begin.
MCLongHeld ==
  /\ pc = [p \in Processes |-> IF p = p1 THEN "running" ELSE "idle"]
  /\ lease = p1
  /\ owner = [d \in Processes |-> IF d = p1 THEN p1 ELSE None]
  /\ age = [d \in Processes |-> 0]
  /\ dirAge = [d \in Processes |-> IF d = p1 THEN StaleAfter + 1 ELSE 0]

MCNothingElse == /\ detached = [p \in Processes |-> None]
                 /\ seen = [p \in Processes |-> None]
                 /\ seenAge = [p \in Processes |-> 0]
                 /\ lost = {} /\ misled = FALSE
MCInit == (MCAfterSuccess \/ MCAfterCrash) /\ MCNothingElse
MCSpec == MCInit /\ [][Next]_vars /\ Fairness
MCLongHeldInit == MCLongHeld /\ MCNothingElse
MCLongHeldSpec == MCLongHeldInit /\ [][Next]_vars
=============================================================================
