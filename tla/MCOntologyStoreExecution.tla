---------------------- MODULE MCOntologyStoreExecution ----------------------
(* Three requests over two datasets, three bytes of room and a queue of two:  *)
(* a request can be refused for its bytes, either one of two can be taken out *)
(* of the queue, a dataset can be swapped under a warm worker and swapped     *)
(* back after a load that failed, and a worker can be replaced twice.         *)
EXTENDS OntologyStoreExecution

CONSTANTS r1, r2, r3, d1, d2

MCRequests == {r1, r2, r3}
MCDatasets == {d1, d2}
MCDatasetOf == [r \in Requests |-> IF r = r2 THEN d2 ELSE d1]
MCByteLength == [r \in Requests |-> IF r = r2 THEN 2 ELSE 1]
=============================================================================
