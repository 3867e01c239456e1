-------------------------- MODULE DeliveryHistory --------------------------
(***************************************************************************)
(* The delivery queue with a memory.  The table keeps an attempt count that*)
(* sessions overwrite from their identity maps; what it is meant to bound, *)
(* the number of times a delivery is tried, is nowhere stored.  Two history*)
(* variables follow the steps of the queue and restrict none of them.      *)
(***************************************************************************)
EXTENDS DeliveryQueueRefinement

VARIABLES
  tries,    \* how often each delivery has been claimed
  overlaid  \* deliveries that two sessions had in their batches at one time

history == <<tries, overlaid>>

HistoryInit ==
  /\ Init
  /\ tries = [d \in Delivery |-> 0]
  /\ overlaid = {}

\* Only claim_for_processing makes a row PROCESSING.
Claimed(d) == row[d].status # "PROCESSING" /\ row'[d].status = "PROCESSING"

\* Two batches will hold d, the rows in hand included.
Shared(d) == \E v, w \in Worker : v # w /\ d \in todo'[v] \cap todo'[w]

Remember ==
  /\ tries' = [d \in Delivery |-> IF Claimed(d) THEN tries[d] + 1 ELSE tries[d]]
  /\ overlaid' = overlaid \cup {d \in Delivery : Shared(d)}

HistorySpec == HistoryInit /\ [][Next /\ Remember]_<<vars, history>>

\* A delivery is tried at most MaxAttempts times, and once more for each worker
\* lost: neither a recovery nor a requeued row loses count.  The count a session
\* writes comes from its identity map, so for deliveries that two sessions had
\* loaded at one time this fails; there TransientFailureCounts shows how.
TriesBounded ==
  \A d \in Delivery \ overlaid : tries[d] <= MaxAttempts + crashes
=============================================================================
