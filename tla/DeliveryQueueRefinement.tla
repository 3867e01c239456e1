---------------------- MODULE DeliveryQueueRefinement ----------------------
(***************************************************************************)
(* The delivery queue implements the delivery contract, as long as no send *)
(* outlasts the processing timeout.                                        *)
(***************************************************************************)
EXTENDS DeliveryQueue

contractState ==
  [d \in Delivery |->
     CASE row[d].status = "ABSENT" -> "absent"
       [] row[d].status \in {"PENDING", "RETRYING"} -> "queued"
       [] row[d].status = "PROCESSING" -> "leased"
       [] row[d].status = "SENT" -> "sent"
       [] row[d].status = "FAILED" -> "failed"
       [] row[d].status = "CANCELLED" -> "withdrawn"]

contractHolder ==
  [d \in Delivery |->
     IF \E w \in Worker : Holds(w, d) THEN CHOOSE w \in Worker : Holds(w, d) ELSE None]

Contract == INSTANCE DeliveryContract
              WITH state <- contractState, holder <- contractHolder

\* Every behaviour of the queue is one the contract allows: one lease at a
\* time, settled deliveries final, only queued deliveries withdrawn, and a
\* lost lease always back to the queue, never failed by the recovery.
ImplementsContract == Contract!Spec
=============================================================================
