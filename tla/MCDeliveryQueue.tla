--------------------------- MODULE MCDeliveryQueue ---------------------------
(* Instances of the delivery queue for TLC.                                *)
EXTENDS DeliveryQueueRefinement
=============================================================================
