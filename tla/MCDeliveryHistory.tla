------------------------- MODULE MCDeliveryHistory -------------------------
(* Instances of the delivery queue with its history for TLC.  Which worker *)
(* polls matters to fairness only, so the workers are interchangeable.     *)
EXTENDS DeliveryHistory, TLC

Symmetry == Permutations(Worker)
=============================================================================
