-------------------------- MODULE DeliveryContract --------------------------
(***************************************************************************)
(* What the delivery queue promises, whoever the workers are and however   *)
(* they do it: a queued delivery is leased to one worker, which settles it *)
(* or queues it again; a lease whose worker is lost is reclaimed; only a   *)
(* queued delivery can be withdrawn; a settled one never changes again.    *)
(***************************************************************************)
CONSTANTS Worker, Delivery, None

VARIABLES
  state,   \* [Delivery -> {"absent", "queued", "leased", "sent", "failed", "withdrawn"}]
  holder   \* [Delivery -> Worker \cup {None}]: the worker on a leased delivery

vars == <<state, holder>>

Init ==
  /\ state = [d \in Delivery |-> "absent"]
  /\ holder = [d \in Delivery |-> None]

Offer(d) ==
  /\ state[d] = "absent"
  /\ state' = [state EXCEPT ![d] = "queued"]
  /\ UNCHANGED holder

Lease(d, w) ==
  /\ state[d] = "queued"
  /\ \A e \in Delivery : holder[e] # w
  /\ state' = [state EXCEPT ![d] = "leased"]
  /\ holder' = [holder EXCEPT ![d] = w]

Settle(d) ==
  /\ state[d] = "leased"
  /\ holder[d] # None
  /\ \E s \in {"sent", "failed", "queued"} : state' = [state EXCEPT ![d] = s]
  /\ holder' = [holder EXCEPT ![d] = None]

\* The worker is lost, the lease is not.
Abandon(d) ==
  /\ holder[d] # None
  /\ holder' = [holder EXCEPT ![d] = None]
  /\ UNCHANGED state

Reclaim(S) ==
  /\ \A d \in S : state[d] = "leased" /\ holder[d] = None
  /\ state' = [d \in Delivery |-> IF d \in S THEN "queued" ELSE state[d]]
  /\ UNCHANGED holder

Withdraw(S) ==
  /\ \A d \in S : state[d] = "queued"
  /\ state' = [d \in Delivery |-> IF d \in S THEN "withdrawn" ELSE state[d]]
  /\ UNCHANGED holder

Next ==
  \/ \E d \in Delivery : Offer(d) \/ Settle(d) \/ Abandon(d) \/ \E w \in Worker : Lease(d, w)
  \/ \E S \in SUBSET Delivery : Reclaim(S) \/ Withdraw(S)

Spec == Init /\ [][Next]_vars
=============================================================================
