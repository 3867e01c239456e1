--------------------------- MODULE MCNotifications ---------------------------
(* Instances of the notification service for TLC.                          *)
EXTENDS Notifications, TLC

Symmetry == Permutations(Alert) \cup Permutations(Evaluator)

\* What is explored: three alerts with a lost process, two alerts of which one
\* had a failed attempt, one alert with both.
Within ==
  Cardinality({a \in Alert : parent[a] # "ABSENT"}) + crashes
    + 2 * Cardinality({d \in Delivery : Exists(d) /\ row[d].attempts > 0}) <= 4
=============================================================================
