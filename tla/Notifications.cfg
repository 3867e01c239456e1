\* Up to three alerts on one channel: two evaluators, a limit of one per hour,
\* the preferences of the candidate and a worker.
SPECIFICATION ServiceSpec
SYMMETRY Symmetry
CONSTRAINT Within
CONSTANTS
  None = None
  Worker = {w1}
  Poller = {w1}
  Alert = {a1, a2, a3}
  Channel = {EMAIL}
  Email = EMAIL
  Evaluator = {e1, e2}
  MaxPerHour = 1
  MaxAttempts = 2
  Limit = 1
  MaxCrashes = 1
  LeaseOverrun = FALSE
INVARIANTS
  TypeInvariant
  OnlyInFlightLeaks
  OneProducer
  HourlyLimitOvershoot
  QueuedAsWanted
