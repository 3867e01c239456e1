\* One notification on one channel: two evaluators, the preferences of the
\* candidate and a worker.
SPECIFICATION ServiceSpec
CONSTANTS
  None = None
  Worker = {w1}
  Poller = {w1}
  Alert = {a1}
  Channel = {EMAIL}
  Email = EMAIL
  Evaluator = {e1, e2}
  MaxPerHour = 1
  MaxAttempts = 2
  Limit = 2
  MaxCrashes = 1
  LeaseOverrun = FALSE
PROPERTY UnsubscribeIsImmediate
