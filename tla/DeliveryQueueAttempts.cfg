\* A batch read before another session retried one of its rows.
SPECIFICATION Spec
CONSTANTS
  None = None
  Worker = {w1, w2}
  Poller = {w1}
  Alert = {a1}
  Channel = {EMAIL, WEBHOOK}
  MaxAttempts = 2
  Limit = 2
  MaxCrashes = 1
  LeaseOverrun = FALSE
PROPERTY TransientFailureCounts
