\* Two sessions fail the two channels of one notification at the same time.
SPECIFICATION Spec
CONSTANTS
  None = None
  Worker = {w1, w2}
  Poller = {w1}
  Alert = {a1}
  Channel = {EMAIL, WEBHOOK}
  MaxAttempts = 2
  Limit = 2
  MaxCrashes = 0
  LeaseOverrun = FALSE
INVARIANT ParentSynchronized
