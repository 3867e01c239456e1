\* One notification with two channels behind batches of one row; the second
\* session need not poll.
SPECIFICATION FairSpec
CONSTANTS
  None = None
  Worker = {w1, w2}
  Poller = {w1}
  Alert = {a1}
  Channel = {EMAIL, WEBHOOK}
  MaxAttempts = 2
  Limit = 1
  MaxCrashes = 1
  LeaseOverrun = FALSE
PROPERTIES
  EveryDeliverySettles
  SentSurfaces
