\* Two sessions, of which one polls, one notification with two channels.
SPECIFICATION HistorySpec
SYMMETRY Symmetry
CONSTANTS
  None = None
  Worker = {w1, w2}
  Poller = {w1}
  Alert = {a1}
  Channel = {EMAIL, WEBHOOK}
  MaxAttempts = 2
  Limit = 2
  MaxCrashes = 1
  LeaseOverrun = FALSE
INVARIANTS
  TypeOK
  ExclusiveClaim
  TriesBounded
  ParentTruthful
PROPERTIES
  SettledForGood
  ImplementsContract
