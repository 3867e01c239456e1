\* Two processes with a scheduler, one of which also serves requests.
SPECIFICATION FairSpec
CONSTANTS
  Process = {api, worker}
  Scheduling = {api, worker}
  Serving = {api}
  Source = {s1, s2}
  Gather = {g1, g2}
  Manual = Manual
  None = None
  MaxConcurrency = 1
  MaxRetries = 1
  MaxInterruptions = 1
INVARIANT TypeOK
INVARIANT OneCallPerSource
INVARIANT ActiveSetExact
INVARIANT InterruptionsBlockFew
PROPERTY KeepsMonitoring
