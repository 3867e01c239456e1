\* The default deployment: the worker schedules, the API server serves.
SPECIFICATION Spec
CONSTANTS
  Process = {api, worker}
  Scheduling = {worker}
  Serving = {api}
  Source = {s1, s2}
  Gather = {g1}
  Manual = Manual
  None = None
  MaxConcurrency = 1
  MaxRetries = 1
  MaxInterruptions = 1
INVARIANT ShutdownCancels
