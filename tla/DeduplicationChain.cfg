\* Five jobs in batches of one ingestion: nothing overlaps, changes or is lost.
SPECIFICATION Spec
SYMMETRY Symmetry
CONSTANTS
  Job = {a, b, c, d, e}
  Ingestion = {i1}
  Request = {}
  MaxCandidates = 4
  MaxChanges = 0
  MaxCrashes = 0
  None = None
INVARIANT ChainingPrevented
