\* One ingestion and one request, a content change and a crash.
SPECIFICATION Spec
SYMMETRY Symmetry
CONSTANTS
  Job = {a, b, c}
  Ingestion = {i1}
  Request = {r1}
  MaxCandidates = 2
  MaxChanges = 1
  MaxCrashes = 1
  None = None
INVARIANT TypeOK
INVARIANT NoCycle
INVARIANT RecordMatchesPointer
INVARIANT FlatWhereMatchesAgree
PROPERTY LinkIsFinal
PROPERTY LinksMatch
