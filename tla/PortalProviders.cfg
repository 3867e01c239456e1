SPECIFICATION MCSpec
CONSTANTS
  None = None
  Session = {s1}
  User = {u1}
  Field = {"headline"}
  Kind = {"experience"}
  Entry = {e1}
  Skill = {k1}
  Job = {j1}
  MaxRequests = 4
  Application = {a1}
  Child = {c1}
  Text = {t1, t2}
  Extracted <- Extractions
  Failed = Failed
  Call = {s1}
  Posting = {p1}
  Malformed = {p1}
  PageLimit = 2
  MaxPages = 2
  MaxOffset = 3
  MaxRetries = 1
  MaxRepublished = 1
  Unknown = Unknown
  Pairings <- MCPairings
  Missing = Missing
  TitleWords <- MCTitleWords
  Ratio <- MCRatio
  Seniority <- MCSeniority
  Comparisons <- MCComparisons
  NoScore = NoScore
  NoQuery = NoQuery
  Window = 3
  Queries <- MCQueries
INVARIANT FailuresAbsorbed
CHECK_DEADLOCK FALSE
