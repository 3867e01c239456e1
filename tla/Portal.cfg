SPECIFICATION MCSpec
CONSTANTS
  None = None
  Session = {s1, s2}
  User = {u1}
  Field = {"headline"}
  Kind = {"experience"}
  Entry = {e1}
  Skill = {k1}
  Job = {j1}
  MaxRequests = 4
  Application = {a1, a2}
  Child = {c1}
  Text = {t1, t2}
  Extracted <- Extractions
  Failed = Failed
  Call = {s1, s2}
  Posting = {p1, p2, p3}
  Malformed = {p3}
  PageLimit = 2
  MaxPages = 2
  MaxOffset = 3
  MaxRetries = 1
  MaxRepublished = 1
  Unknown = Unknown
  Pairings <- MCPairings
  Missing = Missing
  TitleWords <- MCTitleWords
  Ratio <- MCRatio
  Seniority <- MCSeniority
  Comparisons <- MCComparisons
  NoScore = NoScore
  NoQuery = NoQuery
  Window = 3
  Queries <- MCQueries
CONSTRAINT Apart
SYMMETRY Symmetry
INVARIANTS
  PortalTypeOK
  PercentAccountedFor
  AuditTrail
  UnbrokenTrail
  OneApplicationPerJob
  NoOrphans
  ErrorsExplained
  ExtractionsReachRequirements
  RequestsBounded
  RowsCountedOnce
  SkipsExplained
  ImprovementNeverHurts
  UnknownIsNeutral
  
  PagesPartition
PROPERTY QuietListFetchedWhole
CHECK_DEADLOCK FALSE
