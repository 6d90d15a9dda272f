SPECIFICATION Spec
CONSTANTS
  a = a
  b = b
  n = n
  nd = nd
  t1 = t1
  t2 = t2
  Undefined = Undefined
  EmptyText = EmptyText
  None = None
  Ids = {a, b}
  Names = {n, nd}
  Label <- SomeLabels
  Numbers = {0, 1}
  Lists <- SomeLists
  Filters <- SomeFilters
  Tabs = {t1, t2}
  Positions = 6
  PageLimit = 2
  WalkPages = 3
  MaxChanges = 2
  Duration = 2
  MaxTime = 9
  MaxContract = 3
  Floor = 1
  Latest = 2
  MaxProtocol = 3
  CacheKeys = {k1, k2, k3}
  Executions = {q1, q2}
  MaxSize = 4
  MaxEntries = 2
  MaxBytes = 3
  MaxGeneration = 1
  MaxDropped = 1
  DocumentTypes <- SomeDocumentTypes
  StatementFields = {1, 2, 3}
  MaxFilters = 3
  MaxOrder = 2
  Texts = {"t1", "t2", "t3"}
  Statements <- SomeStatements
  Contracts = {"c1", "c2"}
  MaxRuns = 2
  MaxSessions = 3
  RunPages = 2
  Viewed = {a}
  MaxGrants = 2
  MaxRefusals = 2
  Saved = {a, b}
  Scopes = {n, nd, None}
  Remote <- SomeRemote
  Savable <- SomeSavable
  MaxItems <- SomeLimits
  ListRefusals = 1
  Parts = {"keys", "walks", "epoch", "contract", "protocol", "store", "pages",
           "workspace", "indexes", "history", "lists"}

INVARIANTS
  PageShowsItsRequest
  CompleteOrTruncated
  EpochEstablished
  StaleEndsWithRefresh
  WritesFollowNetwork
  EvidenceUpToDate
  ClaimsTrue
  FailuresShown
  ResultsOfContext
  StatementsTakeTurns
  PassedIsServed
  HistoryNeedsConsent
  EntriesKept
SYMMETRY TabSymmetry
CHECK_DEADLOCK FALSE
