CONSTANTS
  Lookups = {l1, l2}
  Kinds = {"decision", "redaction", "graph keys", "transparency", "proxy key", "embedding"}
  TTL = 2
  NegativeTTL = 1
  MaxLookup = 1
  MaxTime = 4
  MaxVersions = 2
  MaxMisses = 1
  n1 = n1
  n2 = n2
  Names = {n1, n2}
  Servers = {s1, s2}
  Declared = {s2}
  Requests <- Conversations
  MaxIterations = 2
  Submits = {f1, f2}
  Refreshes = {r1, r2}
  LoginTTL = 2
  CodeTTL = 1
  AccessTTL = 1
  RefreshTTL = 2
  MaxDelay = 1
  MaxNow = 4
  MaxRestarts = 1
  MaxFailures = 1
  Incidents = {i1}
  Notifiable = {i1}
  Assessments = {a1, a2}
  NotificationHours = 3
  CriticalHours = 2
  WarningHours = 1
  MaxHours = 4
  MaxChanges = 4
  Agents = {g1, g2}
  Capacity <- CapacityOfAgents
  IdleLimit = 4
  CleanupEvery = 3
  Chunks = {c1, c2, c3}
  Class <- ClassOfChunks
  Sealed = {c2, c3}
  TopK = 2
  MaxUpdates = 1
  MaxFaults = 1
  Texts <- ShortTexts
  Recognizers <- TypesOfHits
  Patterns = {"IBAN_CODE"}
  MaxHits = 3
SPECIFICATION ServicesSpec
SYMMETRY OAuthSymmetry
INVARIANTS
  AnswersAreRecent
  UpdatesTakeEffect
  NamesAreHidden
  PseudonymsStayInside
  OneGrantPerLogin
  RefreshSurvives
  RevocationHolds
  IncidentsStayOnRecord
  AtMostOneOver
  ReleasedIsPermitted
  TextsAreRestored
CHECK_DEADLOCK FALSE
