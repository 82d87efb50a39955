SPECIFICATION Spec
CONSTANTS
  None = None
  pos = pos  neg = neg  t1 = t1  t2 = t2  o1 = o1  o2 = o2  o3 = o3
  Keywords = {pos, neg}
  Positive = {pos}
  Editors = {e1, e2}
  Readers = {w1}
  Tables <- OnePositive
  Drafts <- Rewrites
  MaxEdits = 2
  MaxMisses = 1
  Missing = Missing
  Subs = {s1}
  Requests = {r1, r2}
  Hours = {t1, t2}
  Amounts = {1, 2}
  Payloads <- Bodies
  MaxRequests = 3
  Narrow <- Filters3
  Offers <- Orders3
  Words = {"shop", "bot", "cheap"}
  MaxOrderAge = 2
  DayLength = 8
  Settings <- QuietSettings
  MaxTime = 20
  DaysPerMonth = 2
  RetentionDays = 1
  MonthsBehind = 1
  MonthsAhead = 1
  FirstDay = 20
  LastDay = 26
  History = 3
  Texts <- PlainTexts
  MaxMarkers = 2
  MaxMessageAge = 8
  Orders = {o1, o2, o3}
  Rank <- ByAge
  Groups = {g1, g2}
  Contents <- SaidOffers
  Alike <- SameTexts
  Near <- NearTexts
  MaxRevisions = 1
  MaxModels = 1
  Letters = {"x", "y"}
  Shortest = 3
  MaxLength = 4
  FirstYear = 2027
  LastYear = 2028
  Days = {0, 1, 29, 31, 32}
  Months = {0, 2, 4, 12, 13}
  Workers = {w1, w2}
  Versions = {v1, v2}
  MaxSaves = 2

CHECK_DEADLOCK FALSE
INVARIANTS
  StaleIsExcused RulesCompile
  QuietHoursWhole
  DueWhenQuietEnds
  CurrentMonthHasPartition
  NobodyVanishes
  FuzzyIsOneEdit
  DeadlinesAreRight
  PinnedVersionOnly
PROPERTIES
  WiderMatchesMore
  OnlyExpiredDisappear
  MoreFactsKeepTheOrder
