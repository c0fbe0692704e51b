SPECIFICATION CollectSpec
CONSTANTS
  Requesters = {"q1", "q2"}
  Waiters = {"w1"}
  Cascade = 2
  Limit <- MCLimit
  Width <- MCWidth
  Timeout = 1
  MaxCalls <- MCCalls
  Horizon = 1
  MaxRedisFaults = 1
  MaxResets = 1
  Takers = {t1, t2}
  Credentials <- OneKey
  Quota <- MCQuota
  MaxErrors = 1
  MaxAdmin = 1
  MaxPoolFaults = 1
  Harvests = {h1, h2}
  Posts <- MCPosts
  TermSets <- SomeTerms
  Requests <- MCDates
  BatchSize = 2
  MaxHarvestFaults = 1
  Ids <- ThreeIds
  Kinds <- CopyKinds
  NoValue = NoValue
  Readers = {f1}
  Passes = {p1, p2}
INVARIANTS
  CollectTypeOK
  RateKept RefusedLeaveNoTrace
  QuotaOvershootBounded CountersExpire ReportedNotHandedBack
  CoveredIsStored RunSeesAll
  OneCopyShown CopiesStayHidden
CHECK_DEADLOCK FALSE
