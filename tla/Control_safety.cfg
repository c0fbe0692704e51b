SPECIFICATION ControlSpec
CONSTANTS
  Runs <- OneRun
  Platforms <- Paid
  Cost <- PaidCost
  Allocation = 2
  Settlers = {s1}
  Cancellers = {u1, u2}
  MaxInFlight = 1
  MaxFaults = 2
  MaxRuns = 2
  Launchers = {l1}
  Clickers = {c1}
  Balances <- MCBalances
  MaxLaunchFaults = 2
  Viewers = {v1}
  ArenaJobs = {b1, b2}
  Enders = {e1}
  MaxConnects = 2
  MaxSaid = 2
  MaxStreamFaults = 1
  CommentRuns = {r1}
  ParentPosts = {p1}
  Triggers = {g1}
  MaxJobs = 3
  MaxAsks = 1
  MaxCommentFaults = 1
  Records <- ThreeRecords
  RunRecords <- MCRunRecords
  Enrichers <- TwoEnrichers
  Listed <- MCListed
  Applicable <- MCApplicable
  RunApplicable <- MCRunApplies
  Nights = {n1}
  RunTasks = {t1}
  PageSize = 1
  MaxEnrichFaults = 1
  MetaKeys = {k1, k2}
  Fetches = {f1, f2}
  Scrapes = {j1, j2}
  NoText = NoText
  Cancels = {x1, x2}
  MaxScrapeFaults = 1
  ActorNames <- MCNames
  NameOf <- Namesakes
  Accounts <- OneAccount
  PlatformOf <- OnePlatform
  Adders = {}
  Mergers = {m1, m2}
  MaxActors = 2
  MaxPresences = 2
INVARIANTS
  ControlTypeOK HeldWithinBudget RefundsBounded
  LaunchesBounded
  NoEarlyClose
  CompletedRunsAsk
  NightStepsOverFew RunIsEnriched
  CollectedTextKept
  RunningIsWorkedOn
PROPERTIES ViewsNeverGoBack MergeMovesKnown
CHECK_DEADLOCK FALSE
