SPECIFICATION ControlFairSpec
CONSTANTS
  Runs <- OneRun
  Platforms <- Paid
  Cost <- PaidCost
  Allocation = 5
  Settlers = {s1}
  Cancellers = {u1}
  MaxInFlight = 1
  MaxFaults = 2
  MaxRuns = 2
  Launchers = {l1}
  Clickers = {c1}
  Balances <- MCBalances
  MaxLaunchFaults = 0
  Viewers = {v1}
  ArenaJobs = {b1}
  Enders = {e1, e2}
  MaxConnects = 2
  MaxSaid = 1
  MaxStreamFaults = 0
  CommentRuns = {r1, r2}
  ParentPosts = {p1}
  Triggers = {g1}
  MaxJobs = 2
  MaxAsks = 1
  MaxCommentFaults = 0
  Records <- ThreeRecords
  RunRecords <- ThreeRecords
  Enrichers <- OneEnricher
  Listed <- AllListed
  Applicable <- SomeApplicable
  RunApplicable <- SomeApplicable
  Nights = {n1}
  RunTasks = {}
  PageSize = 1
  MaxEnrichFaults = 0
  MetaKeys = {k1}
  Fetches = {}
  Scrapes = {}
  NoText = NoText
  Cancels = {x1, x2}
  MaxScrapeFaults = 0
  ActorNames <- MCNames
  NameOf <- OneActor
  Accounts <- OneAccount
  PlatformOf <- OnePlatform
  Adders = {a1}
  Mergers = {}
  MaxActors = 1
  MaxPresences = 1
INVARIANTS SettledOnce SpentIsSettled OneCommentJob PaidTwiceAtMost
PROPERTIES RunRowsSpec StampedRunsSettle GuardFrees LiveRunsCollect SubscribersSeeTheEnd CommentRowsClear EverythingEnriched JobEnds
CHECK_DEADLOCK FALSE
