SPECIFICATION PartsSpec
CONSTANTS
  a1 = a1
  a2 = a2
  w1 = w1
  w2 = w2
  none = none
  r1 = r1
  r2 = r2
  x1 = x1
  x2 = x2
  d1 = d1
  d2 = d2
  c1 = c1
  c2 = c2
  c3 = c3
  p1 = p1
  p2 = p2
  l1 = l1
  l2 = l2
  l3 = l3
  m1 = m1
  m2 = m2
  s1 = s1
  t1 = t1
  f1 = f1
  f2 = f2
  f3 = f3
  NoApp = none
  Apps <- MCApps
  Workers <- MCWorkers
  RunApps <- MCOneApp
  Automatable <- MCApps
  Mode = "dry_run"
  DailyCap = 1
  RunCap = 1
  Faults = {"kill", "cancel", "cancel_late", "error"}
  Runs <- MCRuns
  Actors <- MCActors
  Ops = {"stop", "limit", "late_limit", "tick", "tick_error", "watchdog", "abort"}
  LastPosting = 3
  Modes = {"off", "dry_run", "live"}
  LoopDailyCap = 2
  LoopRunCap = 2
  MaxDispatch = 2
  MaxCopies = 1
  Callers = {c1, c2, c3}
  Pools = 2
  Drains = 2
  QueueSize = 1
  StepKeys = {"key"}
  Drivers = {d1, d2}
  MaxAttempt = 2
  MaxUnits = 2
  OnLoop = {p1, p2}
  OnThreads = {}
  Capacity = 2
  MaxDropped = 3
  MaxFrames = 7
  Lookups = {l1, l2, l3}
  Deleters = {d1}
  LoopOf <- MCLoopOf
  FrontTTL = 1
  TTL = 2
  MaxClock = 2
  MaxRows = 3
  LastDay = 2
  Age = 1
  Providers = {"imap", "delta"}
  MailPolls = {m1, m2}
  MailLast = 2
  MailLimit = 1
  Says = {"none", "offer"}
  Verdicts = {"accepted"}
  MaxFails = 1
  Askers = {l1, l2}
  Budget = 4
  Estimate = 2
  Costs = {1, 3}
  MaxCost = 3
  Retries = 1
  MaxDays = 1
  MaxAsks = 3
  Polls = {p1, p2}
  BoardOf <- MCBoardOf
  Openings = {"o1", "o2"}
  Boards = {"board"}
  MaxCrashes = 1
  Sources = {s1}
  Texts = {"v1", "v2"}
  IndexTasks = {t1}
  MaxChunks = 2
  MaxEdits = 2
  MaxMishaps = 0
  Fields = {f1, f2}
  MaxEssays = 1
  Starters = {x1}
  MaxSpawns = 2
  MaxPolls = 1
  ShellFaults = {"kill_error", "slow", "exits"}
  MaxVersions = 2
  Offered <- MCOffered
  DocFaults = {"error", "killed", "swept", "lost"}
  Facts = {f1, f2}
  HeadingOf <- MCHeadingOf
  Movable = {f2}
  Impact <- MCImpact
  MaxBullets = 1
  Retrievable <- MCRetrievable
  ReplyLimit = 2
  Citations <- MCCitations
  MaxChanges = 1
  MaxDeliveries = 2
  BoardList <- MCBoardList
  Jobs = {"j1", "j2", "u"}
  Wanted = {"j1", "j2"}
  Limits = {2, 4}
  PageSize = 1
  MaxPages = 4
  MaxAttempts = 2
  MaxBoardChanges = 1
  Tenants <- MCTenants
  Resolutions = 1
  Wish = 2
  MaxSearches = 3
  MaxTurns = 2
  EmbedCalls = {c1, c2}
  Inputs <- MCInputs
  Settings <- MCSettings
  BatchSize = 2
  Attempts = 2
  MaxRestarts = 1
CHECK_DEADLOCK FALSE
INVARIANT
  ServicesTypeOK
  EndIsExplained
  RunWithinCaps
  JobsAreConserved
  CollisionIsIsolated
  RunningMeansDrivenOrCrashed
  LossesAreCounted
  PaidOnce
  NothingVanishes
  AnswersReachSomebody
  OverdraftIsBounded
  IngestedIsStored
  VectorsFollowRows
  OnlySureAnswersAreSent
  OneBackend
  ResumeSentIsRecorded
  NothingIsInvented
  BoardsShareTheBudget
  EachTextItsVector
PROPERTY
  RehearsalConsumesNothing
  ImplementsRunLife
  EmptyMeansDealtWith
  PersonHasTheLastWord
  ColdStartAdvances
