SPECIFICATION PartsFairSpec
CONSTANTS
  a1 = a1
  w1 = w1
  w2 = w2
  none = none
  c1 = c1
  c2 = c2
  p1 = p1
  p2 = p2
  p3 = p3
  l1 = l1
  l2 = l2
  m1 = m1
  s1 = s1
  t1 = t1
  NoApp = none
  Apps <- MCApps
  Workers <- MCWorkers
  RunApps <- MCApps
  Automatable <- MCApps
  Mode = "live"
  DailyCap = 3
  RunCap = 1
  Faults = {"cancel", "error"}
  LastPosting = 2
  Modes = {"off", "dry_run", "live"}
  LoopDailyCap = 2
  LoopRunCap = 2
  MaxDispatch = 2
  MaxCopies = 1
  Callers = {c1, c2}
  Pools = 2
  Drains = 2
  QueueSize = 1
  OnLoop = {p1}
  OnThreads = {p2, p3}
  Capacity = 2
  MaxDropped = 2
  MaxFrames = 3
  Lookups = {l1, l2}
  Deleters <- MCNobody
  LoopOf <- MCLoopOf
  FrontTTL = 1
  TTL = 2
  MaxClock = 2
  Providers = {"imap"}
  MailPolls = {m1}
  MailLast = 2
  MailLimit = 1
  Says = {"unknown", "offer"}
  Verdicts <- MCNobody
  MaxFails = 1
  Sources = {s1}
  Texts = {"v1", "v2"}
  IndexTasks = {t1}
  MaxChunks = 1
  MaxEdits = 2
  MaxMishaps = 1
CHECK_DEADLOCK FALSE
PROPERTY
  SubmittingSettles
  EveryRunEnds
  AcceptedIsExecuted
  FramesMoveOn
  EveryLookupReturns
  EveryMessageIsRead
  ContentArrives
