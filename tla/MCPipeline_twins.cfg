SPECIFICATION PipelineSpec
CONSTANTS
  a1 = a1
  a2 = a2
  w1 = w1
  w2 = w2
  d1 = d1
  none = none
  NoApp = none
  Apps <- MCApps1
  Workers <- MCWorkers2
  Desks <- MCNobody
  PatchTargets <- MCNobody
  RunApps <- MCNobody
  Automatable <- MCApps1
  Mode = "live"
  DailyCap = 2
  RunCap = 2
  Faults = {}
  MaxAsks = 2
  MaxQueue = 2
  MaxRedelivered = 0
CHECK_DEADLOCK FALSE
INVARIANT NeverTwice
