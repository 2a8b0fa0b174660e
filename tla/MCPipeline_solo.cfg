SPECIFICATION PipelineSpec
CONSTANTS
  a1 = a1
  a2 = a2
  w1 = w1
  w2 = w2
  d1 = d1
  none = none
  NoApp = none
  Apps <- MCApps2
  Workers <- MCWorkers1
  Desks <- MCNobody
  PatchTargets <- MCNobody
  RunApps <- MCApps1
  Automatable <- MCApps2
  Mode = "live"
  DailyCap = 1
  RunCap = 1
  Faults = {"kill", "cancel", "cancel_late", "error"}
  MaxAsks = 2
  MaxQueue = 1
  MaxRedelivered = 0
CHECK_DEADLOCK FALSE
INVARIANT NeverUnasked
PROPERTY ImplementsLifecycle
