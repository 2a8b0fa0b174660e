SPECIFICATION PipelineSpec
CONSTANTS
  a1 = a1
  a2 = a2
  w1 = w1
  w2 = w2
  d1 = d1
  none = none
  NoApp = none
  Apps <- MCApps1
  Workers <- MCWorkers2
  Desks <- MCDesks1
  PatchTargets <- MCPatches
  RunApps <- MCNobody
  Automatable <- MCApps1
  Mode = "live"
  DailyCap = 2
  RunCap = 2
  Faults = {"kill", "error"}
  MaxAsks = 2
  MaxQueue = 1
  MaxRedelivered = 1
CHECK_DEADLOCK FALSE
SYMMETRY WorkerSymmetry
INVARIANT EverySendWasReadied
