SPECIFICATION MCSpec
CONSTANTS
  a1 = a1
  a2 = a2
  a3 = a3
  w1 = w1
  w2 = w2
  none = none
  NoApp = none
  Apps <- MCApps3
  Workers <- MCWorkers2
  RunApps <- MCApps2
  Automatable <- MCApps2
  Mode = "live"
  DailyCap = 1
  RunCap = 1
  Faults = {"kill", "cancel", "cancel_late", "error"}
SYMMETRY WorkerSymmetry
INVARIANT TypeOK NeverTwice CompletedIsSent
PROPERTY ImplementsOutbox CapOverrunBounded StopDrains
