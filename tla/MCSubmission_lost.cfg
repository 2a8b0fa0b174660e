SPECIFICATION MCSpec
CONSTANTS
  a1 = a1
  a2 = a2
  a3 = a3
  w1 = w1
  w2 = w2
  none = none
  NoApp = none
  Apps <- MCApps2
  Workers <- MCWorkers2
  RunApps <- MCOneApp
  Automatable <- MCApps2
  Mode = "live"
  DailyCap = 3
  RunCap = 3
  Faults = {"error"}
PROPERTY SentStaysSent
